--------------------------- MODULE ProcessProofs ----------------------------
(***************************************************************************)
(* Theorems about the processes: the engine that the API starts, and the   *)
(* executor that the engine forks, with its browser pool.                  *)
(***************************************************************************)
EXTENDS EngineLifecycle, WebExecutor, WellFoundedInduction, SequenceTheorems, TLAPS

-----------------------------------------------------------------------------
(***************************************************************************)
(* EngineLifecycle, for any number of due jobs, requests, crashes, failed  *)
(* queries, stops and previews: the API never has two engines, and once    *)
(* it is told to stop only a request that is still being served can start  *)
(* one.                                                                    *)
(***************************************************************************)

\* An engine is the child that the controller knows until its exit, and one that
\* lives can be reached.
KnownEngine == (runner.pc # "none" => api.child) /\ (~Gone => api.open)

\* An API that is down has nothing that could still start one.
DownIsSilent == api.up = "down" => ~api.hook /\ ~api.restart /\ ~api.child

\* From its stop on the scheduler neither plans nor holds a timer.
StoppedForGood == api.up # "up" => sched = [plan |-> "stopped", timer |-> "off"]

\* The controller forgets that it is stopping only for a late request.
StopsUnlessAsked == api.up \in {"stopping", "closing"} => api.stopping \/ api.late

Supervised == KnownEngine /\ DownIsSilent /\ StoppedForGood /\ StopsUnlessAsked
EngineInv == TypeOK /\ Supervised

-----------------------------------------------------------------------------
(* Type correctness *)

LEMMA ModeTyped ==
  ASSUME TypeOK
  PROVE  /\ mode.due \in Nat \ {0} /\ mode.requests \in Nat /\ mode.retries \in Nat
         /\ mode.crashes \in Nat /\ mode.errors \in Nat /\ mode.stops \in Nat
         /\ mode.previews \in Nat /\ MaxWakes \in Nat \ {0}
BY BoundsAssumption DEF TypeOK

LEMMA WakeTyped ==
  ASSUME TypeOK, NEW a \in Api, Wake(a)
  PROVE  /\ api' \in Api /\ runner' \in Runner /\ wakes' \in 0..MaxWakes
         /\ history' \in History
<1>1. history' \in History
  BY DEF Wake, TypeOK, History
<1>2. wakes' \in 0..MaxWakes
  BY ModeTyped DEF Wake, TypeOK
<1>3. api' \in Api
  <2>1. api.hookWaits \in BOOLEAN /\ api.planWaits \in BOOLEAN
    BY DEF TypeOK, Api
  <2>2. CASE Connected
    BY <2>1, <2>2 DEF Wake, Api
  <2>3. CASE ~Connected
    BY <2>3 DEF Wake, Api
  <2> QED BY <2>2, <2>3
<1>4. runner' \in Runner
  BY DEF Wake, TypeOK, Runner, NoRunner
<1> QED BY <1>1, <1>2, <1>3, <1>4

LEMMA InitTyped == Init => TypeOK
<1> SUFFICES ASSUME Init PROVE TypeOK
  OBVIOUS
<1>1. mode \in Modes
  BY DEF Init
<1>2. /\ mode.due \in Nat \ {0} /\ mode.requests \in Nat /\ mode.retries \in Nat
      /\ mode.crashes \in Nat /\ mode.errors \in Nat /\ mode.stops \in Nat
      /\ mode.previews \in Nat /\ MaxWakes \in Nat \ {0}
  BY <1>1, BoundsAssumption
<1>3. work \in Work
  <2>1. work \in [due : {0}, planned : BOOLEAN, orphan : {FALSE}]
    BY DEF Init
  <2>2. {0} \subseteq 0..mode.due
    BY <1>2
  <2>3. work.due \in 0..mode.due /\ work.planned \in BOOLEAN /\ work.orphan \in BOOLEAN
    BY <2>1, <2>2
  <2>4. work = [due |-> work.due, planned |-> work.planned, orphan |-> work.orphan]
    BY <2>1
  <2> QED BY <2>3, <2>4 DEF Work
<1>4. api \in Api /\ sched \in Sched /\ runner \in Runner /\ reports \in Reports
  BY DEF Init, NoApi, Api, Sched, NoRunner, Runner, NoReports, Reports
<1>5. history \in History /\ wakes \in 0..MaxWakes
  BY <1>2 DEF Init, History
<1> QED BY <1>1, <1>3, <1>4, <1>5 DEF TypeOK

LEMMA StepTyped == TypeOK /\ [Next]_vars => TypeOK'
<1> SUFFICES ASSUME TypeOK, [Next]_vars PROVE TypeOK'
  OBVIOUS
<1>1. ASSUME QueueWork, mode' = mode PROVE TypeOK'
  <2>1. work' \in Work
    BY <1>1, ModeTyped DEF QueueWork, TypeOK, Work
  <2>2. api' \in Api
    BY <1>1 DEF QueueWork, TypeOK, Api
  <2>3. history' \in History
    BY <1>1, ModeTyped DEF QueueWork, TypeOK, History
  <2>4. UNCHANGED <<sched, runner, wakes, reports>>
    BY <1>1 DEF QueueWork
  <2> QED BY <1>1, <2>1, <2>2, <2>3, <2>4 DEF TypeOK, Work, History
<1>2. ASSUME Arrive, mode' = mode PROVE TypeOK'
  <2>1. work' \in Work
    <3>1. work.due + 1 \in 0..mode.due
      BY <1>2, ModeTyped DEF Arrive, TypeOK, Work
    <3>2. work \in Work /\ work' = [work EXCEPT !.due = work.due + 1, !.planned = FALSE]
      BY <1>2 DEF Arrive, TypeOK
    <3> QED BY <1>2, <3>1, <3>2 DEF Work
  <2>2. UNCHANGED <<api, sched, runner, wakes, reports, history>>
    BY <1>2 DEF Arrive
  <2> QED BY <1>2, <2>1, <2>2 DEF TypeOK, Work, History
<1>3. ASSUME Orphan, mode' = mode PROVE TypeOK'
  <2>1. work' \in Work
    BY <1>3, ModeTyped DEF Orphan, TypeOK, Work
  <2>2. UNCHANGED <<api, sched, runner, wakes, reports, history>>
    BY <1>3 DEF Orphan
  <2> QED BY <1>3, <2>1, <2>2 DEF TypeOK, Work, History
<1>4. ASSUME Preview, mode' = mode PROVE TypeOK'
  <2>1. api' \in Api
    BY <1>4 DEF Preview, TypeOK, Api
  <2>2. history' \in History
    BY <1>4, ModeTyped DEF Preview, TypeOK, History
  <2>3. UNCHANGED <<work, sched, runner, wakes, reports>>
    BY <1>4 DEF Preview
  <2> QED BY <1>4, <2>1, <2>2, <2>3 DEF TypeOK, Work, History
<1>5. ASSUME Stop, mode' = mode PROVE TypeOK'
  <2>1. api' \in Api
    BY <1>5 DEF Stop, TypeOK, Api
  <2>2. sched' \in Sched
    BY <1>5 DEF Stop, TypeOK, Sched
  <2>3. runner' \in Runner
    BY <1>5 DEF Stop, TypeOK, Runner, NoRunner, Gone
  <2>4. history' \in History
    BY <1>5, ModeTyped DEF Stop, TypeOK, History
  <2>5. UNCHANGED <<work, wakes, reports>>
    BY <1>5 DEF Stop
  <2> QED BY <1>5, <2>1, <2>2, <2>3, <2>4, <2>5 DEF TypeOK, Work, History
<1>6. ASSUME Kill, mode' = mode PROVE TypeOK'
  <2>1. api' \in Api
    BY <1>6 DEF Kill, TypeOK, Api
  <2>2. runner' \in Runner
    BY <1>6 DEF Kill, TypeOK, Runner, NoRunner, Gone
  <2>3. UNCHANGED <<work, sched, wakes, reports, history>>
    BY <1>6 DEF Kill
  <2> QED BY <1>6, <2>1, <2>2, <2>3 DEF TypeOK, Work, History
<1>7. ASSUME Closed, mode' = mode PROVE TypeOK'
  <2>1. api' \in Api
    BY <1>7 DEF Closed, TypeOK, Api, NoApi
  <2>2. reports' \in Reports
    BY <1>7 DEF Closed, TypeOK, Reports, NoReports
  <2>3. UNCHANGED <<work, sched, runner, wakes, history>>
    BY <1>7 DEF Closed
  <2> QED BY <1>7, <2>1, <2>2, <2>3 DEF TypeOK, Work, History
<1>8. ASSUME Die, mode' = mode PROVE TypeOK'
  <2>1. api' \in Api
    BY <1>8 DEF Die, TypeOK, Api, NoApi
  <2>2. sched' \in Sched
    BY <1>8 DEF Die, TypeOK, Sched
  <2>3. runner' \in Runner
    BY <1>8 DEF Die, TypeOK, Runner, NoRunner
  <2>4. wakes' \in 0..MaxWakes
    BY <1>8, ModeTyped DEF Die, TypeOK
  <2>5. reports' \in Reports
    BY <1>8 DEF Die, TypeOK, Reports, NoReports
  <2>6. history' \in History
    BY <1>8, ModeTyped DEF Die, TypeOK, History
  <2>7. UNCHANGED <<work>>
    BY <1>8 DEF Die
  <2> QED BY <1>8, <2>1, <2>2, <2>3, <2>4, <2>5, <2>6, <2>7 DEF TypeOK, Work, History
<1>9. ASSUME Restart, mode' = mode PROVE TypeOK'
  <2>1. api' \in Api
    BY <1>9 DEF Restart, TypeOK, Api, NoApi
  <2>2. sched' \in Sched
    BY <1>9 DEF Restart, TypeOK, Sched
  <2>3. UNCHANGED <<work, runner, wakes, reports, history>>
    BY <1>9 DEF Restart
  <2> QED BY <1>9, <2>1, <2>2, <2>3 DEF TypeOK, Work, History
<1>10. ASSUME Hook, mode' = mode PROVE TypeOK'
  <2> DEFINE a == [api EXCEPT !.hook = FALSE, !.hookWaits = TRUE,
                              !.late = api.late \/ api.up # "up"]
  <2>1. a \in Api /\ Wake(a)
    BY <1>10 DEF Hook, TypeOK, Api
  <2>2. /\ api' \in Api /\ runner' \in Runner /\ wakes' \in 0..MaxWakes
        /\ history' \in History
    <3> HIDE DEF a
    <3> QED BY <2>1, WakeTyped
  <2>3. sched' \in Sched /\ UNCHANGED <<work, reports>>
    BY <1>10 DEF Hook, TypeOK, Sched, Planned, Stopped
  <2> QED BY <1>10, <2>2, <2>3 DEF TypeOK, Work, History
<1>11. ASSUME NextWakeAt, mode' = mode PROVE TypeOK'
  <2>1. sched' \in Sched
    BY <1>11 DEF NextWakeAt, TypeOK, Sched
  <2>2. UNCHANGED <<work, api, runner, wakes, reports, history>>
    BY <1>11 DEF NextWakeAt
  <2> QED BY <1>11, <2>1, <2>2 DEF TypeOK, Work, History
<1>12. ASSUME PlanNow, mode' = mode PROVE TypeOK'
  <2> DEFINE a == [api EXCEPT !.planWaits = TRUE]
  <2>1. a \in Api /\ Wake(a)
    BY <1>12 DEF PlanNow, TypeOK, Api
  <2>2. /\ api' \in Api /\ runner' \in Runner /\ wakes' \in 0..MaxWakes
        /\ history' \in History
    <3> HIDE DEF a
    <3> QED BY <2>1, WakeTyped
  <2>3. sched' \in Sched /\ UNCHANGED <<work, reports>>
    BY <1>12 DEF PlanNow, TypeOK, Sched, Armed, Stopped
  <2> QED BY <1>12, <2>2, <2>3 DEF TypeOK, Work, History
<1>13. ASSUME PlanLater, mode' = mode PROVE TypeOK'
  <2>1. sched' \in Sched
    BY <1>13 DEF PlanLater, TypeOK, Sched, Armed, Stopped
  <2>2. UNCHANGED <<work, api, runner, wakes, reports, history>>
    BY <1>13 DEF PlanLater
  <2> QED BY <1>13, <2>1, <2>2 DEF TypeOK, Work, History
<1>14. ASSUME TimerFires, mode' = mode PROVE TypeOK'
  <2>1. sched' \in Sched
    BY <1>14 DEF TimerFires, TypeOK, Sched
  <2>2. UNCHANGED <<work, api, runner, wakes, reports, history>>
    BY <1>14 DEF TimerFires
  <2> QED BY <1>14, <2>1, <2>2 DEF TypeOK, Work, History
<1>15. ASSUME RestartFires, mode' = mode PROVE TypeOK'
  <2> DEFINE a == api
  <2>1. a \in Api /\ Wake(a)
    BY <1>15 DEF RestartFires, TypeOK, Api
  <2>2. /\ api' \in Api /\ runner' \in Runner /\ wakes' \in 0..MaxWakes
        /\ history' \in History
    <3> HIDE DEF a
    <3> QED BY <2>1, WakeTyped
  <2>3. sched' \in Sched /\ UNCHANGED <<work, reports>>
    BY <1>15 DEF RestartFires, TypeOK, Sched
  <2> QED BY <1>15, <2>2, <2>3 DEF TypeOK, Work, History
<1>16. ASSUME ReportReady, mode' = mode PROVE TypeOK'
  <2>1. api' \in Api
    BY <1>16 DEF ReportReady, TypeOK, Api, Settled
  <2>2. sched' \in Sched
    BY <1>16 DEF ReportReady, TypeOK, Sched, Stopped
  <2>3. reports' \in Reports
    BY <1>16 DEF ReportReady, TypeOK, Reports
  <2>4. UNCHANGED <<work, runner, wakes, history>>
    BY <1>16 DEF ReportReady
  <2> QED BY <1>16, <2>1, <2>2, <2>3, <2>4 DEF TypeOK, Work, History
<1>17. ASSUME ReportSleeping, mode' = mode PROVE TypeOK'
  <2>1. sched' \in Sched
    BY <1>17 DEF ReportSleeping, TypeOK, Sched, Planned, Stopped
  <2>2. reports' \in Reports
    BY <1>17 DEF ReportSleeping, TypeOK, Reports
  <2>3. UNCHANGED <<work, api, runner, wakes, history>>
    BY <1>17 DEF ReportSleeping
  <2> QED BY <1>17, <2>1, <2>2, <2>3 DEF TypeOK, Work, History
<1>18. ASSUME Disconnect, mode' = mode PROVE TypeOK'
  <2>1. api' \in Api
    BY <1>18 DEF Disconnect, TypeOK, Api
  <2>2. UNCHANGED <<work, sched, runner, wakes, reports, history>>
    BY <1>18 DEF Disconnect
  <2> QED BY <1>18, <2>1, <2>2 DEF TypeOK, Work, History
<1>19. ASSUME ExitEvent, mode' = mode PROVE TypeOK'
  <2>1. api' \in Api
    <3>1. api \in Api
      BY DEF TypeOK
    <3>2. Refused(api) \in Api
      BY <3>1 DEF Refused, Settled, Api
    <3>3. PICK again \in BOOLEAN, up \in {"up", "stopping", "closing", "down"} :
            api' = [Refused(api) EXCEPT !.child = FALSE, !.open = FALSE,
                                        !.restart = again, !.up = up]
      <4>1. api.restart \in BOOLEAN /\ api.up \in {"up", "stopping", "closing", "down"}
        BY <3>1 DEF Api
      <4> QED BY <1>19, <4>1 DEF ExitEvent
    <3> QED BY <3>2, <3>3 DEF Api
  <2>2. sched' \in Sched
    BY <1>19 DEF ExitEvent, TypeOK, Sched, Planned, Stopped
  <2>3. runner' \in Runner
    BY <1>19 DEF ExitEvent, TypeOK, Runner, NoRunner
  <2>4. wakes' \in 0..MaxWakes
    BY <1>19, ModeTyped DEF ExitEvent, TypeOK
  <2>5. reports' \in Reports
    BY <1>19 DEF ExitEvent, TypeOK, Reports
  <2>6. UNCHANGED <<work, history>>
    BY <1>19 DEF ExitEvent
  <2> QED BY <1>19, <2>1, <2>2, <2>3, <2>4, <2>5, <2>6 DEF TypeOK, Work, History
<1>20. ASSUME Fetch, mode' = mode PROVE TypeOK'
  <2>1. api' \in Api
    BY <1>20 DEF Fetch, TypeOK, Api
  <2>2. runner' \in Runner
    BY <1>20 DEF Fetch, TypeOK, Runner, Gone
  <2>3. UNCHANGED <<work, sched, wakes, reports, history>>
    BY <1>20 DEF Fetch
  <2> QED BY <1>20, <2>1, <2>2, <2>3 DEF TypeOK, Work, History
<1>21. ASSUME PlanFails, mode' = mode PROVE TypeOK'
  <2>1. sched' \in Sched
    BY <1>21 DEF PlanFails, TypeOK, Sched
  <2>2. history' \in History
    BY <1>21, ModeTyped DEF PlanFails, TypeOK, History
  <2>3. UNCHANGED <<work, api, runner, wakes, reports>>
    BY <1>21 DEF PlanFails
  <2> QED BY <1>21, <2>1, <2>2, <2>3 DEF TypeOK, Work, History
<1>22. ASSUME StartTimesOut, mode' = mode PROVE TypeOK'
  <2>1. api' \in Api
    BY <1>22 DEF StartTimesOut, TypeOK, Api, Refused, Settled
  <2>2. history' \in History
    BY <1>22, ModeTyped DEF StartTimesOut, TypeOK, History
  <2>3. UNCHANGED <<work, sched, runner, wakes, reports>>
    BY <1>22 DEF StartTimesOut
  <2> QED BY <1>22, <2>1, <2>2, <2>3 DEF TypeOK, Work, History
<1>23. ASSUME Boot, mode' = mode PROVE TypeOK'
  <2>1. runner' \in Runner
    BY <1>23 DEF Boot, TypeOK, Runner
  <2>2. reports' \in Reports
    BY <1>23 DEF Boot, TypeOK, Reports
  <2>3. UNCHANGED <<work, api, sched, wakes, history>>
    BY <1>23 DEF Boot
  <2> QED BY <1>23, <2>1, <2>2, <2>3 DEF TypeOK, Work, History
<1>24. ASSUME ReceiveWake, mode' = mode PROVE TypeOK'
  <2>1. runner' \in Runner
    BY <1>24 DEF ReceiveWake, TypeOK, Runner, Requested, Gone
  <2>2. wakes' \in 0..MaxWakes
    BY <1>24, ModeTyped DEF ReceiveWake, TypeOK
  <2>3. UNCHANGED <<work, api, sched, reports, history>>
    BY <1>24 DEF ReceiveWake
  <2> QED BY <1>24, <2>1, <2>2, <2>3 DEF TypeOK, Work, History
<1>25. ASSUME Ask, mode' = mode PROVE TypeOK'
  <2>1. runner' \in Runner
    BY <1>25 DEF Ask, TypeOK, Runner
  <2>2. UNCHANGED <<work, api, sched, wakes, reports, history>>
    BY <1>25 DEF Ask
  <2> QED BY <1>25, <2>1, <2>2 DEF TypeOK, Work, History
<1>26. ASSUME DispatchHandlers, mode' = mode PROVE TypeOK'
  <2>1. runner' \in Runner
    BY <1>26 DEF DispatchHandlers, TypeOK, Runner, Finished
  <2>2. UNCHANGED <<work, api, sched, wakes, reports, history>>
    BY <1>26 DEF DispatchHandlers
  <2> QED BY <1>26, <2>1, <2>2 DEF TypeOK, Work, History
<1>27. ASSUME StayAwake, mode' = mode PROVE TypeOK'
  <2>1. runner' \in Runner
    BY <1>27 DEF StayAwake, TypeOK, Runner, Finished, IdleAfter
  <2>2. UNCHANGED <<work, api, sched, wakes, reports, history>>
    BY <1>27 DEF StayAwake
  <2> QED BY <1>27, <2>1, <2>2 DEF TypeOK, Work, History
<1>28. ASSUME GoToSleep, mode' = mode PROVE TypeOK'
  <2>1. runner' \in Runner
    BY <1>28 DEF GoToSleep, TypeOK, Runner
  <2>2. reports' \in Reports
    BY <1>28 DEF GoToSleep, TypeOK, Reports
  <2>3. UNCHANGED <<work, api, sched, wakes, history>>
    BY <1>28 DEF GoToSleep
  <2> QED BY <1>28, <2>1, <2>2, <2>3 DEF TypeOK, Work, History
<1>29. ASSUME IdleElapses, mode' = mode PROVE TypeOK'
  <2>1. runner' \in Runner
    BY <1>29 DEF IdleElapses, TypeOK, Runner
  <2>2. UNCHANGED <<work, api, sched, wakes, reports, history>>
    BY <1>29 DEF IdleElapses
  <2> QED BY <1>29, <2>1, <2>2 DEF TypeOK, Work, History
<1>30. ASSUME Tick, mode' = mode PROVE TypeOK'
  <2>1. runner' \in Runner
    BY <1>30 DEF Tick, TypeOK, Runner, Requested
  <2>2. UNCHANGED <<work, api, sched, wakes, reports, history>>
    BY <1>30 DEF Tick
  <2> QED BY <1>30, <2>1, <2>2 DEF TypeOK, Work, History
<1>31. ASSUME HandlerEnds, mode' = mode PROVE TypeOK'
  <2>1. work' \in Work
    <3>1. work \in Work /\ work.due \in 0..mode.due
      BY DEF TypeOK, Work
    <3>2. work.due > 0 => work.due - 1 \in 0..mode.due
      BY <3>1, ModeTyped
    <3>3. \/ work' = work
          \/ work.due > 0 /\ work' = [work EXCEPT !.due = work.due - 1]
          \/ work.due > 0 /\ work' = [work EXCEPT !.due = work.due - 1, !.planned =
               TRUE]
      BY <1>31 DEF HandlerEnds, FindsJob
    <3> QED BY <1>31, <3>1, <3>2, <3>3 DEF Work
  <2>2. runner' \in Runner
    BY <1>31 DEF HandlerEnds, TypeOK, Runner, Requested
  <2>3. history' \in History
    BY <1>31, ModeTyped DEF HandlerEnds, TypeOK, History
  <2>4. UNCHANGED <<api, sched, wakes, reports>>
    BY <1>31 DEF HandlerEnds
  <2> QED BY <1>31, <2>1, <2>2, <2>3, <2>4 DEF TypeOK, Work, History
<1>32. ASSUME PreviewEnds, mode' = mode PROVE TypeOK'
  <2>1. runner' \in Runner
    BY <1>32 DEF PreviewEnds, TypeOK, Runner, Requested
  <2>2. UNCHANGED <<work, api, sched, wakes, reports, history>>
    BY <1>32 DEF PreviewEnds
  <2> QED BY <1>32, <2>1, <2>2 DEF TypeOK, Work, History
<1>33. ASSUME BrowserCloses, mode' = mode PROVE TypeOK'
  <2>1. runner' \in Runner
    BY <1>33 DEF BrowserCloses, TypeOK, Runner
  <2>2. UNCHANGED <<work, api, sched, wakes, reports, history>>
    BY <1>33 DEF BrowserCloses
  <2> QED BY <1>33, <2>1, <2>2 DEF TypeOK, Work, History
<1>34. ASSUME Exit, mode' = mode PROVE TypeOK'
  <2>1. runner' \in Runner
    BY <1>34 DEF Exit, TypeOK, Runner, NoRunner
  <2>2. UNCHANGED <<work, api, sched, wakes, reports, history>>
    BY <1>34 DEF Exit
  <2> QED BY <1>34, <2>1, <2>2 DEF TypeOK, Work, History
<1>35. ASSUME AskFails, mode' = mode PROVE TypeOK'
  <2>1. runner' \in Runner
    BY <1>35 DEF AskFails, TypeOK, Runner, Finished
  <2>2. history' \in History
    BY <1>35, ModeTyped DEF AskFails, TypeOK, History
  <2>3. UNCHANGED <<work, api, sched, wakes, reports>>
    BY <1>35 DEF AskFails
  <2> QED BY <1>35, <2>1, <2>2, <2>3 DEF TypeOK, Work, History
<1>36. ASSUME Crash, mode' = mode PROVE TypeOK'
  <2>1. runner' \in Runner
    BY <1>36 DEF Crash, TypeOK, Runner, NoRunner, Gone
  <2>2. history' \in History
    BY <1>36, ModeTyped DEF Crash, TypeOK, History
  <2>3. UNCHANGED <<work, api, sched, wakes, reports>>
    BY <1>36 DEF Crash
  <2> QED BY <1>36, <2>1, <2>2, <2>3 DEF TypeOK, Work, History
<1>37. CASE UNCHANGED vars
  BY <1>37 DEF vars, TypeOK, Work, History
<1> QED
  BY <1>1, <1>2, <1>3, <1>4, <1>5, <1>6, <1>7, <1>8, <1>9, <1>10, <1>11, <1>12,
       <1>13, <1>14, <1>15, <1>16, <1>17, <1>18, <1>19, <1>20, <1>21, <1>22, <1>23,
       <1>24, <1>25, <1>26, <1>27, <1>28, <1>29, <1>30, <1>31, <1>32, <1>33, <1>34,
       <1>35, <1>36, <1>37
  DEF Next, ApiStep, RunnerStep

\* The state always has its declared shape, within the bounds of its mode.
THEOREM LifecycleTyped == Spec => []TypeOK
<1>1. Init => TypeOK
  BY InitTyped
<1>2. TypeOK /\ [Next]_vars => TypeOK'
  BY StepTyped
<1> QED BY <1>1, <1>2, PTL DEF Spec

-----------------------------------------------------------------------------
(* One engine *)

LEMMA InitInv == Init => EngineInv
<1> SUFFICES ASSUME Init PROVE EngineInv
  OBVIOUS
<1>1. TypeOK
  BY InitTyped
<1>2. runner.pc = "none" /\ Gone /\ api.up = "up"
  BY DEF Init, Gone, NoRunner, NoApi
<1> QED BY <1>1, <1>2 DEF EngineInv, Supervised, KnownEngine, DownIsSilent,
     StoppedForGood, StopsUnlessAsked

\* Wake leaves one engine that the controller knows, which is new only if there
\* was none.
LEMMA WakeEffect ==
  ASSUME api \in Api, runner \in Runner, KnownEngine, NEW a \in Api, Wake(a),
         a.child = api.child, a.open = api.open
  PROVE  /\ KnownEngine'
         /\ api'.up = a.up /\ api'.hook = a.hook /\ api'.late = a.late
         /\ ~api'.restart
         /\ history' # history => Gone
<1>1. CASE Connected
  <2>1. /\ api'.up = a.up /\ api'.hook = a.hook /\ api'.late = a.late /\ ~api'.restart
        /\ api'.child = a.child /\ api'.open = a.open
    BY <1>1 DEF Wake, Api
  <2>2. UNCHANGED <<runner, history>>
    BY <1>1 DEF Wake
  <2> QED BY <1>1, <2>1, <2>2 DEF KnownEngine, Gone, Connected
<1>2. CASE ~Connected /\ api.starting
  <2>1. /\ api'.up = a.up /\ api'.hook = a.hook /\ api'.late = a.late /\ ~api'.restart
        /\ api'.child = a.child /\ api'.open = a.open
    BY <1>2 DEF Wake, Api
  <2>2. UNCHANGED <<runner, history>>
    BY <1>2 DEF Wake
  <2> QED BY <2>1, <2>2 DEF KnownEngine, Gone
<1>3. CASE ~Connected /\ ~api.starting
  <2>1. /\ api'.up = a.up /\ api'.hook = a.hook /\ api'.late = a.late /\ ~api'.restart
        /\ api'.child /\ api'.open
    BY <1>3 DEF Wake, Api
  <2> QED BY <1>3, <2>1 DEF KnownEngine, Connected, Gone
<1> QED BY <1>1, <1>2, <1>3

LEMMA StepInv == EngineInv /\ [Next]_vars => EngineInv'
<1> SUFFICES ASSUME EngineInv, [Next]_vars PROVE EngineInv'
  OBVIOUS
<1> USE DEF Supervised, KnownEngine, DownIsSilent, StoppedForGood, StopsUnlessAsked, Gone
<1>a. TypeOK'
  BY StepTyped DEF EngineInv
<1>b. Supervised /\ api \in Api /\ sched \in Sched /\ runner \in Runner
  BY DEF EngineInv, TypeOK
<1>1. ASSUME QueueWork PROVE Supervised'
  BY <1>1, <1>b DEF QueueWork, Api
<1>2. ASSUME Arrive PROVE Supervised'
  BY <1>2, <1>b DEF Arrive
<1>3. ASSUME Orphan PROVE Supervised'
  BY <1>3, <1>b DEF Orphan
<1>4. ASSUME Preview PROVE Supervised'
  BY <1>4, <1>b DEF Preview, Api
<1>5. ASSUME Stop PROVE Supervised'
  BY <1>5, <1>b DEF Stop, Api, Sched, Runner, NoRunner
<1>6. ASSUME Kill PROVE Supervised'
  BY <1>6, <1>b DEF Kill, Api, Runner, NoRunner
<1>7. ASSUME Closed PROVE Supervised'
  BY <1>7, <1>b DEF Closed, Api, NoApi
<1>8. ASSUME Die PROVE Supervised'
  BY <1>8, <1>b DEF Die, Api, Sched, Runner, NoRunner, NoApi
<1>9. ASSUME Restart PROVE Supervised'
  BY <1>9, <1>b DEF Restart, Api, Sched, NoApi
<1>10. ASSUME Hook PROVE Supervised'
  <2> DEFINE a == [api EXCEPT !.hook = FALSE, !.hookWaits = TRUE,
                              !.late = api.late \/ api.up # "up"]
  <2>1. /\ a \in Api /\ Wake(a)
        /\ a.child = api.child /\ a.open = api.open /\ a.up = api.up
        /\ a.hook = FALSE /\ a.late = (api.late \/ api.up # "up")
    BY <1>10, <1>b DEF Hook, Api
  <2>2. /\ KnownEngine'
        /\ api'.up = api.up /\ api'.hook = FALSE /\ api'.late = (api.late \/ api.up # "up")
        /\ ~api'.restart
    <3> HIDE DEF a
    <3> QED BY <1>b, <2>1, WakeEffect
  <2>3. api.up # "up" => sched' = sched /\ api'.late
    BY <1>10, <1>b, <2>2 DEF Hook, Planned, Stopped, Api
  <2>4. api.up # "down"
    BY <1>10, <1>b DEF Hook, Api
  <2> QED BY <1>b, <2>2, <2>3, <2>4
<1>11. ASSUME NextWakeAt PROVE Supervised'
  BY <1>11, <1>b DEF NextWakeAt, Sched
<1>12. ASSUME PlanNow PROVE Supervised'
  <2> DEFINE a == [api EXCEPT !.planWaits = TRUE]
  <2>1. /\ a \in Api /\ Wake(a)
        /\ a.child = api.child /\ a.open = api.open /\ a.up = api.up
        /\ a.hook = api.hook /\ a.late = api.late
    BY <1>12, <1>b DEF PlanNow, Api
  <2>2. /\ KnownEngine'
        /\ api'.up = api.up /\ api'.hook = api.hook /\ api'.late = api.late
        /\ ~api'.restart
    <3> HIDE DEF a
    <3> QED BY <1>b, <2>1, WakeEffect
  <2>3. api.up # "up" => sched' = sched /\ api'.late
    BY <1>12, <1>b, <2>2 DEF PlanNow, Armed, Stopped, Api
  <2>4. api.up # "down"
    BY <1>12, <1>b DEF PlanNow, Api
  <2> QED BY <1>b, <2>2, <2>3, <2>4
<1>13. ASSUME PlanLater PROVE Supervised'
  BY <1>13, <1>b DEF PlanLater, Sched, Armed, Stopped
<1>14. ASSUME TimerFires PROVE Supervised'
  BY <1>14, <1>b DEF TimerFires, Sched
<1>15. ASSUME RestartFires PROVE Supervised'
  <2> DEFINE a == api
  <2>1. /\ a \in Api /\ Wake(a)
        /\ a.child = api.child /\ a.open = api.open /\ a.up = api.up
        /\ a.hook = api.hook /\ a.late = api.late
    BY <1>15, <1>b DEF RestartFires, Api
  <2>2. /\ KnownEngine'
        /\ api'.up = api.up /\ api'.hook = api.hook /\ api'.late = api.late
        /\ ~api'.restart
    <3> HIDE DEF a
    <3> QED BY <1>b, <2>1, WakeEffect
  <2>3. api.up # "up" => sched' = sched /\ api'.late
    BY <1>15, <1>b, <2>2 DEF RestartFires, Api
  <2>4. api.up # "down"
    BY <1>15, <1>b DEF RestartFires, Api
  <2> QED BY <1>b, <2>2, <2>3, <2>4
<1>16. ASSUME ReportReady PROVE Supervised'
  BY <1>16, <1>b DEF ReportReady, Api, Sched, Settled, Stopped
<1>17. ASSUME ReportSleeping PROVE Supervised'
  BY <1>17, <1>b DEF ReportSleeping, Sched, Planned, Stopped
<1>18. ASSUME Disconnect PROVE Supervised'
  BY <1>18, <1>b DEF Disconnect, Api
<1>19. ASSUME ExitEvent PROVE Supervised'
  <2>1. /\ runner' = NoRunner
        /\ \/ api.up = "up" /\ api'.up = "up"
           \/ api.up = "stopping" /\ api'.up = "closing"
           \/ api.up \in {"closing", "down"} /\ api'.up = api.up
        /\ api'.stopping = api.stopping /\ api'.late = api.late /\ api'.hook = api.hook
        /\ ~api'.child
    BY <1>19, <1>b DEF ExitEvent, Refused, Settled, Api
  <2>2. api.up # "up" => sched' = sched
    BY <1>19, <1>b DEF ExitEvent, Planned, Stopped
  <2>3. api.up # "down"
    BY <1>19, <1>b DEF ExitEvent, Runner
  <2> QED BY <1>b, <2>1, <2>2, <2>3 DEF NoRunner
<1>20. ASSUME Fetch PROVE Supervised'
  BY <1>20, <1>b DEF Fetch, Api, Runner
<1>21. ASSUME PlanFails PROVE Supervised'
  BY <1>21, <1>b DEF PlanFails, Sched
<1>22. ASSUME StartTimesOut PROVE Supervised'
  BY <1>22, <1>b DEF StartTimesOut, Api, Refused, Settled
<1>23. ASSUME Boot PROVE Supervised'
  BY <1>23, <1>b DEF Boot, Runner
<1>24. ASSUME ReceiveWake PROVE Supervised'
  BY <1>24, <1>b DEF ReceiveWake, Runner, Requested
<1>25. ASSUME Ask PROVE Supervised'
  BY <1>25, <1>b DEF Ask, Runner
<1>26. ASSUME DispatchHandlers PROVE Supervised'
  BY <1>26, <1>b DEF DispatchHandlers, Runner, Finished
<1>27. ASSUME StayAwake PROVE Supervised'
  BY <1>27, <1>b DEF StayAwake, Runner, Finished, IdleAfter
<1>28. ASSUME GoToSleep PROVE Supervised'
  BY <1>28, <1>b DEF GoToSleep, Runner
<1>29. ASSUME IdleElapses PROVE Supervised'
  BY <1>29, <1>b DEF IdleElapses, Runner
<1>30. ASSUME Tick PROVE Supervised'
  BY <1>30, <1>b DEF Tick, Runner, Requested
<1>31. ASSUME HandlerEnds PROVE Supervised'
  BY <1>31, <1>b DEF HandlerEnds, Runner, Requested, FindsJob
<1>32. ASSUME PreviewEnds PROVE Supervised'
  BY <1>32, <1>b DEF PreviewEnds, Runner, Requested
<1>33. ASSUME BrowserCloses PROVE Supervised'
  BY <1>33, <1>b DEF BrowserCloses, Runner
<1>34. ASSUME Exit PROVE Supervised'
  BY <1>34, <1>b DEF Exit, Runner, NoRunner
<1>35. ASSUME AskFails PROVE Supervised'
  BY <1>35, <1>b DEF AskFails, Runner, Finished
<1>36. ASSUME Crash PROVE Supervised'
  BY <1>36, <1>b DEF Crash, Runner, NoRunner
<1>37. ASSUME UNCHANGED vars PROVE Supervised'
  BY <1>37, <1>b DEF vars
<1> QED
  BY <1>a, <1>1, <1>2, <1>3, <1>4, <1>5, <1>6, <1>7, <1>8, <1>9, <1>10, <1>11,
       <1>12, <1>13, <1>14, <1>15, <1>16, <1>17, <1>18, <1>19, <1>20, <1>21, <1>22,
       <1>23, <1>24, <1>25, <1>26, <1>27, <1>28, <1>29, <1>30, <1>31, <1>32, <1>33,
       <1>34, <1>35, <1>36, <1>37
  DEF EngineInv, Next, ApiStep, RunnerStep

\* An engine is started only by Wake, which then found none that it could reach.
LEMMA StartsNeedNone == EngineInv /\ [Next]_vars =>
  (history'.starts # history.starts => Gone /\ (api.up = "up" \/ api'.late))
<1> SUFFICES ASSUME EngineInv, [Next]_vars, history'.starts # history.starts
             PROVE  Gone /\ (api.up = "up" \/ api'.late)
  OBVIOUS
<1>a. /\ Supervised /\ api \in Api /\ runner \in Runner /\ history \in History
  BY DEF EngineInv, TypeOK
<1>b. history' # history
  OBVIOUS
<1>1. CASE Hook
  <2> DEFINE a == [api EXCEPT !.hook = FALSE, !.hookWaits = TRUE,
                              !.late = api.late \/ api.up # "up"]
  <2>1. /\ a \in Api /\ Wake(a)
        /\ a.child = api.child /\ a.open = api.open /\ a.late = (api.late \/ api.up # "up")
    BY <1>1, <1>a DEF Hook, Api
  <2> HIDE DEF a
  <2> QED BY <1>a, <1>b, <2>1, WakeEffect DEF Supervised
<1>2. CASE PlanNow
  <2> DEFINE a == [api EXCEPT !.planWaits = TRUE]
  <2>1. a \in Api /\ Wake(a) /\ a.child = api.child /\ a.open = api.open
    BY <1>2, <1>a DEF PlanNow, Api
  <2>2. api.up = "up"
    BY <1>2, <1>a DEF PlanNow, Supervised, StoppedForGood
  <2> HIDE DEF a
  <2> QED BY <1>a, <1>b, <2>1, <2>2, WakeEffect DEF Supervised
<1>3. CASE RestartFires
  <2>1. Wake(api)
    BY <1>3 DEF RestartFires
  <2>2. api.up = "up" \/ api.late
    BY <1>3, <1>a DEF RestartFires, Supervised, DownIsSilent, StopsUnlessAsked, Api
  <2> QED BY <1>a, <1>b, <2>1, <2>2, WakeEffect DEF Supervised
<1>4. CASE ~(Hook \/ PlanNow \/ RestartFires)
  <2>1. CASE QueueWork \/ Preview \/ Stop \/ Die \/ PlanFails
            \/ StartTimesOut \/ HandlerEnds \/ AskFails \/ Crash
    BY <1>a, <2>1 DEF QueueWork, Preview, Stop, Die, PlanFails, StartTimesOut,
         HandlerEnds, AskFails, Crash, History
  <2>2. CASE Arrive \/ Orphan \/ Kill \/ Closed \/ Restart \/ NextWakeAt
       \/ PlanLater \/ TimerFires \/ ReportReady \/ ReportSleeping \/ Disconnect
       \/ ExitEvent
    BY <1>b, <2>2 DEF Arrive, Orphan, Kill, Closed, Restart, NextWakeAt, PlanLater,
         TimerFires, ReportReady, ReportSleeping, Disconnect, ExitEvent
  <2>3. CASE Fetch \/ Boot \/ ReceiveWake \/ Ask \/ DispatchHandlers \/ StayAwake
       \/ GoToSleep \/ IdleElapses \/ Tick \/ PreviewEnds \/ BrowserCloses \/ Exit
    BY <1>b, <2>3 DEF Fetch, Boot, ReceiveWake, Ask, DispatchHandlers, StayAwake,
         GoToSleep, IdleElapses, Tick, PreviewEnds, BrowserCloses, Exit
  <2>4. CASE UNCHANGED vars
    BY <1>b, <2>4 DEF vars
  <2> QED BY <1>4, <2>1, <2>2, <2>3, <2>4 DEF Next, ApiStep, RunnerStep
<1> QED BY <1>1, <1>2, <1>3, <1>4

\* The API never has two engines, and none is started after its stop except for a
\* request that was still being served.
THEOREM NeverTwoEngines == Spec => OneEngine
<1>1. Init => EngineInv
  BY InitInv
<1>2. EngineInv /\ [Next]_vars => EngineInv'
  BY StepInv
<1>3. EngineInv /\ [Next]_vars =>
        [history'.starts # history.starts => Gone /\ (api.up = "up" \/ api'.late)]_vars
  BY StartsNeedNone
<1> QED BY <1>1, <1>2, <1>3, PTL DEF Spec, OneEngine

-----------------------------------------------------------------------------
(***************************************************************************)
(* WebExecutor and the browser pool of its child, for any number of        *)
(* pages, searches, children and Chromium processes: no Chromium is left   *)
(* behind, none is recycled under a page, and no request is forgotten.     *)
(***************************************************************************)

(* Sets of natural numbers.                                                *)

\* A set of natural numbers has a least element: the library's theorem about
\* well-founded relations is about sets, which the provers can instantiate.
LEMMA LeastElement ==
  ASSUME NEW S \in SUBSET Nat, S # {}
  PROVE  \E m \in S : \A n \in S : m <= n
<1> DEFINE Less == OpToRel(<, Nat)
<1>1. IsWellFoundedOn(Less, Nat)
  BY NatLessThanWellFounded
<1>2. \A m, n \in Nat : n < m => <<n, m>> \in Less
  BY DEF OpToRel
<1> HIDE DEF Less
<1>3. PICK m \in S : \A n \in S : ~(<<n, m>> \in Less)
  BY <1>1, WFMin
<1>4. \A n \in S : ~(n < m)
  BY <1>2, <1>3
<1>5. \A n \in S : m <= n
  BY <1>4
<1> QED BY <1>5

\* One that holds 0 and the successor of whatever it holds is Nat.
LEMMA Induction ==
  ASSUME NEW S \in SUBSET Nat, 0 \in S, \A n \in S : n + 1 \in S
  PROVE  S = Nat
<1> SUFFICES ASSUME Nat \ S # {} PROVE FALSE
  OBVIOUS
<1>1. PICK m \in Nat \ S : \A n \in Nat \ S : m <= n
  BY LeastElement
<1>2. m - 1 \in Nat
  OBVIOUS
<1>3. m - 1 \in S
  BY <1>1, <1>2
<1> QED BY <1>3

-----------------------------------------------------------------------------
(* The pool.  Each invariant is about a pool, so that it can be followed   *)
(* through the operators that a step of the pool is composed of.           *)

\* A Chromium that runs is the browser of the pool, or the one being launched.
Known(p) ==
  /\ p.browser # 0 => p.chromium[p.browser].state \in {"open", "lost"}
  /\ \A b \in Browsers :
       /\ p.chromium[b].state \in {"open", "lost"} => p.browser = b
       /\ p.chromium[b].state = "launching" => p.launching = b

\* The pool launches one browser at a time, and only when it has none.
OneAtATime(p) == p.launching # 0 => p.browser = 0

\* A page is in a browser that nobody has recycled.
Undisturbed(p) ==
  \A t \in Tasks : p.phase[t] \in {"context", "page"} =>
    p.page[t] \in Browsers /\ p.chromium[p.page[t]].state # "recycled"

\* A task that awaits a launch awaits the one under way.
LaunchAwaited(p) == \A t \in Tasks : p.phase[t] = "launching" => p.launching # 0

\* A task that is queued is in the queue.
InQueue(p) == \A t \in Tasks : p.phase[t] = "queued" => \E i \in DOMAIN p.queue : p.queue[i] = t

Sound(p) ==
  /\ p \in Pool
  /\ Known(p) /\ OneAtATime(p) /\ Undisturbed(p) /\ LaunchAwaited(p) /\ InQueue(p)

\* Someone will drain the queue.
Served(p) == p.queue # <<>> => \E s \in Tasks : p.phase[s] \in Running \cup {"last"}

\* What starting tasks may change of a task: it starts.
Started(p, q) ==
  /\ q.result = p.result
  /\ \A t \in Tasks : q.phase[t] = p.phase[t] \/ q.phase[t] \in {"closing", "launching", "context"}

LEMMA NoBrowserIsZero == 0 \notin Browsers
BY PoolAssumption

-----------------------------------------------------------------------------
(* Closing and launching.                                                  *)

LEMMA CloseIsSound ==
  ASSUME NEW p, Sound(p), NEW why \in {"recycled", "dropped"},
         why = "recycled" => \A t \in Tasks : p.phase[t] \notin {"context", "page"}
  PROVE  /\ Sound(Close(p, why))
         /\ Close(p, why).phase = p.phase /\ Close(p, why).queue = p.queue
         /\ Close(p, why).result = p.result /\ Close(p, why).launching = p.launching
         /\ Close(p, why).browser = 0
<1> DEFINE q == Close(p, why)
<1>1. p \in Pool
  BY DEF Sound
<1>2. /\ q.phase = p.phase /\ q.queue = p.queue /\ q.page = p.page
      /\ q.result = p.result /\ q.launching = p.launching /\ q.browser = 0
      /\ q.chromium = [b \in Browsers |->
           IF b = p.browser THEN [p.chromium[b] EXCEPT !.state = why] ELSE p.chromium[b]]
  BY <1>1 DEF Close, Pool
<1>3. q \in Pool
  <2>1. p.chromium \in [Browsers -> Chromium]
    BY <1>1 DEF Pool
  <2>2. \A c \in Chromium : [c EXCEPT !.state = why] \in Chromium
    BY DEF Chromium
  <2>3. q.chromium \in [Browsers -> Chromium]
    BY <1>2, <2>1, <2>2
  <2>4. q = [p EXCEPT !.chromium = q.chromium, !.browser = 0, !.worn = FALSE,
                      !.recycle = FALSE, !.timer = FALSE]
    BY <1>2 DEF Close
  <2> HIDE DEF q
  <2> QED BY <1>1, <2>3, <2>4 DEF Pool
<1>4. \A b \in Browsers : q.chromium[b].state = IF b = p.browser THEN why ELSE p.chromium[b].state
  BY <1>1, <1>2 DEF Pool, Chromium
<1> HIDE DEF q
<1>5. Known(q)
  BY <1>2, <1>4 DEF Sound, Known
<1>6. OneAtATime(q) /\ LaunchAwaited(q) /\ InQueue(q)
  BY <1>2 DEF Sound, OneAtATime, LaunchAwaited, InQueue
<1>7. Undisturbed(q)
  BY <1>2, <1>4 DEF Sound, Undisturbed
<1> QED BY <1>2, <1>3, <1>5, <1>6, <1>7 DEF Sound, q

\* There is a name for the process to launch.
LEMMA SomeBrowserIsFree ==
  ASSUME NEW p, Sound(p), p.browser = 0, p.launching = 0
  PROVE  Free(p) # {}
<1>1. p.page \in [Tasks -> Browsers \cup {0}] /\ p.chromium \in [Browsers -> Chromium]
  BY DEF Sound, Pool
<1>2. PICK b \in Browsers : \A t \in Tasks : p.page[t] # b
  BY <1>1, BrowsersAssumption
<1>3. p.chromium[b].state \in {"none", "recycled", "dropped"}
  <2>1. p.chromium[b] \in Chromium
    BY <1>1
  <2>2. p.chromium[b].state \in {"none", "launching", "open", "lost", "recycled", "dropped"}
    BY <2>1 DEF Chromium
  <2> QED BY <2>2, NoBrowserIsZero DEF Sound, Known
<1> QED BY <1>2, <1>3 DEF Free

LEMMA LaunchIsSound ==
  ASSUME NEW p, Sound(p), p.browser = 0, p.launching = 0, proxy \in BOOLEAN, NEW t \in Tasks
  PROVE  /\ Sound(Launch(p, t))
         /\ Launch(p, t).phase = [p.phase EXCEPT ![t] = "launching"]
         /\ Launch(p, t).queue = p.queue /\ Launch(p, t).result = p.result
<1> DEFINE b == CHOOSE x \in Free(p) : TRUE
           q == Launch(p, t)
<1>1. p \in Pool
  BY DEF Sound
<1>2. /\ b \in Browsers /\ b # 0
      /\ \A u \in Tasks : p.page[u] # b
  BY SomeBrowserIsFree, NoBrowserIsZero DEF Free
<1> HIDE DEF b
<1>3. q = [p EXCEPT !.launching = b, !.chromium[b] = [state |-> "launching", proxy |-> proxy],
                    !.phase[t] = "launching"]
  BY DEF Launch, b
<1> HIDE DEF q
<1>4. /\ q.phase = [p.phase EXCEPT ![t] = "launching"] /\ q.queue = p.queue /\ q.page = p.page
      /\ q.result = p.result /\ q.launching = b /\ q.browser = 0
      /\ q.chromium = [p.chromium EXCEPT ![b] = [state |-> "launching", proxy |-> proxy]]
  BY <1>1, <1>3 DEF Pool
<1>5. q \in Pool
  <2>1. [state |-> "launching", proxy |-> proxy] \in Chromium
    BY DEF Chromium
  <2>2. /\ q.chromium \in [Browsers -> Chromium]
        /\ q.phase \in [Tasks -> Phases]
        /\ q.launching \in Browsers \cup {0}
    BY <1>1, <1>2, <1>4, <2>1 DEF Pool, Phases, Running
  <2> QED BY <1>1, <1>2, <1>3, <2>2, <1>4 DEF Pool
<1>6. \A x \in Browsers : q.chromium[x].state = IF x = b THEN "launching" ELSE p.chromium[x].state
  BY <1>1, <1>4 DEF Pool
<1>7. \A u \in Tasks : q.phase[u] = IF u = t THEN "launching" ELSE p.phase[u]
  BY <1>1, <1>4 DEF Pool
<1>8. Known(q)
  <2>1. \A x \in Browsers : p.chromium[x].state \notin {"open", "lost", "launching"}
    BY NoBrowserIsZero DEF Sound, Known
  <2> QED BY <1>4, <1>6, <2>1 DEF Known
<1>9. OneAtATime(q) /\ LaunchAwaited(q)
  BY <1>2, <1>4 DEF OneAtATime, LaunchAwaited
<1>10. Undisturbed(q)
  BY <1>4, <1>6, <1>7 DEF Sound, Undisturbed
<1>11. InQueue(q)
  BY <1>4, <1>7 DEF Sound, InQueue
<1> QED BY <1>4, <1>5, <1>8, <1>9, <1>10, <1>11 DEF Sound, q

\* Assigning what a task awaits, and the page that goes with it.
LEMMA AssignIsSound ==
  ASSUME NEW p, Sound(p), NEW t \in Tasks, NEW phase \in Phases \ {"queued"},
         NEW b \in Browsers \cup {0},
         phase = "launching" => p.launching # 0,
         phase \in {"context", "page"} => b # 0 /\ p.chromium[b].state # "recycled"
  PROVE  Sound([p EXCEPT !.phase[t] = phase, !.page[t] = b])
<1> DEFINE q == [p EXCEPT !.phase[t] = phase, !.page[t] = b]
<1>1. p \in Pool
  BY DEF Sound
<1>2. /\ q.queue = p.queue /\ q.result = p.result /\ q.launching = p.launching
      /\ q.browser = p.browser /\ q.chromium = p.chromium
      /\ \A u \in Tasks : /\ q.phase[u] = IF u = t THEN phase ELSE p.phase[u]
                          /\ q.page[u] = IF u = t THEN b ELSE p.page[u]
  BY <1>1 DEF Pool
<1>3. q \in Pool
  BY <1>1 DEF Pool
<1> HIDE DEF q
<1>4. Known(q) /\ OneAtATime(q) /\ LaunchAwaited(q)
  BY <1>2 DEF Sound, Known, OneAtATime, LaunchAwaited
<1>5. Undisturbed(q)
  BY <1>2 DEF Sound, Undisturbed
<1>6. InQueue(q)
  BY <1>2 DEF Sound, InQueue
<1> QED BY <1>3, <1>4, <1>5, <1>6 DEF Sound, q

LEMMA PhaseIsSound ==
  ASSUME NEW p, Sound(p), NEW t \in Tasks, NEW phase \in Phases \ {"queued"},
         phase = "launching" => p.launching # 0,
         phase \in {"context", "page"} => p.phase[t] \in {"context", "page"}
  PROVE  /\ Sound([p EXCEPT !.phase[t] = phase])
         /\ [p EXCEPT !.phase[t] = phase].phase = [p.phase EXCEPT ![t] = phase]
<1>1. p \in Pool
  BY DEF Sound
<1>2. p.page[t] \in Browsers \cup {0}
  BY <1>1 DEF Pool
<1>3. [p EXCEPT !.phase[t] = phase] = [p EXCEPT !.phase[t] = phase, !.page[t] = p.page[t]]
  BY <1>1 DEF Pool
<1>4. phase \in {"context", "page"} => p.page[t] # 0 /\ p.chromium[p.page[t]].state # "recycled"
  BY NoBrowserIsZero DEF Sound, Undisturbed
<1>5. Sound([p EXCEPT !.phase[t] = phase, !.page[t] = p.page[t]])
  BY <1>2, <1>4, AssignIsSound
<1>6. [p EXCEPT !.phase[t] = phase].phase = [p.phase EXCEPT ![t] = phase]
  BY <1>1 DEF Pool
<1> QED BY <1>3, <1>5, <1>6


\* What GetBrowser and EnsureBrowser do for a task of the pool.
StartsTask(p, q, t) ==
  /\ Sound(q)
  /\ q.queue = p.queue /\ q.result = p.result
  /\ q.phase[t] \in {"closing", "launching", "context"}
  /\ \A u \in Tasks \ {t} : q.phase[u] = p.phase[u]

LEMMA GetBrowserStarts ==
  ASSUME NEW p, Sound(p), proxy \in BOOLEAN, NEW t \in Tasks
  PROVE  StartsTask(p, GetBrowser(p, t), t) /\ GetBrowser(p, t).phase[t] # "closing"
<1>1. p \in Pool
  BY DEF Sound
<1>2. CASE p.browser # 0
  <2> DEFINE q == [p EXCEPT !.phase[t] = "context", !.page[t] = p.browser]
  <2>1. p.browser \in Browsers /\ p.chromium[p.browser].state \in {"open", "lost"}
    BY <1>1, <1>2 DEF Pool, Sound, Known
  <2>2. Sound(q)
    BY <1>2, <2>1, AssignIsSound DEF Phases, Running
  <2>3. /\ q.queue = p.queue /\ q.result = p.result
        /\ \A u \in Tasks : q.phase[u] = IF u = t THEN "context" ELSE p.phase[u]
    BY <1>1 DEF Pool
  <2>4. GetBrowser(p, t) = q
    BY <1>2 DEF GetBrowser
  <2> HIDE DEF q
  <2> QED BY <2>2, <2>3, <2>4 DEF StartsTask
<1>3. CASE p.browser = 0 /\ p.launching # 0
  <2> DEFINE q == [p EXCEPT !.phase[t] = "launching"]
  <2>1. Sound(q) /\ q.phase = [p.phase EXCEPT ![t] = "launching"]
    BY <1>3, PhaseIsSound DEF Phases, Running
  <2>2. /\ q.queue = p.queue /\ q.result = p.result
        /\ \A u \in Tasks : q.phase[u] = IF u = t THEN "launching" ELSE p.phase[u]
    BY <1>1 DEF Pool
  <2>3. GetBrowser(p, t) = q
    BY <1>3 DEF GetBrowser
  <2> HIDE DEF q
  <2> QED BY <2>1, <2>2, <2>3 DEF StartsTask
<1>4. CASE p.browser = 0 /\ p.launching = 0
  <2>1. GetBrowser(p, t) = Launch(p, t)
    BY <1>4 DEF GetBrowser
  <2>2. /\ Sound(Launch(p, t)) /\ Launch(p, t).queue = p.queue /\ Launch(p, t).result = p.result
        /\ Launch(p, t).phase = [p.phase EXCEPT ![t] = "launching"]
    BY <1>4, LaunchIsSound
  <2>3. \A u \in Tasks : Launch(p, t).phase[u] = IF u = t THEN "launching" ELSE p.phase[u]
    BY <1>1, <2>2 DEF Pool
  <2> QED BY <2>1, <2>2, <2>3 DEF StartsTask
<1> QED BY <1>2, <1>3, <1>4

LEMMA EnsureBrowserStarts ==
  ASSUME NEW p, Sound(p), proxy \in BOOLEAN, NEW t \in Tasks, p.phase[t] = "closing"
  PROVE  StartsTask(p, EnsureBrowser(p, t), t)
<1>1. p \in Pool
  BY DEF Sound
<1>2. CASE Outdated(p) /\ Active(p) # {t}
  <2> DEFINE q == [p EXCEPT !.recycle = TRUE]
  <2>1. /\ q \in Pool
        /\ q.browser = p.browser /\ q.launching = p.launching /\ q.chromium = p.chromium
        /\ q.phase = p.phase /\ q.page = p.page /\ q.queue = p.queue /\ q.result = p.result
    BY <1>1 DEF Pool
  <2>2. EnsureBrowser(p, t) = GetBrowser(q, t)
    BY <1>2 DEF EnsureBrowser
  <2> HIDE DEF q
  <2>3. Sound(q)
    BY <2>1 DEF Sound, Known, OneAtATime, Undisturbed, LaunchAwaited, InQueue
  <2>4. StartsTask(q, GetBrowser(q, t), t)
    BY <2>3, GetBrowserStarts
  <2> QED BY <2>1, <2>2, <2>4 DEF StartsTask
<1>3. CASE Outdated(p) /\ Active(p) = {t}
  <2> DEFINE c == Close(p, "recycled")
  <2>1. \A u \in Tasks : p.phase[u] \notin {"context", "page"}
    BY <1>3 DEF Active, Running
  <2>2. /\ Sound(c) /\ c.phase = p.phase /\ c.queue = p.queue /\ c.result = p.result
    BY <2>1, CloseIsSound
  <2>3. EnsureBrowser(p, t) = [c EXCEPT !.phase[t] = "closing"]
    BY <1>3 DEF EnsureBrowser
  <2> HIDE DEF c
  <2>4. [c EXCEPT !.phase[t] = "closing"] = c
    BY <2>2 DEF Sound, Pool
  <2> QED BY <2>2, <2>3, <2>4 DEF StartsTask
<1>4. CASE ~Outdated(p)
  BY <1>4, GetBrowserStarts DEF EnsureBrowser
<1> QED BY <1>2, <1>3, <1>4

-----------------------------------------------------------------------------
(* The queue.                                                              *)

UrgentBefore(q, i, j) == Priority[q[j]] < Priority[q[i]] \/ (Priority[q[j]] = Priority[q[i]] /\ i <= j)

\* The first of the most urgent tasks exists: it does among the first n, for
\* every n.
LEMMA NextOneExists ==
  ASSUME NEW q \in Seq(Tasks), q # <<>>
  PROVE  Next1(q) \in DOMAIN q
<1>1. \A i \in DOMAIN q : q[i] \in Tasks /\ Priority[q[i]] \in Nat
  BY PoolAssumption
<1>2. Len(q) \in Nat \ {0} /\ DOMAIN q = 1..Len(q)
  OBVIOUS
<1> DEFINE HasFirst(n) == n \in 1..Len(q) => \E i \in 1..n : \A j \in 1..n : UrgentBefore(q, i, j)
           S == {n \in Nat : HasFirst(n)}
<1>3. HasFirst(0)
  OBVIOUS
<1>4. ASSUME NEW n \in Nat, HasFirst(n), n + 1 \in 1..Len(q)
      PROVE  \E i \in 1..(n + 1) : \A j \in 1..(n + 1) : UrgentBefore(q, i, j)
  <2>1. UrgentBefore(q, n + 1, n + 1)
    BY <1>1, <1>2, <1>4 DEF UrgentBefore
  <2>2. CASE n = 0
    <3>1. \A j \in 1..(n + 1) : j = n + 1
      BY <2>2
    <3>2. \A j \in 1..(n + 1) : UrgentBefore(q, n + 1, j)
      BY <2>1, <3>1
    <3> QED BY <3>2
  <2>3. CASE n # 0
    <3>1. n \in 1..Len(q)
      BY <1>2, <1>4, <2>3
    <3>2. PICK i \in 1..n : \A j \in 1..n : UrgentBefore(q, i, j)
      BY <1>4, <3>1
    <3>3. CASE UrgentBefore(q, i, n + 1)
      <4>1. \A j \in 1..(n + 1) : UrgentBefore(q, i, j)
        BY <3>2, <3>3
      <4> QED BY <3>2, <4>1
    <3>4. CASE ~UrgentBefore(q, i, n + 1)
      <4>1. Priority[q[i]] < Priority[q[n + 1]]
        BY <1>1, <1>2, <1>4, <3>1, <3>4 DEF UrgentBefore
      <4>2. \A j \in 1..n : Priority[q[j]] <= Priority[q[i]]
        BY <1>1, <1>2, <3>1, <3>2 DEF UrgentBefore
      <4>3. \A j \in 1..n : UrgentBefore(q, n + 1, j)
        BY <1>1, <1>2, <1>4, <3>1, <4>1, <4>2 DEF UrgentBefore
      <4>4. \A j \in 1..(n + 1) : UrgentBefore(q, n + 1, j)
        BY <2>1, <4>3
      <4> QED BY <4>4
    <3> QED BY <3>3, <3>4
  <2> QED BY <2>2, <2>3
<1>5. Len(q) \in S
  <2>1. S \in SUBSET Nat /\ 0 \in S
    BY <1>3
  <2>2. \A n \in S : n + 1 \in S
    <3> TAKE n \in S
    <3>1. n \in Nat /\ HasFirst(n)
      OBVIOUS
    <3>2. HasFirst(n + 1)
      BY <1>4, <3>1
    <3> HIDE DEF HasFirst
    <3> QED BY <3>1, <3>2
  <2> HIDE DEF S
  <2> QED BY <1>2, <2>1, <2>2, Induction
<1>6. \E i \in DOMAIN q : \A j \in DOMAIN q : UrgentBefore(q, i, j)
  BY <1>2, <1>5
<1> QED BY <1>6 DEF Next1, UrgentBefore

LEMMA RemoveAtKeepsTheRest ==
  ASSUME NEW S, NEW q \in Seq(S), NEW i \in DOMAIN q
  PROVE  /\ RemoveAt(q, i) \in Seq(S)
         /\ \A j \in DOMAIN q : q[j] # q[i] =>
              \E k \in DOMAIN RemoveAt(q, i) : RemoveAt(q, i)[k] = q[j]
<1> DEFINE a == SubSeq(q, 1, i - 1)
           b == SubSeq(q, i + 1, Len(q))
<1>1. Len(q) \in Nat /\ i \in 1..Len(q) /\ DOMAIN q = 1..Len(q)
  OBVIOUS
<1>2. /\ a \in Seq(S) /\ Len(a) = i - 1
      /\ \A k \in 1..(i - 1) : a[k] = q[k]
  BY <1>1
<1>3. /\ b \in Seq(S) /\ Len(b) = Len(q) - i
      /\ \A k \in 1..(Len(q) - i) : b[k] = q[i + k]
  BY <1>1
<1> HIDE DEF a, b
<1>4. RemoveAt(q, i) = a \o b
  BY DEF RemoveAt, a, b
<1>5. /\ a \o b \in Seq(S) /\ DOMAIN (a \o b) = 1..(Len(a) + Len(b))
      /\ \A k \in 1..(Len(a) + Len(b)) :
           (a \o b)[k] = IF k <= Len(a) THEN a[k] ELSE b[k - Len(a)]
  BY <1>2, <1>3, ConcatProperties
<1>6. ASSUME NEW j \in 1..Len(q), j # i
      PROVE  \E k \in DOMAIN (a \o b) : (a \o b)[k] = q[j]
  <2>1. CASE j < i
    <3>1. j \in 1..(i - 1) /\ j <= Len(a) /\ j \in 1..(Len(a) + Len(b))
      BY <1>1, <1>2, <1>3, <2>1
    <3>2. (a \o b)[j] = a[j] /\ a[j] = q[j]
      BY <1>2, <1>5, <3>1
    <3> QED BY <1>5, <3>1, <3>2
  <2>2. CASE j > i
    <3>1. /\ j - i \in 1..(Len(q) - i) /\ i + (j - i) = j
          /\ j - 1 \in 1..(Len(q) - 1) /\ ~(j - 1 <= i - 1) /\ (j - 1) - (i - 1) = j - i
      BY <1>1, <2>2
    <3>2. Len(a) + Len(b) = Len(q) - 1
      BY <1>1, <1>2, <1>3
    <3>3. b[j - i] = q[j]
      BY <1>3, <3>1
    <3>4. (a \o b)[j - 1] = q[j]
      BY <1>2, <1>5, <3>1, <3>2, <3>3
    <3> QED BY <1>5, <3>1, <3>2, <3>4
  <2> QED BY <1>1, <1>6, <2>1, <2>2
<1>7. \A j \in DOMAIN q : q[j] # q[i] => \E k \in DOMAIN (a \o b) : (a \o b)[k] = q[j]
  BY <1>1, <1>6
<1> QED BY <1>4, <1>5, <1>7

\* Starting the next task serves the queue, if it did not already.
LEMMA StartOneServes ==
  ASSUME NEW p, Sound(p), proxy \in BOOLEAN
  PROVE  Sound(StartOne(p)) /\ Started(p, StartOne(p)) /\ Served(StartOne(p))
<1>1. p \in Pool
  BY DEF Sound
<1>2. CASE p.queue = <<>> \/ \E s, t \in Active(p) : capacity = 1 \/ s # t
  <2>1. StartOne(p) = p
    BY <1>2 DEF StartOne
  <2>2. Served(p)
    BY <1>2 DEF Served, Active
  <2> QED BY <2>1, <2>2 DEF Started
<1>3. CASE ~(p.queue = <<>> \/ \E s, t \in Active(p) : capacity = 1 \/ s # t)
  <2> DEFINE i == Next1(p.queue)
             t == p.queue[i]
             q == [p EXCEPT !.queue = RemoveAt(@, i), !.phase[t] = "closing"]
  <2>1. p.queue \in Seq(Tasks) /\ i \in DOMAIN p.queue /\ t \in Tasks
    <3>1. p.queue \in Seq(Tasks) /\ p.queue # <<>>
      BY <1>1, <1>3 DEF Pool
    <3>2. i \in DOMAIN p.queue
      BY <3>1, NextOneExists
    <3> QED BY <3>1, <3>2
  <2>2. StartOne(p) = EnsureBrowser(q, t)
    BY <1>3 DEF StartOne
  <2> HIDE DEF i
  <2>3. /\ RemoveAt(p.queue, i) \in Seq(Tasks)
        /\ \A j \in DOMAIN p.queue : p.queue[j] # t =>
             \E k \in DOMAIN RemoveAt(p.queue, i) : RemoveAt(p.queue, i)[k] = p.queue[j]
    BY <2>1, RemoveAtKeepsTheRest
  <2> HIDE DEF t
  <2>4. /\ q \in Pool
        /\ q.browser = p.browser /\ q.launching = p.launching /\ q.chromium = p.chromium
        /\ q.page = p.page /\ q.result = p.result /\ q.queue = RemoveAt(p.queue, i)
        /\ \A u \in Tasks : q.phase[u] = IF u = t THEN "closing" ELSE p.phase[u]
    BY <1>1, <2>1, <2>3 DEF Pool, Phases, Running
  <2> HIDE DEF q
  <2>5. Sound(q)
    <3>1. Known(q) /\ OneAtATime(q) /\ Undisturbed(q) /\ LaunchAwaited(q)
      BY <2>4 DEF Sound, Known, OneAtATime, Undisturbed, LaunchAwaited
    <3>2. InQueue(q)
      BY <2>3, <2>4 DEF Sound, InQueue
    <3> QED BY <2>4, <3>1, <3>2 DEF Sound
  <2>6. StartsTask(q, EnsureBrowser(q, t), t)
    BY <2>1, <2>4, <2>5, EnsureBrowserStarts
  <2>7. Started(p, EnsureBrowser(q, t))
    BY <2>1, <2>4, <2>6 DEF StartsTask, Started
  <2>8. Served(EnsureBrowser(q, t))
    BY <2>1, <2>6 DEF StartsTask, Served, Running
  <2> QED BY <2>2, <2>6, <2>7, <2>8 DEF StartsTask
<1> QED BY <1>2, <1>3

LEMMA DrainServes ==
  ASSUME NEW p, Sound(p), proxy \in BOOLEAN
  PROVE  Sound(Drain(p)) /\ Started(p, Drain(p)) /\ Served(Drain(p))
<1> DEFINE q == [p EXCEPT !.timer = FALSE]
<1>1. /\ q \in Pool
      /\ q.browser = p.browser /\ q.launching = p.launching /\ q.chromium = p.chromium
      /\ q.phase = p.phase /\ q.page = p.page /\ q.queue = p.queue /\ q.result = p.result
  BY DEF Sound, Pool
<1>2. Drain(p) = StartOne(StartOne(q))
  BY DEF Drain
<1> HIDE DEF q
<1>3. Sound(q)
  BY <1>1 DEF Sound, Known, OneAtATime, Undisturbed, LaunchAwaited, InQueue
<1>4. Sound(StartOne(q)) /\ Started(q, StartOne(q))
  BY <1>3, StartOneServes
<1>5. /\ Sound(StartOne(StartOne(q))) /\ Served(StartOne(StartOne(q)))
      /\ Started(StartOne(q), StartOne(StartOne(q)))
  BY <1>4, StartOneServes
<1>6. Started(p, StartOne(StartOne(q)))
  BY <1>1, <1>4, <1>5 DEF Started
<1> QED BY <1>2, <1>5, <1>6

LEMMA ScheduleIdleCloseKeeps ==
  ASSUME NEW p, Sound(p)
  PROVE  /\ Sound(ScheduleIdleClose(p))
         /\ ScheduleIdleClose(p).phase = p.phase /\ ScheduleIdleClose(p).queue = p.queue
         /\ ScheduleIdleClose(p).result = p.result
<1> DEFINE q == [p EXCEPT !.timer = TRUE]
<1>1. /\ q \in Pool
      /\ q.browser = p.browser /\ q.launching = p.launching /\ q.chromium = p.chromium
      /\ q.phase = p.phase /\ q.page = p.page /\ q.queue = p.queue /\ q.result = p.result
  BY DEF Sound, Pool
<1>2. ScheduleIdleClose(p) \in {p, q}
  BY DEF ScheduleIdleClose
<1> HIDE DEF q
<1>3. Sound(q)
  BY <1>1 DEF Sound, Known, OneAtATime, Undisturbed, LaunchAwaited, InQueue
<1> QED BY <1>1, <1>2, <1>3

\* A failure marks its task, and takes the browser only from those who share it.
LEMMA CatchMarks ==
  ASSUME NEW p, Sound(p), NEW t \in Tasks, NEW created \in BOOLEAN
  PROVE  /\ Sound(Catch(p, t, created))
         /\ Catch(p, t, created).phase = [p.phase EXCEPT ![t] = "failed"]
         /\ Catch(p, t, created).queue = p.queue /\ Catch(p, t, created).result = p.result
<1> DEFINE q == [p EXCEPT !.phase[t] = "failed"]
<1>1. Sound(q) /\ q.phase = [p.phase EXCEPT ![t] = "failed"]
  BY PhaseIsSound DEF Phases, Running
<1>2. q.queue = p.queue /\ q.result = p.result
  BY DEF Sound, Pool
<1>3. Catch(p, t, created) \in {q, Close(q, "dropped")}
  BY DEF Catch
<1> HIDE DEF q
<1> QED BY <1>1, <1>2, <1>3, CloseIsSound

-----------------------------------------------------------------------------
(* The steps of the pool.                                                  *)

\* A task that the pool is done with has a result.
Tended(p, t) == p.phase[t] \in {"none", "leaving", "last"} => p.result[t] # "none"

PoolInv == PoolTypeOK /\ Sound(pool) /\ Served(pool)

Tends == \A t \in Tasks : Tended(pool, t) => Tended(pool', t)

LEMMA StartedTends ==
  ASSUME NEW p, NEW q, Started(p, q), NEW t \in Tasks, Tended(p, t)
  PROVE  Tended(q, t)
BY DEF Started, Tended

LEMMA PoolSettings ==
  ASSUME PoolInv
  PROVE  /\ pool \in Pool /\ capacity \in Capacities /\ proxy \in BOOLEAN
         /\ trouble \in 0..MaxTrouble /\ MaxTrouble \in Nat
BY PoolAssumption DEF PoolInv, PoolTypeOK

\* A step that changes the pool alone, or counts a trouble with it.
LEMMA StepKeepsPool ==
  ASSUME PoolInv, UNCHANGED <<capacity, proxy>>, UNCHANGED trouble \/ Trouble,
         Sound(pool'), Served(pool')
  PROVE  PoolInv'
<1>1. trouble' \in 0..MaxTrouble
  BY PoolSettings DEF Trouble
<1>2. pool' \in Pool
  BY DEF Sound
<1> QED BY <1>1, <1>2, PoolSettings DEF PoolInv, PoolTypeOK

LEMMA UseStep ==
  ASSUME PoolInv, NEW t \in Tasks, Use(t)
  PROVE  PoolInv' /\ Tends /\ Tended(pool', t)
<1> DEFINE q == [pool EXCEPT !.queue = Append(@, t), !.phase[t] = "queued"]
<1>1. pool \in Pool /\ proxy \in BOOLEAN /\ Sound(pool)
  BY PoolSettings DEF PoolInv
<1>2. CASE Len(pool.queue) >= MaxQueued
  <2>1. pool' = [pool EXCEPT !.result[t] = "error"] /\ UNCHANGED <<capacity, proxy, trouble>>
    BY <1>2 DEF Use, Moves
  <2>2. /\ pool' \in Pool
        /\ pool'.browser = pool.browser /\ pool'.launching = pool.launching
        /\ pool'.chromium = pool.chromium /\ pool'.phase = pool.phase /\ pool'.page = pool.page
        /\ pool'.queue = pool.queue
        /\ \A u \in Tasks : pool'.result[u] = IF u = t THEN "error" ELSE pool.result[u]
    BY <1>1, <2>1 DEF Pool
  <2>3. Sound(pool') /\ Served(pool')
    BY <2>2 DEF PoolInv, Served, Sound, Known, OneAtATime, Undisturbed, LaunchAwaited, InQueue
  <2>4. Tends /\ Tended(pool', t)
    BY <2>2 DEF Tends, Tended
  <2> QED BY <2>1, <2>3, <2>4, StepKeepsPool
<1>3. CASE ~(Len(pool.queue) >= MaxQueued)
  <2>1. pool' = Drain(q) /\ UNCHANGED <<capacity, proxy, trouble>>
    BY <1>3 DEF Use, Moves
  <2>2. pool.queue \in Seq(Tasks)
    BY <1>1 DEF Pool
  <2>3. /\ Append(pool.queue, t) \in Seq(Tasks)
        /\ DOMAIN Append(pool.queue, t) = 1..(Len(pool.queue) + 1)
        /\ DOMAIN pool.queue = 1..Len(pool.queue) /\ Len(pool.queue) \in Nat
        /\ \A i \in 1..Len(pool.queue) : Append(pool.queue, t)[i] = pool.queue[i]
        /\ Append(pool.queue, t)[Len(pool.queue) + 1] = t
    BY <2>2
  <2>4. /\ q \in Pool
        /\ q.browser = pool.browser /\ q.launching = pool.launching /\ q.chromium = pool.chromium
        /\ q.page = pool.page /\ q.result = pool.result /\ q.queue = Append(pool.queue, t)
        /\ \A u \in Tasks : q.phase[u] = IF u = t THEN "queued" ELSE pool.phase[u]
    BY <1>1, <2>3 DEF Pool, Phases
  <2> HIDE DEF q
  <2>5. Known(q) /\ OneAtATime(q) /\ Undisturbed(q) /\ LaunchAwaited(q)
    BY <1>1, <2>4 DEF Sound, Known, OneAtATime, Undisturbed, LaunchAwaited
  <2>6. InQueue(q)
    <3> SUFFICES ASSUME NEW u \in Tasks, q.phase[u] = "queued"
                 PROVE  \E i \in 1..(Len(pool.queue) + 1) : Append(pool.queue, t)[i] = u
      BY <2>3, <2>4 DEF InQueue
    <3>1. CASE u = t
      BY <2>3, <3>1
    <3>2. CASE u # t
      <4>1. PICK i \in 1..Len(pool.queue) : pool.queue[i] = u
        BY <1>1, <2>3, <2>4, <3>2 DEF Sound, InQueue
      <4> QED BY <2>3, <4>1
    <3> QED BY <3>1, <3>2
  <2>7. Sound(Drain(q)) /\ Started(q, Drain(q)) /\ Served(Drain(q))
    BY <1>1, <2>4, <2>5, <2>6, DrainServes DEF Sound
  <2>8. \A u \in Tasks : Tended(pool, u) \/ u = t => Tended(q, u)
    BY <2>4 DEF Tended
  <2>9. \A u \in Tasks : Tended(pool, u) \/ u = t => Tended(Drain(q), u)
    BY <2>7, <2>8, StartedTends
  <2> QED BY <2>1, <2>7, <2>9, StepKeepsPool DEF Tends
<1> QED BY <1>2, <1>3

\* What moves one task on, and keeps it running, is harmless.
LEMMA RunsOn ==
  ASSUME PoolInv, NEW t \in Tasks, pool.phase[t] \in Running, Sound(pool'),
         pool'.queue = pool.queue,
         \A u \in Tasks \ {t} : pool'.phase[u] = pool.phase[u] /\ pool'.result[u] = pool.result[u],
         pool'.phase[t] \in Running \/ pool'.phase[t] = "last", Tended(pool', t)
  PROVE  Served(pool') /\ Tends
BY DEF PoolInv, Served, Tends, Tended

LEMMA ProgressStep ==
  ASSUME PoolInv, NEW t \in Tasks, Progress(t)
  PROVE  PoolInv' /\ Tends
<1>1. pool \in Pool /\ proxy \in BOOLEAN /\ Sound(pool)
  BY PoolSettings DEF PoolInv
<1>2. CASE Reopen(t)
  <2>1. pool' = GetBrowser(pool, t) /\ UNCHANGED <<capacity, proxy, trouble>>
        /\ pool.phase[t] = "closing"
    BY <1>2 DEF Reopen, Moves
  <2>2. StartsTask(pool, pool', t)
    BY <1>1, <2>1, GetBrowserStarts
  <2>3. Served(pool') /\ Tends
    BY <1>1, <2>1, <2>2, RunsOn DEF StartsTask, Running, Tended
  <2> QED BY <2>1, <2>2, <2>3, StepKeepsPool DEF StartsTask
<1>3. CASE OpenContext(t)
  <2>1. pool.phase[t] = "context" /\ UNCHANGED <<capacity, proxy, trouble>>
    BY <1>3 DEF OpenContext, Moves
  <2>2. CASE Held(t)
    <3>1. pool' = [pool EXCEPT !.phase[t] = "page"]
      BY <1>3, <2>2 DEF OpenContext, Moves
    <3>2. Sound(pool')
      BY <1>1, <2>1, <3>1, PhaseIsSound DEF Phases, Running
    <3>3. /\ pool'.queue = pool.queue /\ pool'.result = pool.result
          /\ \A u \in Tasks : pool'.phase[u] = IF u = t THEN "page" ELSE pool.phase[u]
      BY <1>1, <3>1 DEF Pool
    <3>4. Served(pool') /\ Tends
      BY <2>1, <3>2, <3>3, RunsOn DEF Running, Tended
    <3> QED BY <2>1, <3>2, <3>4, StepKeepsPool
  <2>3. CASE ~Held(t)
    <3>1. pool' = Catch(pool, t, FALSE)
      BY <1>3, <2>3 DEF OpenContext, Moves
    <3>2. /\ Sound(pool') /\ pool'.phase = [pool.phase EXCEPT ![t] = "failed"]
          /\ pool'.queue = pool.queue /\ pool'.result = pool.result
      BY <1>1, <3>1, CatchMarks
    <3>3. \A u \in Tasks : pool'.phase[u] = IF u = t THEN "failed" ELSE pool.phase[u]
      BY <1>1, <3>2 DEF Pool
    <3>4. Served(pool') /\ Tends
      BY <2>1, <3>2, <3>3, RunsOn DEF Running, Tended
    <3> QED BY <2>1, <3>2, <3>4, StepKeepsPool
  <2> QED BY <2>2, <2>3
<1>4. CASE WorkOn(t)
  <2>1. pool.phase[t] = "page" /\ UNCHANGED <<capacity, proxy, trouble>>
    BY <1>4 DEF WorkOn, Moves
  <2>2. CASE Held(t)
    <3> DEFINE q == [pool EXCEPT !.result[t] = "ok"]
    <3>1. pool' = [q EXCEPT !.phase[t] = "leaving"]
      BY <1>1, <1>4, <2>2 DEF WorkOn, Moves, Pool
    <3>2. Sound(q)
      <4>1. /\ q \in Pool
            /\ q.browser = pool.browser /\ q.launching = pool.launching
            /\ q.chromium = pool.chromium /\ q.phase = pool.phase /\ q.page = pool.page
            /\ q.queue = pool.queue
        BY <1>1 DEF Pool
      <4> HIDE DEF q
      <4> QED BY <1>1, <4>1 DEF Sound, Known, OneAtATime, Undisturbed, LaunchAwaited, InQueue
    <3>3. Sound(pool')
      BY <3>1, <3>2, PhaseIsSound DEF Phases, Running
    <3>4. /\ pool'.queue = pool.queue
          /\ \A u \in Tasks : /\ pool'.phase[u] = IF u = t THEN "leaving" ELSE pool.phase[u]
                              /\ pool'.result[u] = IF u = t THEN "ok" ELSE pool.result[u]
      BY <1>1, <3>1 DEF Pool
    <3>5. Served(pool') /\ Tends
      BY <2>1, <3>3, <3>4, RunsOn DEF Running, Tended
    <3> QED BY <2>1, <3>3, <3>5, StepKeepsPool
  <2>3. CASE ~Held(t)
    <3>1. pool' = Catch(pool, t, TRUE)
      BY <1>4, <2>3 DEF WorkOn, Moves
    <3>2. /\ Sound(pool') /\ pool'.phase = [pool.phase EXCEPT ![t] = "failed"]
          /\ pool'.queue = pool.queue /\ pool'.result = pool.result
      BY <1>1, <3>1, CatchMarks
    <3>3. \A u \in Tasks : pool'.phase[u] = IF u = t THEN "failed" ELSE pool.phase[u]
      BY <1>1, <3>2 DEF Pool
    <3>4. Served(pool') /\ Tends
      BY <2>1, <3>2, <3>3, RunsOn DEF Running, Tended
    <3> QED BY <2>1, <3>2, <3>4, StepKeepsPool
  <2> QED BY <2>2, <2>3
<1>5. CASE Reject(t)
  <2> DEFINE q == [pool EXCEPT !.result[t] = "error"]
  <2>1. /\ pool.phase[t] = "failed" /\ UNCHANGED <<capacity, proxy, trouble>>
        /\ pool' = [q EXCEPT !.phase[t] = "leaving"]
    BY <1>1, <1>5 DEF Reject, Moves, Pool
  <2>2. Sound(q)
    <3>1. /\ q \in Pool
          /\ q.browser = pool.browser /\ q.launching = pool.launching
          /\ q.chromium = pool.chromium /\ q.phase = pool.phase /\ q.page = pool.page
          /\ q.queue = pool.queue
      BY <1>1 DEF Pool
    <3> HIDE DEF q
    <3> QED BY <1>1, <3>1 DEF Sound, Known, OneAtATime, Undisturbed, LaunchAwaited, InQueue
  <2>3. Sound(pool')
    BY <2>1, <2>2, PhaseIsSound DEF Phases, Running
  <2>4. /\ pool'.queue = pool.queue
        /\ \A u \in Tasks : /\ pool'.phase[u] = IF u = t THEN "leaving" ELSE pool.phase[u]
                            /\ pool'.result[u] = IF u = t THEN "error" ELSE pool.result[u]
    BY <1>1, <2>1 DEF Pool
  <2>5. Served(pool') /\ Tends
    BY <2>1, <2>3, <2>4, RunsOn DEF Running, Tended
  <2> QED BY <2>1, <2>3, <2>5, StepKeepsPool
<1>6. CASE Leave(t)
  <2> DEFINE q == [pool EXCEPT !.phase[t] = "none", !.page[t] = 0]
  <2>1. pool.phase[t] = "leaving" /\ UNCHANGED <<capacity, proxy, trouble>>
    BY <1>6 DEF Leave, Moves
  <2>2. /\ q.queue = pool.queue /\ q.result = pool.result
        /\ \A u \in Tasks : q.phase[u] = IF u = t THEN "none" ELSE pool.phase[u]
    BY <1>1 DEF Pool
  <2>3. Sound(q)
    BY <1>1, AssignIsSound DEF Phases
  <2>4. \A u \in Tasks : Tended(pool, u) => Tended(q, u)
    BY <2>1, <2>2 DEF Tended
  <2>5. CASE pool' = ScheduleIdleClose(Drain(q))
    <3> HIDE DEF q
    <3>1. Sound(Drain(q)) /\ Started(q, Drain(q)) /\ Served(Drain(q))
      BY <1>1, <2>3, DrainServes
    <3>2. /\ Sound(pool') /\ pool'.phase = Drain(q).phase /\ pool'.queue = Drain(q).queue
          /\ pool'.result = Drain(q).result
      BY <2>5, <3>1, ScheduleIdleCloseKeeps
    <3>3. Served(pool')
      BY <3>1, <3>2 DEF Served
    <3>4. Tends
      BY <2>4, <3>1, <3>2, StartedTends DEF Tends, Tended
    <3> QED BY <2>1, <3>2, <3>3, <3>4, StepKeepsPool
  <2>6. CASE Active(q) = {} /\ pool' = [Close(q, "recycled") EXCEPT !.phase[t] = "last"]
    <3> HIDE DEF q
    <3> DEFINE c == Close(q, "recycled")
    <3>1. \A u \in Tasks : q.phase[u] \notin {"context", "page"}
      BY <2>6 DEF Active, Running
    <3>2. Sound(c) /\ c.phase = q.phase /\ c.queue = q.queue /\ c.result = q.result
      BY <2>3, <3>1, CloseIsSound
    <3> HIDE DEF c
    <3>3. Sound(pool')
      BY <2>6, <3>2, PhaseIsSound DEF c, Phases
    <3>4. /\ pool'.queue = pool.queue /\ pool'.result = pool.result
          /\ \A u \in Tasks : pool'.phase[u] = IF u = t THEN "last" ELSE pool.phase[u]
      BY <2>2, <2>6, <3>2 DEF c, Sound, Pool
    <3>5. Served(pool')
      BY <3>4 DEF Served
    <3>6. Tends
      BY <2>1, <3>4 DEF Tends, Tended
    <3> QED BY <2>1, <3>3, <3>5, <3>6, StepKeepsPool
  <2>7. \/ pool' = ScheduleIdleClose(Drain(q))
        \/ Active(q) = {} /\ pool' = [Close(q, "recycled") EXCEPT !.phase[t] = "last"]
    BY <1>6 DEF Leave, Moves
  <2> QED BY <2>5, <2>6, <2>7
<1>7. CASE DrainLast(t)
  <2> DEFINE q == [pool EXCEPT !.phase[t] = "none"]
  <2>1. /\ pool.phase[t] = "last" /\ UNCHANGED <<capacity, proxy, trouble>>
        /\ pool' = ScheduleIdleClose(Drain(q))
    BY <1>7 DEF DrainLast, Moves
  <2>2. /\ q.queue = pool.queue /\ q.result = pool.result
        /\ \A u \in Tasks : q.phase[u] = IF u = t THEN "none" ELSE pool.phase[u]
    BY <1>1 DEF Pool
  <2>3. Sound(q)
    BY <1>1, PhaseIsSound DEF Phases
  <2>4. \A u \in Tasks : Tended(pool, u) => Tended(q, u)
    BY <2>1, <2>2 DEF Tended
  <2> HIDE DEF q
  <2>5. Sound(Drain(q)) /\ Started(q, Drain(q)) /\ Served(Drain(q))
    BY <1>1, <2>3, DrainServes
  <2>6. /\ Sound(pool') /\ pool'.phase = Drain(q).phase /\ pool'.queue = Drain(q).queue
        /\ pool'.result = Drain(q).result
    BY <2>1, <2>5, ScheduleIdleCloseKeeps
  <2>7. Served(pool')
    BY <2>5, <2>6 DEF Served
  <2>8. Tends
    BY <2>4, <2>5, <2>6, StartedTends DEF Tends, Tended
  <2> QED BY <2>1, <2>6, <2>7, <2>8, StepKeepsPool
<1> QED BY <1>2, <1>3, <1>4, <1>5, <1>6, <1>7 DEF Progress

LEMMA TaskFailsStep ==
  ASSUME PoolInv, NEW t \in Tasks, TaskFails(t)
  PROVE  PoolInv' /\ Tends
<1> DEFINE created == pool.phase[t] = "page"
<1>1. pool \in Pool /\ Sound(pool)
  BY PoolSettings DEF PoolInv
<1>2. /\ pool.phase[t] \in {"context", "page"} /\ Trouble /\ UNCHANGED <<capacity, proxy>>
      /\ pool' = Catch(pool, t, created)
  BY DEF TaskFails, Moves
<1>3. created \in BOOLEAN
  OBVIOUS
<1> HIDE DEF created
<1>4. /\ Sound(pool') /\ pool'.phase = [pool.phase EXCEPT ![t] = "failed"]
      /\ pool'.queue = pool.queue /\ pool'.result = pool.result
  BY <1>1, <1>2, <1>3, CatchMarks
<1>5. \A u \in Tasks : pool'.phase[u] = IF u = t THEN "failed" ELSE pool.phase[u]
  BY <1>1, <1>4 DEF Pool
<1>6. Served(pool') /\ Tends
  BY <1>2, <1>4, <1>5, RunsOn DEF Running, Tended
<1> QED BY <1>2, <1>4, <1>6, StepKeepsPool

LEMMA LaunchedStep ==
  ASSUME PoolInv, Launched
  PROVE  PoolInv' /\ Tends
<1> DEFINE b == pool.launching
<1>1. pool \in Pool /\ Sound(pool)
  BY PoolSettings DEF PoolInv
<1>2. /\ b # 0 /\ UNCHANGED <<capacity, proxy, trouble>>
      /\ pool' = [pool EXCEPT !.launching = 0, !.browser = b, !.chromium[b].state = "open",
           !.phase = [t \in Tasks |-> IF @[t] = "launching" THEN "context" ELSE @[t]],
           !.page = [t \in Tasks |-> IF pool.phase[t] = "launching" THEN b ELSE @[t]]]
  BY DEF Launched, Moves
<1>3. b \in Browsers /\ pool.browser = 0
  BY <1>1, <1>2 DEF Pool, Sound, OneAtATime
<1> HIDE DEF b
<1>4. /\ pool'.launching = 0 /\ pool'.browser = b /\ pool'.queue = pool.queue
      /\ pool'.result = pool.result
      /\ pool'.chromium = [pool.chromium EXCEPT ![b].state = "open"]
      /\ pool'.phase = [t \in Tasks |->
           IF pool.phase[t] = "launching" THEN "context" ELSE pool.phase[t]]
      /\ pool'.page = [t \in Tasks |-> IF pool.phase[t] = "launching" THEN b ELSE pool.page[t]]
  BY <1>1, <1>2 DEF Pool
<1>5. pool' \in Pool
  <2>1. [pool.chromium EXCEPT ![b].state = "open"] \in [Browsers -> Chromium]
    <3>1. pool.chromium \in [Browsers -> Chromium] /\ pool.chromium[b] \in Chromium
      BY <1>1, <1>3 DEF Pool
    <3>2. [pool.chromium[b] EXCEPT !.state = "open"] \in Chromium
      BY <3>1 DEF Chromium
    <3> QED BY <3>1, <3>2
  <2>2. /\ pool'.phase \in [Tasks -> Phases]
        /\ pool'.page \in [Tasks -> Browsers \cup {0}]
        /\ pool'.chromium \in [Browsers -> Chromium]
    BY <1>1, <1>3, <1>4, <2>1 DEF Pool, Phases, Running
  <2>3. pool' = [pool EXCEPT !.launching = 0, !.browser = b, !.chromium = pool'.chromium,
                             !.phase = pool'.phase, !.page = pool'.page]
    BY <1>1, <1>2, <1>4 DEF Pool
  <2> QED BY <1>1, <1>3, <2>2, <2>3 DEF Pool
<1>6. \A c \in Browsers : pool'.chromium[c].state = IF c = b THEN "open" ELSE pool.chromium[c].state
  BY <1>1, <1>3, <1>4 DEF Pool, Chromium
<1>7. Known(pool')
  <2>1. \A c \in Browsers : pool.chromium[c].state \notin {"open", "lost"}
    BY <1>1, <1>3, NoBrowserIsZero DEF Sound, Known
  <2>2. \A c \in Browsers : pool.chromium[c].state = "launching" => c = b
    BY <1>1 DEF Sound, Known, b
  <2> QED BY <1>3, <1>4, <1>6, <2>1, <2>2 DEF Known
<1>8. Undisturbed(pool')
  BY <1>1, <1>3, <1>4, <1>6 DEF Sound, Undisturbed
<1>9. OneAtATime(pool') /\ LaunchAwaited(pool') /\ InQueue(pool')
  BY <1>1, <1>4 DEF Sound, OneAtATime, LaunchAwaited, InQueue
<1>10. Served(pool') /\ Tends
  BY <1>4 DEF PoolInv, Served, Running, Tends, Tended
<1> QED BY <1>2, <1>5, <1>7, <1>8, <1>9, <1>10, StepKeepsPool DEF Sound

LEMMA LaunchFailsStep ==
  ASSUME PoolInv, LaunchFails
  PROVE  PoolInv' /\ Tends
<1> DEFINE b == pool.launching
           q == [pool EXCEPT !.launching = 0, !.chromium[b].state = "none",
                  !.phase = [t \in Tasks |-> IF @[t] = "launching" THEN "failed" ELSE @[t]]]
<1>1. pool \in Pool /\ Sound(pool)
  BY PoolSettings DEF PoolInv
<1>2. b # 0 /\ Trouble /\ UNCHANGED <<capacity, proxy>> /\ pool' = Close(q, "dropped")
  BY DEF LaunchFails, Moves
<1>3. b \in Browsers /\ pool.browser = 0
  BY <1>1, <1>2 DEF Pool, Sound, OneAtATime
<1> HIDE DEF b
<1>4. /\ q.launching = 0 /\ q.browser = 0 /\ q.queue = pool.queue
      /\ q.result = pool.result /\ q.page = pool.page
      /\ q.chromium = [pool.chromium EXCEPT ![b].state = "none"]
      /\ q.phase = [t \in Tasks |-> IF pool.phase[t] = "launching" THEN "failed" ELSE pool.phase[t]]
  BY <1>1, <1>3 DEF Pool
<1>5. q \in Pool
  <2>1. [pool.chromium EXCEPT ![b].state = "none"] \in [Browsers -> Chromium]
    <3>1. pool.chromium \in [Browsers -> Chromium] /\ pool.chromium[b] \in Chromium
      BY <1>1, <1>3 DEF Pool
    <3>2. [pool.chromium[b] EXCEPT !.state = "none"] \in Chromium
      BY <3>1 DEF Chromium
    <3> QED BY <3>1, <3>2
  <2>2. q.phase \in [Tasks -> Phases] /\ q.chromium \in [Browsers -> Chromium]
    BY <1>1, <1>4, <2>1 DEF Pool, Phases, Running
  <2>3. q = [pool EXCEPT !.launching = 0, !.chromium = q.chromium, !.phase = q.phase]
    BY <1>1, <1>4 DEF Pool
  <2> HIDE DEF q
  <2> QED BY <1>1, <2>2, <2>3 DEF Pool
<1>6. \A c \in Browsers : q.chromium[c].state = IF c = b THEN "none" ELSE pool.chromium[c].state
  BY <1>1, <1>3, <1>4 DEF Pool, Chromium
<1> HIDE DEF q
<1>7. Known(q)
  <2>1. \A c \in Browsers : pool.chromium[c].state \notin {"open", "lost"}
    BY <1>1, <1>3, NoBrowserIsZero DEF Sound, Known
  <2>2. \A c \in Browsers : pool.chromium[c].state = "launching" => c = b
    BY <1>1 DEF Sound, Known, b
  <2> QED BY <1>4, <1>6, <2>1, <2>2 DEF Known
<1>8. Undisturbed(q)
  BY <1>1, <1>4, <1>6 DEF Sound, Undisturbed
<1>9. OneAtATime(q) /\ LaunchAwaited(q) /\ InQueue(q)
  BY <1>1, <1>4 DEF Sound, OneAtATime, LaunchAwaited, InQueue
<1>10. /\ Sound(pool') /\ pool'.phase = q.phase /\ pool'.queue = q.queue
       /\ pool'.result = q.result
  BY <1>2, <1>5, <1>7, <1>8, <1>9, CloseIsSound DEF Sound
<1>11. Served(pool') /\ Tends
  BY <1>4, <1>10 DEF PoolInv, Served, Running, Tends, Tended
<1> QED BY <1>2, <1>10, <1>11, StepKeepsPool

LEMMA BrowserStep ==
  ASSUME PoolInv, IdleClose \/ Wears \/ ChromiumDies \/ Disconnected
  PROVE  PoolInv' /\ Tends
<1>1. pool \in Pool /\ Sound(pool)
  BY PoolSettings DEF PoolInv
<1>2. ASSUME Sound(pool'), pool'.phase = pool.phase, pool'.queue = pool.queue,
             pool'.result = pool.result
      PROVE  Served(pool') /\ Tends
  BY <1>2 DEF PoolInv, Served, Tends, Tended
<1>3. CASE IdleClose
  <2>1. /\ Active(pool) = {} /\ pool' = Close(pool, "recycled")
        /\ UNCHANGED <<capacity, proxy, trouble>>
    BY <1>3 DEF IdleClose, Moves
  <2>2. \A t \in Tasks : pool.phase[t] \notin {"context", "page"}
    BY <2>1 DEF Active, Running
  <2>3. Sound(pool') /\ pool'.phase = pool.phase /\ pool'.queue = pool.queue
        /\ pool'.result = pool.result
    BY <1>1, <2>1, <2>2, CloseIsSound
  <2> QED BY <1>2, <2>1, <2>3, StepKeepsPool
<1>4. CASE Wears
  <2>1. pool' = [pool EXCEPT !.worn = TRUE] /\ Trouble /\ UNCHANGED <<capacity, proxy>>
    BY <1>4 DEF Wears, Moves
  <2>2. /\ pool' \in Pool
        /\ pool'.browser = pool.browser /\ pool'.launching = pool.launching
        /\ pool'.chromium = pool.chromium /\ pool'.phase = pool.phase /\ pool'.page = pool.page
        /\ pool'.queue = pool.queue /\ pool'.result = pool.result
    BY <1>1, <2>1 DEF Pool
  <2>3. Sound(pool')
    BY <1>1, <2>2 DEF Sound, Known, OneAtATime, Undisturbed, LaunchAwaited, InQueue
  <2> QED BY <1>2, <2>1, <2>2, <2>3, StepKeepsPool
<1>5. CASE ChromiumDies
  <2> DEFINE b == pool.browser
  <2>1. /\ b # 0 /\ pool' = [pool EXCEPT !.chromium[b].state = "lost"]
        /\ Trouble /\ UNCHANGED <<capacity, proxy>>
    BY <1>5 DEF ChromiumDies, Moves, BrowserConnected
  <2>2. b \in Browsers
    BY <1>1, <2>1 DEF Pool
  <2>3. /\ pool'.browser = b /\ pool'.launching = pool.launching
        /\ pool'.chromium = [pool.chromium EXCEPT ![b].state = "lost"]
        /\ pool'.phase = pool.phase /\ pool'.page = pool.page
        /\ pool'.queue = pool.queue /\ pool'.result = pool.result
    BY <1>1, <2>1 DEF Pool
  <2>4. \A c \in Browsers : pool'.chromium[c].state = IF c = b THEN "lost" ELSE pool.chromium[c].state
    BY <1>1, <2>2, <2>3 DEF Pool, Chromium
  <2>5. pool' \in Pool
    <3>1. pool.chromium \in [Browsers -> Chromium] /\ pool.chromium[b] \in Chromium
      BY <1>1, <2>2 DEF Pool
    <3>2. [pool.chromium[b] EXCEPT !.state = "lost"] \in Chromium
      BY <3>1 DEF Chromium
    <3>3. pool'.chromium \in [Browsers -> Chromium]
      BY <2>3, <3>1, <3>2
    <3>4. pool' = [pool EXCEPT !.chromium = pool'.chromium]
      BY <1>1, <2>1, <2>3 DEF Pool
    <3> QED BY <1>1, <3>3, <3>4 DEF Pool
  <2>6. Sound(pool')
    <3>1. Known(pool')
      BY <1>1, <2>2, <2>3, <2>4 DEF Sound, Known
    <3>2. Undisturbed(pool')
      BY <1>1, <2>3, <2>4 DEF Sound, Undisturbed
    <3>3. OneAtATime(pool') /\ LaunchAwaited(pool') /\ InQueue(pool')
      BY <1>1, <2>3 DEF Sound, OneAtATime, LaunchAwaited, InQueue
    <3> QED BY <2>5, <3>1, <3>2, <3>3 DEF Sound
  <2> QED BY <1>2, <2>1, <2>3, <2>6, StepKeepsPool
<1>6. CASE Disconnected
  <2>1. pool' = Close(pool, "dropped") /\ UNCHANGED <<capacity, proxy, trouble>>
    BY <1>6 DEF Disconnected, Moves
  <2>2. Sound(pool') /\ pool'.phase = pool.phase /\ pool'.queue = pool.queue
        /\ pool'.result = pool.result
    BY <1>1, <2>1, CloseIsSound
  <2> QED BY <1>2, <2>1, <2>2, StepKeepsPool
<1> QED BY <1>3, <1>4, <1>5, <1>6

LEMMA PoolStep ==
  ASSUME PoolInv, PoolNext
  PROVE  PoolInv' /\ Tends
BY ProgressStep, TaskFailsStep, LaunchedStep, LaunchFailsStep, BrowserStep DEF PoolNext

-----------------------------------------------------------------------------
(* The pool as its child uses it.                                          *)

LEMMA EmptyPoolIsSound == Sound(EmptyPool) /\ Served(EmptyPool)
<1>1. /\ EmptyPool.queue = <<>> /\ EmptyPool.queue \in Seq(Tasks) /\ DOMAIN EmptyPool.queue = {}
      /\ EmptyPool.browser = 0 /\ EmptyPool.launching = 0
      /\ \A t \in Tasks : EmptyPool.phase[t] = "none"
      /\ \A b \in Browsers : EmptyPool.chromium[b].state = "none"
  BY DEF EmptyPool
<1>2. EmptyPool \in Pool
  BY <1>1 DEF EmptyPool, Pool, Phases, Chromium
<1>3. Known(EmptyPool) /\ OneAtATime(EmptyPool) /\ Undisturbed(EmptyPool)
      /\ LaunchAwaited(EmptyPool) /\ InQueue(EmptyPool)
  BY <1>1 DEF Known, OneAtATime, Undisturbed, LaunchAwaited, InQueue
<1> QED BY <1>1, <1>2, <1>3 DEF Sound, Served

\* A new child starts with an empty pool.
LEMMA NewPool ==
  ASSUME PoolInv, pool' = EmptyPool, UNCHANGED <<capacity, proxy, trouble>>
  PROVE  PoolInv'
BY EmptyPoolIsSound, StepKeepsPool

LEMMA PoolUnchanged ==
  ASSUME PoolInv, UNCHANGED pool, UNCHANGED capacity, proxy' \in BOOLEAN,
         UNCHANGED trouble \/ Trouble
  PROVE  PoolInv' /\ Tends
<1>1. trouble' \in 0..MaxTrouble
  BY PoolSettings DEF Trouble
<1> QED BY <1>1, PoolSettings DEF PoolInv, PoolTypeOK, Tends

\* Handing a result over changes nothing but that result.
LEMMA AnswerKeepsPool ==
  ASSUME PoolInv, NEW t \in Tasks, pool' = [pool EXCEPT !.result[t] = "none"],
         UNCHANGED <<capacity, proxy, trouble>>
  PROVE  PoolInv' /\ \A u \in Tasks \ {t} : Tended(pool, u) => Tended(pool', u)
<1>1. /\ pool' \in Pool
      /\ pool'.browser = pool.browser /\ pool'.launching = pool.launching
      /\ pool'.chromium = pool.chromium /\ pool'.phase = pool.phase /\ pool'.page = pool.page
      /\ pool'.queue = pool.queue
      /\ \A u \in Tasks \ {t} : pool'.result[u] = pool.result[u]
  BY PoolSettings DEF Pool
<1>2. Sound(pool') /\ Served(pool')
  BY <1>1 DEF PoolInv, Served, Sound, Known, OneAtATime, Undisturbed, LaunchAwaited, InQueue
<1> QED BY <1>1, <1>2, StepKeepsPool DEF Tended

-----------------------------------------------------------------------------
(* The client and its children.                                            *)

\* The only child that is up is the one the client sends to.
UpIsUsed == \A c \in Children : Up(c) => child = c /\ connected[c]

\* The client has a child that it forked and whose exit it has not seen.
ChildIsForked == child # 0 => process[child] \in {"up", "dead"}

Unborn == \A c \in Children : process[c] = "none" => inbox[c] = {} /\ executing[c] = {}

\* What a child has received its pool has taken on.
TakenOn ==
  \A c \in Children : Up(c) => \A t \in executing[c] : t \notin Plain => Tended(pool, t)

\* Where a request that waits can be.
Somewhere(r) ==
  \/ \E c \in Children : process[c] \in {"stopping", "dead"}
  \/ \E c \in Children : Up(c) /\ r \in inbox[c] \cup executing[c]
  \/ \E answer \in {"resolved", "rejected"} : <<r, answer>> \in replies
Kept == \A r \in Requests : request[r] = "pending" => Somewhere(r)

ClientTypeOK ==
  /\ child \in 0..MaxChildren
  /\ connected \in [Children -> BOOLEAN]
  /\ process \in [Children -> {"none", "up", "stopping", "dead", "gone"}]
  /\ request \in [Requests -> {"new", "pending", "resolved", "rejected"}]
  /\ inbox \in [Children -> SUBSET Requests] /\ executing \in [Children -> SUBSET Requests]
  /\ replies \subseteq Requests \X {"resolved", "rejected"}

ClientInv == ClientTypeOK /\ UpIsUsed /\ ChildIsForked /\ Unborn /\ TakenOn /\ Kept

Inv == PoolInv /\ ClientInv

LEMMA ChildIsAChild ==
  ASSUME ClientTypeOK, child # 0
  PROVE  child \in Children
BY ClientAssumption DEF ClientTypeOK, Children

LEMMA ExecutorInitInv == ExecutorInit => Inv
<1> SUFFICES ASSUME ExecutorInit PROVE Inv
  OBVIOUS
<1>1. PoolInv
  <2>1. pool = EmptyPool /\ capacity \in Capacities /\ proxy \in BOOLEAN /\ trouble = 0
    BY DEF ExecutorInit, PoolInit
  <2>2. Sound(pool) /\ Served(pool)
    BY <2>1, EmptyPoolIsSound
  <2>3. pool \in Pool /\ trouble \in 0..MaxTrouble
    BY <2>1, <2>2, PoolAssumption DEF Sound
  <2> QED BY <2>1, <2>2, <2>3 DEF PoolInv, PoolTypeOK
<1>2. ClientTypeOK
  BY ClientAssumption DEF ExecutorInit, ClientTypeOK
<1>3. UpIsUsed /\ ChildIsForked /\ Unborn /\ TakenOn /\ Kept
  BY DEF ExecutorInit, UpIsUsed, ChildIsForked, Unborn, TakenOn, Kept, Up
<1> QED BY <1>1, <1>2, <1>3 DEF Inv, ClientInv

LEMMA SendStep ==
  ASSUME Inv, NEW r \in Requests, Send(r)
  PROVE  Inv'
<1>1. /\ child \in Children /\ connected[child] /\ request[r] = "new"
      /\ UNCHANGED <<poolVars, child, connected, process, executing, replies>>
  BY ChildIsAChild DEF Send, Usable, Inv, ClientInv
<1>2. PoolInv'
  BY <1>1, PoolUnchanged, PoolSettings DEF Inv, poolVars
<1>3. CASE Up(child)
  <2>1. /\ request' = [request EXCEPT ![r] = "pending"]
        /\ inbox' = [inbox EXCEPT ![child] = @ \cup {r}]
    BY <1>1, <1>3 DEF Send, SendTo, Up
  <2>2. ClientTypeOK'
    BY <1>1, <2>1 DEF Inv, ClientInv, ClientTypeOK
  <2>3. UpIsUsed' /\ ChildIsForked' /\ Unborn' /\ TakenOn'
    BY <1>1, <1>3, <2>1 DEF Inv, ClientInv, ClientTypeOK, UpIsUsed, ChildIsForked, Unborn, TakenOn, Up, poolVars
  <2>4. \A c \in Children : inbox[c] \subseteq inbox'[c]
    BY <1>1, <2>1 DEF Inv, ClientInv, ClientTypeOK
  <2>5. r \in inbox'[child]
    BY <1>1, <2>1 DEF Inv, ClientInv, ClientTypeOK
  <2>6. \A q \in Requests : Somewhere(q) => Somewhere(q)'
    BY <1>1, <2>4 DEF Somewhere, Up
  <2>7. Somewhere(r)'
    BY <1>1, <1>3, <2>5 DEF Somewhere, Up
  <2>8. \A q \in Requests \ {r} : request'[q] = request[q]
    BY <2>1 DEF Inv, ClientInv, ClientTypeOK
  <2>9. Kept'
    BY <2>6, <2>7, <2>8 DEF Kept, Inv, ClientInv
  <2> QED BY <1>2, <2>2, <2>3, <2>9 DEF Inv, ClientInv
<1>4. CASE ~Up(child)
  <2>1. /\ UNCHANGED inbox
        /\ request' \in {[request EXCEPT ![r] = "pending"], [request EXCEPT ![r] = "rejected"]}
    BY <1>1, <1>4 DEF Send, SendTo, Up
  <2>2. ClientTypeOK'
    BY <1>1, <2>1 DEF Inv, ClientInv, ClientTypeOK
  <2>3. UpIsUsed' /\ ChildIsForked' /\ Unborn' /\ TakenOn'
    BY <1>1, <2>1 DEF Inv, ClientInv, UpIsUsed, ChildIsForked, Unborn, TakenOn, Up, poolVars
  <2>4. process'[child] = "dead"
    BY <1>1, <1>4, ClientAssumption DEF Inv, ClientInv, ChildIsForked, Up, Children
  <2>5. Kept'
    BY <1>1, <2>4 DEF Kept, Somewhere
  <2> QED BY <1>2, <2>2, <2>3, <2>5 DEF Inv, ClientInv
<1> QED BY <1>3, <1>4

LEMMA ForkStep ==
  ASSUME Inv, NEW r \in Requests, Fork(r)
  PROVE  Inv'
<1>1. PICK c \in Children :
        /\ process[c] = "none"
        /\ process' = [process EXCEPT ![c] = "up"]
        /\ connected' = [connected EXCEPT ![c] = TRUE]
        /\ child' = c
        /\ SendTo(c, r)
  BY DEF Fork
<1>2. /\ request[r] = "new" /\ ~(child # 0 /\ connected[child]) /\ pool' = EmptyPool
      /\ UNCHANGED <<capacity, proxy, trouble, executing, replies>>
  BY DEF Fork, Usable
<1>3. PoolInv'
  BY <1>2, NewPool DEF Inv
<1>4. /\ c # 0 /\ c \in 0..MaxChildren
      /\ process'[c] = "up" /\ \A d \in Children \ {c} : process'[d] = process[d]
  BY <1>1, ClientAssumption DEF Inv, ClientInv, ClientTypeOK, Children
<1>5. /\ request' = [request EXCEPT ![r] = "pending"]
      /\ inbox' = [inbox EXCEPT ![c] = @ \cup {r}]
  BY <1>1, <1>4 DEF SendTo
<1>6. ClientTypeOK'
  BY <1>1, <1>2, <1>4, <1>5 DEF Inv, ClientInv, ClientTypeOK
<1>7. \A d \in Children : ~Up(d)
  BY <1>2, ClientAssumption DEF Inv, ClientInv, UpIsUsed, Children
<1>8. UpIsUsed' /\ ChildIsForked'
  BY <1>1, <1>4, <1>6, <1>7 DEF Inv, ClientInv, ClientTypeOK, UpIsUsed, ChildIsForked, Up
<1>9. Unborn'
  BY <1>1, <1>2, <1>4, <1>5 DEF Inv, ClientInv, ClientTypeOK, Unborn
<1>10. TakenOn'
  BY <1>1, <1>2, <1>4, <1>7 DEF Inv, ClientInv, Unborn, TakenOn, Up
<1>11. \A q \in Requests : Somewhere(q) => Somewhere(q)'
  BY <1>1, <1>2, <1>4, <1>7 DEF Somewhere, Up
<1>12. r \in inbox'[c]
  BY <1>5 DEF Inv, ClientInv, ClientTypeOK
<1>13. Somewhere(r)'
  BY <1>4, <1>12 DEF Somewhere, Up
<1>14. \A q \in Requests \ {r} : request'[q] = request[q]
  BY <1>5 DEF Inv, ClientInv, ClientTypeOK
<1>15. Kept'
  BY <1>11, <1>13, <1>14 DEF Kept, Inv, ClientInv
<1> QED BY <1>3, <1>6, <1>8, <1>9, <1>10, <1>15 DEF Inv, ClientInv

LEMMA DeliverStep ==
  ASSUME Inv, NEW r \in Requests, NEW answer \in {"resolved", "rejected"}, Deliver(r, answer)
  PROVE  Inv'
<1>1. /\ replies' = replies \ {<<r, answer>>}
      /\ request' = [request EXCEPT ![r] = IF @ = "pending" THEN answer ELSE @]
      /\ UNCHANGED <<poolVars, child, connected, process, inbox, executing>>
  BY DEF Deliver
<1>2. PoolInv'
  BY <1>1, PoolUnchanged, PoolSettings DEF Inv, poolVars
<1>3. ClientTypeOK'
  BY <1>1 DEF Inv, ClientInv, ClientTypeOK
<1>4. UpIsUsed' /\ ChildIsForked' /\ Unborn' /\ TakenOn'
  BY <1>1 DEF Inv, ClientInv, UpIsUsed, ChildIsForked, Unborn, TakenOn, Up, poolVars
<1>5. request'[r] # "pending" /\ \A q \in Requests \ {r} : request'[q] = request[q]
  BY <1>1 DEF Inv, ClientInv, ClientTypeOK
<1>6. \A q \in Requests \ {r} : Somewhere(q) => Somewhere(q)'
  BY <1>1 DEF Somewhere, Up
<1>7. Kept'
  BY <1>5, <1>6 DEF Kept, Inv, ClientInv
<1> QED BY <1>2, <1>3, <1>4, <1>7 DEF Inv, ClientInv

\* A step that leaves a child dying, and nobody new up, keeps every request.
LEMMA DyingKeeps ==
  ASSUME Inv, PoolInv', ClientTypeOK', UNCHANGED <<inbox, executing>>,
         \A c \in Children : Up(c)' => Up(c) /\ child' = child /\ connected'[c] = connected[c],
         Tends, ChildIsForked',
         \A c \in Children : process'[c] = "none" => process[c] = "none",
         Kept'
  PROVE  Inv'
<1>1. UpIsUsed' /\ Unborn'
  BY DEF Inv, ClientInv, UpIsUsed, Unborn
<1>2. \A c \in Children : \A t \in executing[c] : t \notin Plain => t \in Tasks
  BY DEF Inv, ClientInv, ClientTypeOK, Requests
<1>3. TakenOn'
  BY <1>2 DEF Inv, ClientInv, TakenOn, Tends
<1> QED BY <1>1, <1>3 DEF Inv, ClientInv

LEMMA SeeDisconnectStep ==
  ASSUME Inv, NEW c \in Children, SeeDisconnect(c)
  PROVE  Inv'
<1>1. /\ process[c] = "dead" /\ connected' = [connected EXCEPT ![c] = FALSE]
      /\ UNCHANGED <<poolVars, child, request, process, inbox, executing, replies>>
  BY DEF SeeDisconnect
<1>2. PoolInv' /\ Tends
  BY <1>1, PoolUnchanged, PoolSettings DEF Inv, poolVars
<1>3. ClientTypeOK' /\ ChildIsForked' /\ Kept'
  BY <1>1 DEF Inv, ClientInv, ClientTypeOK, ChildIsForked, Kept, Somewhere, Up
<1>4. \A d \in Children : Up(d)' => Up(d) /\ connected'[d] = connected[d]
  BY <1>1 DEF Inv, ClientInv, ClientTypeOK, Up
<1> QED BY <1>1, <1>2, <1>3, <1>4, DyingKeeps

LEMMA SeeExitStep ==
  ASSUME Inv, NEW c \in Children, SeeExit(c)
  PROVE  Inv'
<1>1. /\ process[c] = "dead"
      /\ process' = [process EXCEPT ![c] = "gone"]
      /\ connected' = [connected EXCEPT ![c] = FALSE]
      /\ child' = IF child = c THEN 0 ELSE child
      /\ request' = [r \in Requests |-> IF request[r] = "pending" THEN "rejected" ELSE request[r]]
      /\ UNCHANGED <<poolVars, inbox, executing, replies>>
  BY DEF SeeExit, ForgetChild, RejectAll
<1>2. PoolInv' /\ Tends
  BY <1>1, PoolUnchanged, PoolSettings DEF Inv, poolVars
<1>3. ClientTypeOK'
  BY <1>1, ClientAssumption DEF Inv, ClientInv, ClientTypeOK
<1>4. ChildIsForked'
  BY <1>1, ChildIsAChild DEF Inv, ClientInv, ClientTypeOK, ChildIsForked
<1>5. Kept'
  BY <1>1 DEF Kept
<1>6. \A d \in Children : /\ Up(d)' => Up(d) /\ child' = child /\ connected'[d] = connected[d]
                          /\ process'[d] = "none" => process[d] = "none"
  BY <1>1 DEF Inv, ClientInv, ClientTypeOK, UpIsUsed, Up
<1> QED BY <1>1, <1>2, <1>3, <1>4, <1>5, <1>6, DyingKeeps

LEMMA CloseClientStep ==
  ASSUME Inv, CloseClient
  PROVE  Inv'
<1>1. /\ child \in Children /\ Trouble /\ child' = 0
      /\ process' = [process EXCEPT ![child] = IF @ = "up" THEN "stopping" ELSE @]
      /\ UNCHANGED <<pool, capacity, proxy, connected, request, inbox, executing, replies>>
  BY ChildIsAChild DEF CloseClient, Inv, ClientInv
<1>2. PoolInv' /\ Tends
  BY <1>1, PoolUnchanged, PoolSettings DEF Inv
<1>3. ClientTypeOK'
  BY <1>1, ClientAssumption DEF Inv, ClientInv, ClientTypeOK
<1>4. process'[child] \in {"stopping", "dead"}
  BY <1>1, ClientAssumption DEF Inv, ClientInv, ClientTypeOK, ChildIsForked, Children
<1>5. Kept' /\ ChildIsForked'
  BY <1>1, <1>4 DEF Kept, Somewhere, ChildIsForked
<1>6. \A d \in Children : ~Up(d)' /\ (process'[d] = "none" => process[d] = "none")
  BY <1>1, <1>4 DEF Inv, ClientInv, ClientTypeOK, UpIsUsed, Up
<1> QED BY <1>1, <1>2, <1>3, <1>5, <1>6, DyingKeeps

\* The end of a child: of its own accord, by a crash, or because it was told.
LEMMA EndStep ==
  ASSUME Inv, NEW c \in Children, IdleExit(c) \/ ChildCrashes(c) \/ ShutDown(c)
  PROVE  Inv'
<1>1. /\ process[c] \in {"up", "stopping"} /\ process' = [process EXCEPT ![c] = "dead"]
      /\ UNCHANGED <<pool, capacity, proxy, clientVars, inbox, executing>>
      /\ UNCHANGED trouble \/ Trouble
  BY DEF IdleExit, ChildCrashes, ShutDown, Up, poolVars
<1>2. PoolInv' /\ Tends
  BY <1>1, PoolUnchanged, PoolSettings DEF Inv
<1>3. replies' \subseteq Requests \X {"resolved", "rejected"}
  BY DEF IdleExit, ChildCrashes, ShutDown, Inv, ClientInv, ClientTypeOK
<1>4. ClientTypeOK'
  BY <1>1, <1>3 DEF Inv, ClientInv, ClientTypeOK, clientVars
<1>5. process'[c] = "dead" /\ \A d \in Children \ {c} : process'[d] = process[d]
  BY <1>1 DEF Inv, ClientInv, ClientTypeOK
<1>6. Kept'
  BY <1>5 DEF Kept, Somewhere
<1>7. ChildIsForked'
  BY <1>1, <1>5, ChildIsAChild DEF Inv, ClientInv, ChildIsForked, clientVars
<1>8. \A d \in Children : /\ Up(d)' => Up(d) /\ child' = child /\ connected'[d] = connected[d]
                          /\ process'[d] = "none" => process[d] = "none"
  BY <1>1, <1>5 DEF Up, clientVars
<1> QED BY <1>1, <1>2, <1>4, <1>6, <1>7, <1>8, DyingKeeps

LEMMA ReceiveStep ==
  ASSUME Inv, NEW c \in Children, NEW r \in Requests, Receive(c, r)
  PROVE  Inv'
<1>1. /\ Up(c) /\ UNCHANGED <<clientVars, process, replies>> /\ r \in inbox[c]
      /\ inbox' = [inbox EXCEPT ![c] = @ \ {r}]
      /\ executing' = [executing EXCEPT ![c] = @ \cup {r}]
  BY DEF Receive, OfChild
<1>2. PoolInv' /\ Tends /\ (r \in Tasks => Tended(pool', r))
  <2>1. CASE r \in Tasks
    BY <2>1, UseStep DEF Receive, Inv
  <2>2. CASE r \notin Tasks
    BY <2>2, PoolUnchanged, PoolSettings DEF Receive, Inv, poolVars
  <2> QED BY <2>1, <2>2
<1>3. ClientTypeOK'
  BY <1>1 DEF Inv, ClientInv, ClientTypeOK, clientVars
<1>4. UpIsUsed' /\ ChildIsForked'
  BY <1>1 DEF Inv, ClientInv, UpIsUsed, ChildIsForked, Up, clientVars
<1>5. \A d \in Children : d # c => inbox'[d] = inbox[d] /\ executing'[d] = executing[d]
  BY <1>1 DEF Inv, ClientInv, ClientTypeOK
<1>6. inbox'[c] = inbox[c] \ {r} /\ executing'[c] = executing[c] \cup {r}
  BY <1>1 DEF Inv, ClientInv, ClientTypeOK
<1>7. Unborn'
  BY <1>1, <1>5 DEF Inv, ClientInv, Unborn, Up
<1>8. \A d \in Children : \A t \in executing'[d] : t \notin Plain => t \in Tasks
  BY <1>3 DEF ClientTypeOK, Requests
<1>9. TakenOn'
  BY <1>1, <1>2, <1>5, <1>6, <1>8 DEF Inv, ClientInv, TakenOn, Tends, Up
<1>10. \A q \in Requests : Somewhere(q) => Somewhere(q)'
  BY <1>1, <1>5, <1>6 DEF Somewhere, Up
<1>11. Kept'
  BY <1>1, <1>10 DEF Inv, ClientInv, Kept, clientVars
<1> QED BY <1>2, <1>3, <1>4, <1>7, <1>9, <1>11 DEF Inv, ClientInv

LEMMA AnswerStep ==
  ASSUME Inv, NEW c \in Children, NEW r \in Requests, Answer(c, r)
  PROVE  Inv'
<1>1. /\ Up(c) /\ UNCHANGED <<clientVars, process, inbox>> /\ r \in executing[c]
      /\ executing' = [executing EXCEPT ![c] = @ \ {r}]
      /\ UNCHANGED <<capacity, proxy, trouble>>
  BY DEF Answer, OfChild
<1>2. /\ PoolInv'
      /\ \A u \in Tasks \ {r} : Tended(pool, u) => Tended(pool', u)
  <2>1. CASE r \in Plain
    BY <1>1, <2>1, PoolUnchanged, PoolSettings DEF Answer, Inv, Tends
  <2>2. CASE r \notin Plain
    BY <1>1, <2>2, AnswerKeepsPool DEF Answer, Inv, Requests
  <2> QED BY <2>1, <2>2
<1>3. PICK answer \in {"resolved", "rejected"} : replies' = replies \cup {<<r, answer>>}
  BY DEF Answer
<1>4. ClientTypeOK'
  BY <1>1, <1>3 DEF Inv, ClientInv, ClientTypeOK, clientVars
<1>5. UpIsUsed' /\ ChildIsForked'
  BY <1>1 DEF Inv, ClientInv, UpIsUsed, ChildIsForked, Up, clientVars
<1>6. \A d \in Children : d # c => executing'[d] = executing[d]
  BY <1>1 DEF Inv, ClientInv, ClientTypeOK
<1>7. executing'[c] = executing[c] \ {r}
  BY <1>1 DEF Inv, ClientInv, ClientTypeOK
<1>8. Unborn'
  BY <1>1, <1>6 DEF Inv, ClientInv, Unborn, Up
<1>9. \A d \in Children : \A t \in executing'[d] : t \notin Plain => t \in Tasks
  BY <1>4 DEF ClientTypeOK, Requests
<1>10. \A d \in Children : Up(d) => d = c
  BY <1>1 DEF Inv, ClientInv, UpIsUsed
<1>11. TakenOn'
  BY <1>1, <1>2, <1>7, <1>9, <1>10 DEF Inv, ClientInv, TakenOn, Up
<1>12. \A q \in Requests \ {r} : Somewhere(q) => Somewhere(q)'
  BY <1>1, <1>3, <1>6, <1>7 DEF Somewhere, Up
<1>13. Somewhere(r)'
  BY <1>3 DEF Somewhere
<1>14. Kept'
  BY <1>1, <1>12, <1>13 DEF Inv, ClientInv, Kept, clientVars
<1> QED BY <1>2, <1>4, <1>5, <1>8, <1>11, <1>14 DEF Inv, ClientInv

LEMMA InPoolStep ==
  ASSUME Inv, InPool(PoolNext) \/ InPool(ChangeProxy)
  PROVE  Inv'
<1>1. UNCHANGED <<clientVars, process, inbox, executing, replies>>
  BY DEF InPool
<1>2. PoolInv' /\ Tends
  <2>1. CASE PoolNext
    BY <2>1, PoolStep DEF Inv
  <2>2. CASE ChangeProxy
    BY <2>2, PoolUnchanged, PoolSettings DEF ChangeProxy, Inv
  <2> QED BY <2>1, <2>2 DEF InPool
<1>3. ClientTypeOK' /\ ChildIsForked' /\ Kept'
  BY <1>1 DEF Inv, ClientInv, ClientTypeOK, ChildIsForked, Kept, Somewhere, Up, clientVars
<1> QED BY <1>1, <1>2, <1>3, DyingKeeps DEF Up, clientVars

-----------------------------------------------------------------------------
(* The theorems.                                                           *)

LEMMA NextInv == Inv /\ [ExecutorNext]_executorVars => Inv'
<1> SUFFICES ASSUME Inv, [ExecutorNext]_executorVars PROVE Inv'
  OBVIOUS
<1>1. ASSUME NEW r \in Requests, Send(r) \/ Fork(r) PROVE Inv'
  BY <1>1, SendStep, ForkStep
<1>2. ASSUME NEW r \in Requests, NEW answer \in {"resolved", "rejected"}, Deliver(r, answer)
      PROVE  Inv'
  BY <1>2, DeliverStep
<1>3. ASSUME NEW c \in Children,
             SeeDisconnect(c) \/ SeeExit(c) \/ IdleExit(c) \/ ChildCrashes(c) \/ ShutDown(c)
      PROVE  Inv'
  BY <1>3, SeeDisconnectStep, SeeExitStep, EndStep
<1>4. ASSUME NEW c \in Children, NEW r \in Requests, Receive(c, r) \/ Answer(c, r) PROVE Inv'
  BY <1>4, ReceiveStep, AnswerStep
<1>5. CASE CloseClient \/ InPool(PoolNext) \/ InPool(ChangeProxy)
  BY <1>5, CloseClientStep, InPoolStep
<1>6. CASE UNCHANGED executorVars
  <2>1. PoolInv' /\ Tends
    BY <1>6, PoolUnchanged, PoolSettings DEF Inv, executorVars, poolVars
  <2>2. ClientInv'
    BY <1>6 DEF Inv, ClientInv, ClientTypeOK, UpIsUsed, ChildIsForked, Unborn, TakenOn, Kept,
                Somewhere, Up, executorVars, poolVars, clientVars
  <2> QED BY <2>1, <2>2 DEF Inv
<1> QED BY <1>1, <1>2, <1>3, <1>4, <1>5, <1>6 DEF ExecutorNext

LEMMA SpecInv == ExecutorSpec => []Inv
BY ExecutorInitInv, NextInv, PTL DEF ExecutorSpec

(* Every variable of the client, the children and the pool keeps its type, *)
(* whatever the children and Chromium go through (web-executor-client.ts,  *)
(* browser-pool.ts).                                                       *)
THEOREM TypeCorrect == ExecutorSpec => []ExecutorTypeOK
<1>1. Inv => ExecutorTypeOK
  BY DEF Inv, PoolInv, ClientInv, ClientTypeOK, ExecutorTypeOK
<1> QED BY <1>1, SpecInv, PTL

(* No Chromium runs that the pool does not know, for any number of tasks   *)
(* and of browsers (browser-pool.ts:29).                                   *)
THEOREM NoBrowserEverLeaks == ExecutorSpec => []NoBrowserLeaks
<1>1. Inv => NoBrowserLeaks
  BY DEF Inv, PoolInv, Sound, Known, NoBrowserLeaks
<1> QED BY <1>1, SpecInv, PTL

(* Recycling waits for the pages, for any number of tasks: the ones that   *)
(* run at the same time, and the ones the queue gives way to               *)
(* (browser-pool.ts:89).                                                   *)
THEOREM PagesAreUndisturbed == ExecutorSpec => []NeverRecycledUnderAPage
<1>1. Inv => NeverRecycledUnderAPage
  BY DEF Inv, PoolInv, Sound, Undisturbed, NeverRecycledUnderAPage
<1> QED BY <1>1, SpecInv, PTL

(* A request that waits has someone who will settle it, for any number of  *)
(* requests and children, and however long the queue of the pool           *)
(* (web-executor-client.ts:102, browser-pool.ts:29).                       *)
THEOREM NobodyIsForgotten == ExecutorSpec => []NoRequestIsForgotten
<1>1. ASSUME Inv, NEW c \in Children, Up(c), NEW r \in executing[c], r \notin Plain
      PROVE  UnderWay(r)
  <2>1. r \in Tasks /\ Tended(pool, r)
    BY <1>1 DEF Inv, ClientInv, ClientTypeOK, TakenOn, Requests
  <2>2. pool.phase[r] \in Phases
    BY <1>1, <2>1, PoolSettings DEF Inv, Pool
  <2>3. CASE pool.phase[r] = "queued"
    <3>1. pool.queue # <<>>
      BY <1>1, <2>1, <2>3 DEF Inv, PoolInv, Sound, InQueue
    <3> QED BY <1>1, <2>3, <3>1 DEF Inv, PoolInv, Served, UnderWay
  <2>4. CASE pool.phase[r] # "queued"
    BY <1>1, <2>1, <2>2, <2>4
    DEF Inv, PoolInv, Sound, LaunchAwaited, Tended, UnderWay, Phases, Running
  <2> QED BY <2>3, <2>4
<1>2. Inv => NoRequestIsForgotten
  <2> SUFFICES ASSUME Inv, NEW r \in Requests, request[r] = "pending",
                      ~\E c \in Children : process[c] \in {"stopping", "dead"},
                      ~\E answer \in {"resolved", "rejected"} : <<r, answer>> \in replies
               PROVE  \E c \in Children :
                        Up(c) /\ (r \in inbox[c] \/ (r \in executing[c] /\ (r \in Plain \/ UnderWay(r))))
    BY DEF NoRequestIsForgotten
  <2>1. PICK c \in Children : Up(c) /\ r \in inbox[c] \cup executing[c]
    BY DEF Inv, ClientInv, Kept, Somewhere
  <2> QED BY <1>1, <2>1
<1> QED BY <1>2, SpecInv, PTL

=============================================================================

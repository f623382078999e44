--------------------------- MODULE TestCaseProofs ---------------------------
(***************************************************************************)
(* Proofs about TestCase, for every set of devices, lines and scripts and  *)
(* every repeat count.                                                     *)
(***************************************************************************)
EXTENDS TestCase, TLAPS, FiniteSetTheorems, SequenceTheorems

(* A step list loses one element and stays a step list. *)
LEMMA RemoveAtType ==
    ASSUME NEW S, NEW s \in Seq(S), NEW i \in 1..Len(s)
    PROVE  RemoveAt(s, i) \in Seq(S)
BY DEF RemoveAt

(* Where __next_stage comes to rest, and what it queues on the way. *)
LEMMA LandingType ==
    ASSUME stage \in Stages, NEW v \in Verdicts
    PROVE  /\ Landing(v) \in Phases \cup {"DONE"}
           /\ Hops(v, Landing(v)) \in 0..4
BY DEF Landing, LandSetup, LandTest, LandTeardown, Hops, Rank, Stages, Phases

(* n calls of __next_step are a sequence of queue items. *)
LEMMA TokensType ==
    ASSUME NEW n \in 0..4
    PROVE  [i \in 1..n |-> NextStep] \in Seq(Items)
BY DEF Items

(* __next_stage keeps the types of what it changes. *)
LEMMA NextStageType ==
    ASSUME TypeOK, NEW v \in Verdicts, NEW rest \in Seq(StepIds),
           NEW q \in Seq(Items), GoNextStage(v, rest, q)
    PROVE  /\ stage' \in Stages /\ verdict' \in Verdicts
           /\ steps' \in Seq(StepIds) /\ queue' \in Seq(Items)
           /\ armed' \in Timers \cup {NoTimer}
<1> DEFINE to == Landing(v)
<1>1. to \in Phases \cup {"DONE"} /\ Hops(v, to) \in 0..4
  BY LandingType DEF TypeOK
<1>2. [i \in 1..Hops(v, to) |-> NextStep] \in Seq(Items)
  BY <1>1, TokensType
<1>3. <<Quit>> \in Seq(Items) /\ <<>> \in Seq(Items)
  BY DEF Items
<1>4. queue' \in Seq(Items)
  <2> DEFINE toks == [i \in 1..Hops(v, to) |-> NextStep]
  <2> DEFINE qt == QuitAt(to)
  <2>1. qt \in Seq(Items) /\ toks \in Seq(Items)
    BY <1>2, <1>3 DEF QuitAt
  <2>2. queue' = q \o qt \o toks
    BY DEF GoNextStage
  <2> HIDE DEF toks, qt
  <2> QED BY <2>1, <2>2
<1>5. to # "DONE" => script[to] \in Seq(StepIds)
  BY <1>1, ConstantsAssumption DEF TypeOK
<1>6. to # "DONE" => [attempt |-> attempt, stage |-> to] \in Timers
  BY <1>1 DEF TypeOK, Timers
<1> QED
  BY <1>1, <1>4, <1>5, <1>6 DEF GoNextStage, TimerOf, Stages, Phases, Verdicts

(* __fail keeps the types. *)
LEMMA FailType ==
    ASSUME TypeOK, NEW why \in Reasons, NEW q \in Seq(Items), GoFail(why, q)
    PROVE  /\ stage' \in Stages /\ verdict' \in Verdicts /\ reason' \in Reasons
           /\ steps' \in Seq(StepIds) /\ queue' \in Seq(Items)
           /\ armed' \in Timers \cup {NoTimer}
<1>1. "FAIL" \in Verdicts /\ <<>> \in Seq(StepIds)
  BY DEF Verdicts
<1>2. GoNextStage("FAIL", <<>>, q) /\ reason' = why
  BY DEF GoFail
<1> QED BY <1>1, <1>2, NextStageType

(* So does __remove_step of a step that is there. *)
LEMMA RemoveStepType ==
    ASSUME TypeOK, NEW i \in 1..Len(steps), GoRemoveStep(i, queue)
    PROVE  /\ stage' \in Stages /\ verdict' \in Verdicts
           /\ steps' \in Seq(StepIds) /\ queue' \in Seq(Items)
           /\ armed' \in Timers \cup {NoTimer}
           /\ performed' \in Seq(StepIds)
<1> DEFINE rest == RemoveAt(steps, i)
<1>1. rest \in Seq(StepIds)
  BY RemoveAtType DEF TypeOK
<1>2. steps[i] \in StepIds /\ performed' = Append(performed, steps[i])
  BY DEF TypeOK, GoRemoveStep
<1>3. performed' \in Seq(StepIds)
  BY <1>2 DEF TypeOK
<1>4. NextStep \in Items
  BY DEF Items
<1>5. CASE rest = <<>>
  <2>1. GoNextStage(verdict, rest, queue)
    BY <1>5 DEF GoRemoveStep, Without
  <2> QED BY <1>1, <1>3, <2>1, NextStageType DEF TypeOK
<1>6. CASE rest # <<>>
  <2>1. /\ steps' = rest /\ queue' = Append(queue, NextStep)
        /\ UNCHANGED <<stage, verdict, armed>>
    BY <1>6 DEF GoRemoveStep, Without, Requeue
  <2> QED BY <1>1, <1>3, <1>4, <2>1 DEF TypeOK
<1> QED BY <1>5, <1>6

(* Going over the monitors starts with a set of them and its size. *)
LEMMA MonitorsType ==
    ASSUME TypeOK, ToMonitors
    PROVE  /\ pc' \in PCs /\ at' \in Nat
           /\ iter' \in [todo: SUBSET Monitors, size: Nat]
<1>1. DOMAIN monitors \subseteq Monitors
  BY DEF TypeOK, PartialFcn
<1>2. Cardinality(DOMAIN monitors) \in Nat
  BY <1>1, ConstantsAssumption, FS_Subset, FS_CardinalityType
<1> QED BY <1>1, <1>2 DEF ToMonitors, PCs, Running

(* No monitors at all is a monitors dict. *)
LEMMA EmptyMonitors == << >> \in PartialFcn(Monitors, Sources)
<1>1. << >> \in [{} -> Sources]
  OBVIOUS
<1> QED BY <1>1 DEF PartialFcn

(* The initial states satisfy the type invariant and LocalsOK, which says  *)
(* what the program counter tells of the locals.                           *)
LEMMA TypeInit == Init => TypeOK /\ LocalsOK
<1> SUFFICES ASSUME Init PROVE TypeOK /\ LocalsOK
  OBVIOUS
<1>1. data \in [StepIds -> Seq(SUBSET Lines)]
  BY ConstantsAssumption DEF Init, StepInfo
<1>2. monitors \in PartialFcn(Monitors, Sources)
  BY EmptyMonitors DEF Init
<1>3. mainloop \in BOOLEAN /\ reported \in BOOLEAN /\ cut \in BOOLEAN
  BY DEF Init
<1>4. /\ queue \in Seq(Items) /\ steps \in Seq(StepIds)
      /\ performed \in Seq(StepIds)
  BY DEF Init
<1>5. attempt \in 1..Attempts /\ lines \in 0..MaxLines /\ calls \in 0..MaxCalls
  BY ConstantsAssumption DEF Init
<1>6. /\ reader \in [Sources -> {"none", "reading", "stopping", "dead"}]
      /\ iter \in [todo: SUBSET Monitors, size: Nat]
  BY DEF Init
<1> QED
  BY <1>1, <1>2, <1>3, <1>4, <1>5, <1>6
  DEF Init, TypeOK, LocalsOK, Stages, Verdicts, Reasons, PCs, Running

(* The steps of Test.run and of the repeat loop keep the types. *)
LEMMA TypeRunFrame ==
    ASSUME TypeOK, LocalsOK, RunFrame
    PROVE  TypeOK' /\ LocalsOK'
<1> USE DEF TypeOK, LocalsOK, Stages, Verdicts, Reasons, PCs, Running,
            InCallback, vars, phaseVars, loopVars, timerVars, threadVars, local,
            books, budget, history
<1>1. CASE Skip
  BY <1>1 DEF Skip
<1>2. CASE Begin
  <2>1. mainloop' \in BOOLEAN /\ reported' \in BOOLEAN /\ cut' \in BOOLEAN
    BY <1>2 DEF Begin
  <2>2. queue' \in Seq(Items) /\ performed' \in Seq(StepIds)
    BY <1>2 DEF Begin
  <2> QED BY <1>2, <2>1, <2>2 DEF Begin
<1>3. CASE OpenFails
  BY <1>3 DEF OpenFails
<1>4. CASE EnterLoop
  <2>1. NextStep \in Items
    BY DEF Items
  <2> QED BY <1>4, <2>1, EmptyMonitors DEF EnterLoop
<1>5. CASE \E d \in Devices : OpenDevice(d)
  <2>1. PICK d \in Devices : OpenDevice(d)
    BY <1>5
  <2>2. opened' \subseteq Devices
    BY <2>1 DEF OpenDevice
  <2>3. reader' \in [Sources -> {"none", "reading", "stopping", "dead"}]
    BY <2>1 DEF OpenDevice
  <2>4. /\ UNCHANGED <<phaseVars, loopVars, timerVars, procs, orphans, pc, local,
                        books>>
        /\ pc = "opening"
    BY <2>1 DEF OpenDevice
  <2> QED BY <2>2, <2>3, <2>4
<1>6. CASE \E d \in Devices : StopDevice(d)
  BY <1>6 DEF StopDevice, StopReader, Sources
<1>7. CASE \E p \in Processes : StopLeftProcess(p)
  BY <1>7 DEF StopLeftProcess, StopReader, Sources
<1>8. CASE Cleanup
  BY <1>8, EmptyMonitors DEF Cleanup
<1>9. CASE CloseDevice
  BY <1>9 DEF CloseDevice
<1>10. CASE LeftProcessStopped
  BY <1>10 DEF LeftProcessStopped
<1>11. CASE RunReturns
  <2>1. mainloop' \in BOOLEAN
    BY <1>11 DEF RunReturns
  <2>2. queue' \in Seq(Items)
    BY <1>11 DEF RunReturns
  <2> QED BY <1>11, <2>1, <2>2 DEF RunReturns
<1>12. CASE Repeat
  BY <1>12, ConstantsAssumption DEF Repeat, MoreAttempts
<1>13. CASE Finish
  BY <1>13 DEF Finish
<1>14. CASE HandleException
  <2>1. GoFail("exception", queue)
    BY <1>14 DEF HandleException
  <2>2. /\ stage' \in Stages /\ verdict' \in Verdicts /\ reason' \in Reasons
        /\ steps' \in Seq(StepIds) /\ queue' \in Seq(Items)
        /\ armed' \in Timers \cup {NoTimer}
    BY <2>1, FailType
  <2>3. iter' \in [todo: SUBSET Monitors, size: Nat] /\ cut' \in BOOLEAN
    BY <1>14 DEF HandleException, Cut
  <2> QED BY <1>14, <2>1, <2>2, <2>3 DEF HandleException
<1> QED
  BY <1>1, <1>2, <1>3, <1>4, <1>5, <1>6, <1>7, <1>8, <1>9, <1>10, <1>11,
     <1>12, <1>13, <1>14 DEF RunFrame

(* The queue without its first item, when it has one. *)
LEMMA TailType ==
    ASSUME TypeOK, queue # <<>>
    PROVE  Tail(queue) \in Seq(Items) /\ Head(queue) \in Items
BY DEF TypeOK

(* What a callback at the head of the queue carries. *)
LEMMA HeadType ==
    ASSUME TypeOK, queue # <<>>
    PROVE  /\ Head(queue).kind = "fail" => Head(queue).reason \in Reasons
           /\ Head(queue).kind = "event" => Head(queue).event \in Events
BY TailType DEF Items, NextStep, Quit, Reasons

(* The main loop keeps the types. *)
LEMMA TypeMainLoop ==
    ASSUME TypeOK, LocalsOK, MainLoop
    PROVE  TypeOK' /\ LocalsOK'
<1> USE DEF TypeOK, LocalsOK, Stages, Verdicts, Reasons, PCs, Running,
            InCallback, vars, phaseVars, loopVars, timerVars, threadVars, local,
            books, budget, history
<1>1. CASE RunNextStepEmpty
  <2>1. GoNextStage(verdict, steps, Tail(queue)) /\ Tail(queue) \in Seq(Items)
    BY <1>1, TailType DEF RunNextStepEmpty, AtHead
  <2>2. /\ stage' \in Stages /\ verdict' \in Verdicts
        /\ steps' \in Seq(StepIds) /\ queue' \in Seq(Items)
        /\ armed' \in Timers \cup {NoTimer}
    BY <2>1, NextStageType
  <2> QED BY <1>1, <2>2 DEF RunNextStepEmpty, AtHead
<1>2. CASE RunNextStepWait
  BY <1>2, TailType, SMTT(60) DEF RunNextStepWait, AtHead
<1>3. CASE RunNextStepAct
  BY <1>3, TailType DEF RunNextStepAct, AtHead
<1>4. CASE StepActed
  <2>1. GoRemoveStep(1, queue) /\ 1 \in 1..Len(steps)
    BY <1>4 DEF StepActed
  <2>2. /\ stage' \in Stages /\ verdict' \in Verdicts
        /\ steps' \in Seq(StepIds) /\ queue' \in Seq(Items)
        /\ armed' \in Timers \cup {NoTimer} /\ performed' \in Seq(StepIds)
    BY <2>1, RemoveStepType
  <2> QED BY <1>4, <2>2 DEF StepActed
<1>5. CASE RunFail
  <2>1. /\ GoFail(Head(queue).reason, Tail(queue))
        /\ Tail(queue) \in Seq(Items) /\ Head(queue).reason \in Reasons
    BY <1>5, TailType, HeadType DEF RunFail, AtHead
  <2>2. /\ stage' \in Stages /\ verdict' \in Verdicts /\ reason' \in Reasons
        /\ steps' \in Seq(StepIds) /\ queue' \in Seq(Items)
        /\ armed' \in Timers \cup {NoTimer}
    BY <2>1, FailType
  <2>3. cut' \in BOOLEAN
    BY <1>5 DEF RunFail, Cut
  <2> QED BY <1>5, <2>2, <2>3 DEF RunFail, AtHead
<1>6. CASE RunQuit
  BY <1>6 DEF RunQuit, AtHead
<1>7. CASE RunEvent
  BY <1>7, TailType, HeadType DEF RunEvent, AtHead
<1> QED BY <1>1, <1>2, <1>3, <1>4, <1>5, <1>6, <1>7 DEF MainLoop

(* A list that is not empty loses its first string and stays a list. *)
LEMMA ConsumedType ==
    ASSUME TypeOK, NEW i \in 1..Len(steps),
           Info[steps[i]].kind # "msg" => data[steps[i]] # <<>>
    PROVE  Consumed(i) \in [StepIds -> Seq(SUBSET Lines)]
<1>1. steps[i] \in StepIds /\ data[steps[i]] \in Seq(SUBSET Lines)
  BY DEF TypeOK
<1>2. Info[steps[i]].kind = "list" => Tail(data[steps[i]]) \in Seq(SUBSET Lines)
  BY <1>1
<1> QED BY <1>1, <1>2 DEF Consumed, TypeOK

(* __process_event keeps the types. *)
LEMMA TypeProcessEvent ==
    ASSUME TypeOK, LocalsOK, ProcessEvent
    PROVE  TypeOK' /\ LocalsOK'
<1> USE DEF TypeOK, LocalsOK, Stages, Verdicts, Reasons, PCs, Running,
            InCallback, vars, phaseVars, loopVars, timerVars, threadVars, local,
            books, budget, history
<1>1. CASE NoMatch
  <2>1. ToMonitors BY <1>1 DEF NoMatch
  <2> QED BY <1>1, <2>1, MonitorsType DEF NoMatch, ToMonitors
<1>2. CASE MatchAccepted
  <2>1. /\ GoRemoveStep(at, queue) /\ ToMonitors /\ at \in 1..Len(steps)
        /\ data' \in [StepIds -> Seq(SUBSET Lines)]
    BY <1>2, ConsumedType DEF MatchAccepted
  <2>2. /\ stage' \in Stages /\ verdict' \in Verdicts
        /\ steps' \in Seq(StepIds) /\ queue' \in Seq(Items)
        /\ armed' \in Timers \cup {NoTimer} /\ performed' \in Seq(StepIds)
    BY <2>1, RemoveStepType
  <2> QED BY <1>2, <2>1, <2>2, MonitorsType DEF MatchAccepted, ToMonitors
<1>3. CASE MatchDeclined
  <2>1. CASE Info[steps[at]].kind = "str"
    BY <1>3, <2>1 DEF MatchDeclined
  <2>2. CASE Info[steps[at]].kind = "msg"
    BY <1>3, <2>2, MonitorsType DEF MatchDeclined, ToMonitors
  <2>3. CASE Info[steps[at]].kind = "list"
    <3>1. GoRemoveStep(at, queue) /\ ToMonitors /\ at \in 1..Len(steps)
      BY <1>3, <2>3 DEF MatchDeclined
    <3>2. /\ stage' \in Stages /\ verdict' \in Verdicts
          /\ steps' \in Seq(StepIds) /\ queue' \in Seq(Items)
          /\ armed' \in Timers \cup {NoTimer} /\ performed' \in Seq(StepIds)
      BY <3>1, RemoveStepType
    <3> QED BY <1>3, <3>1, <3>2, MonitorsType DEF MatchDeclined, ToMonitors
  <2> QED BY <1>3, <2>1, <2>2, <2>3 DEF MatchDeclined
<1>4. CASE MonitorReturns
  BY <1>4 DEF MonitorReturns
<1>5. CASE EventDone
  BY <1>5 DEF EventDone
<1>6. CASE \E i \in 1..Len(steps) : MatchPlain(i)
  <2> PICK i \in 1..Len(steps) : MatchPlain(i)
    BY <1>6
  <2>1. /\ GoRemoveStep(i, queue) /\ ToMonitors
        /\ data' \in [StepIds -> Seq(SUBSET Lines)]
    BY ConsumedType DEF MatchPlain
  <2>2. /\ stage' \in Stages /\ verdict' \in Verdicts
        /\ steps' \in Seq(StepIds) /\ queue' \in Seq(Items)
        /\ armed' \in Timers \cup {NoTimer} /\ performed' \in Seq(StepIds)
    BY <2>1, RemoveStepType
  <2> QED BY <2>1, <2>2, MonitorsType DEF MatchPlain, ToMonitors
<1>7. CASE \E i \in 1..Len(steps) : MatchIncomplete(i)
  BY <1>7, MonitorsType, SMTT(30) DEF MatchIncomplete, ToMonitors
<1>8. CASE \E i \in 1..Len(steps) : MatchExhausted(i)
  BY <1>8, SMTT(30) DEF MatchExhausted
<1>9. CASE \E i \in 1..Len(steps) : MatchCallback(i)
  <2> PICK i \in 1..Len(steps) : MatchCallback(i)
    BY <1>9
  <2> QED BY SMTT(60) DEF MatchCallback
<1>10. CASE \E n \in Monitors : CallMonitor(n)
  <2> PICK n \in Monitors : CallMonitor(n)
    BY <1>10
  <2>1. iter' = [iter EXCEPT !.todo = @ \ {n}] /\ pc = "monitors" /\ pc' = "monitor"
    BY DEF CallMonitor
  <2>2. iter' \in [todo: SUBSET Monitors, size: Nat]
    BY <2>1
  <2> QED BY <2>1, <2>2 DEF CallMonitor
<1> QED
  BY <1>1, <1>2, <1>3, <1>4, <1>5, <1>6, <1>7, <1>8, <1>9, <1>10
  DEF ProcessEvent

(* User code in a callback keeps the types. *)
LEMMA TypeCallback ==
    ASSUME TypeOK, LocalsOK, Callback
    PROVE  TypeOK' /\ LocalsOK'
<1> USE DEF TypeOK, LocalsOK, Stages, Verdicts, Reasons, PCs, Running,
            InCallback, vars, phaseVars, loopVars, timerVars, threadVars, local,
            books, budget, history
<1>0. \A c : UserCode(c) => calls' \in 0..MaxCalls
  BY ConstantsAssumption DEF UserCode
<1>1. CASE CallSetFail
  <2>1. FailItem("reported", Now) \in Items
    BY DEF FailItem, Items, Now, Births
  <2>2. reported' \in BOOLEAN
    BY <1>1 DEF CallSetFail
  <2> QED BY <1>0, <1>1, <2>1, <2>2 DEF CallSetFail
<1>2. CASE CallStop
  <2>1. Quit \in Items
    BY DEF Items
  <2> QED BY <1>0, <1>2, <2>1 DEF CallStop
<1>3. CASE CallRaises
  BY <1>3 DEF CallRaises
<1>4. CASE StopProcessReturns
  BY <1>4 DEF StopProcessReturns, Sources
<1>5. CASE \E s \in Sources, l \in Lines : CallAddUserEvent(s, l)
  <2> PICK s \in Sources, l \in Lines : CallAddUserEvent(s, l)
    BY <1>5
  <2>1. EventItem(s, l) \in Items
    BY DEF EventItem, Items, Events
  <2> QED BY <1>0, <2>1 DEF CallAddUserEvent
<1>6. CASE \E n \in Monitors, s \in Sources : CallAddMonitor(n, s)
  <2> PICK n \in Monitors, s \in Sources : CallAddMonitor(n, s)
    BY <1>6
  <2>1. monitors' \in PartialFcn(Monitors, Sources)
    <3>1. PICK D \in SUBSET Monitors : monitors \in [D -> Sources]
      BY DEF PartialFcn
    <3>2. monitors' \in [D \cup {n} -> Sources]
      BY <3>1 DEF CallAddMonitor
    <3>3. D \cup {n} \in SUBSET Monitors
      OBVIOUS
    <3> HIDE DEF TypeOK
    <3> QED BY <3>2, <3>3 DEF PartialFcn
  <2> QED BY <1>0, <2>1 DEF CallAddMonitor
<1>7. CASE \E n \in Monitors : CallRemoveMonitor(n)
  <2> PICK n \in Monitors : CallRemoveMonitor(n)
    BY <1>7
  <2>1. monitors' \in PartialFcn(Monitors, Sources)
    <3>1. PICK D \in SUBSET Monitors : monitors \in [D -> Sources]
      BY DEF PartialFcn
    <3>2. monitors' \in [D \ {n} -> Sources]
      BY <3>1 DEF CallRemoveMonitor
    <3> QED BY <3>2 DEF PartialFcn
  <2> QED BY <1>0, <2>1 DEF CallRemoveMonitor
<1>8. CASE \E p \in Processes : CallStartProcess(p)
  <2> PICK p \in Processes : CallStartProcess(p)
    BY <1>8
  <2>1. orphans' \subseteq Processes
    BY DEF CallStartProcess
  <2> QED BY <1>0, <2>1 DEF CallStartProcess, Sources
<1>9. CASE \E p \in Processes : CallStopProcess(p)
  BY <1>0, <1>9 DEF CallStopProcess, StopReader, Sources
<1> QED
  BY <1>1, <1>2, <1>3, <1>4, <1>5, <1>6, <1>7, <1>8, <1>9 DEF Callback

(* The timer and the readers keep the types. *)
LEMMA TypeOthers ==
    ASSUME TypeOK, LocalsOK,
           TimerThread \/ \E s \in Sources : Reader(s)
    PROVE  TypeOK' /\ LocalsOK'
<1> USE DEF TypeOK, LocalsOK, Stages, Verdicts, Reasons, PCs, Running,
            InCallback, vars, phaseVars, loopVars, timerVars, threadVars, local,
            books, budget, history
<1>1. CASE TimerExpires
  BY <1>1 DEF TimerExpires
<1>2. CASE \E t \in late : TimerCallsBack(t)
  <2> PICK t \in late : TimerCallsBack(t)
    BY <1>2
  <2>1. FailItem("timeout", t) \in Items
    BY DEF FailItem, Items, Timers, Births
  <2> QED BY <2>1 DEF TimerCallsBack
<1>3. CASE \E s \in Sources : Reader(s)
  <2> PICK s \in Sources : Reader(s)
    BY <1>3
  <2>1. CASE ReadFails(s)
    BY <2>1 DEF ReadFails
  <2>2. CASE ReaderStops(s)
    BY <2>2 DEF ReaderStops
  <2>3. CASE \E l \in Lines : ReadLine(s, l)
    <3> PICK l \in Lines : ReadLine(s, l)
      BY <2>3
    <3>1. EventItem(s, l) \in Items
      BY DEF EventItem, Items, Events
    <3>2. lines' \in 0..MaxLines
      BY ConstantsAssumption DEF ReadLine
    <3> QED BY <3>1, <3>2 DEF ReadLine
  <2>4. CASE OrphanDies(s)
    BY <2>4 DEF OrphanDies
  <2>5. CASE \E l \in Lines : OrphanLine(s, l)
    <3> PICK l \in Lines : OrphanLine(s, l)
      BY <2>5
    <3>1. EventItem(s, l) \in Items
      BY DEF EventItem, Items, Events
    <3>2. lines' \in 0..MaxLines
      BY ConstantsAssumption DEF OrphanLine
    <3> QED BY <3>1, <3>2 DEF OrphanLine
  <2> QED BY <2>1, <2>2, <2>3, <2>4, <2>5 DEF Reader
<1> QED BY <1>1, <1>2, <1>3 DEF TimerThread

(* Every step keeps the type invariant. *)
LEMMA TypeStep ==
    ASSUME TypeOK, LocalsOK, [Next]_vars
    PROVE  TypeOK' /\ LocalsOK'
<1>1. CASE UNCHANGED vars
  BY <1>1 DEF TypeOK, LocalsOK, vars, phaseVars, loopVars, timerVars,
     threadVars, local, books, budget, history
<1>2. CASE MainThread
  BY <1>2, TypeRunFrame, TypeMainLoop, TypeProcessEvent, TypeCallback
  DEF MainThread
<1>3. CASE TimerThread \/ \E s \in Sources : Reader(s)
  BY <1>3, TypeOthers
<1> QED BY <1>1, <1>2, <1>3 DEF Next, Terminated

(* In every behaviour of a test case and its repetitions all variables     *)
(* keep their types: the queue holds only calls of __next_step, __fail,    *)
(* __quit and __process_event, a step list only steps of the test.         *)
THEOREM TypeCorrect == Spec => []TypeOK
<1>1. TypeOK /\ LocalsOK /\ [Next]_vars => (TypeOK /\ LocalsOK)'
  BY TypeStep
<1> QED BY <1>1, TypeInit, PTL DEF Spec

(***************************************************************************)
(* Reader threads.  A device's reader runs only while the device is in     *)
(* output_handlers, a process's only while it is in process_output_handlers*)
(* or being joined; outside run there is no main loop and neither.         *)
(***************************************************************************)
Idle == {"ready", "returned", "over"}

ReaderInv ==
    /\ \A d \in Devices : Alive(d) => d \in opened
    /\ \A p \in Processes : Alive(p) => p \in procs \/ joining = p
    /\ pc \in Idle => opened = {} /\ procs = {} /\ ~mainloop
    /\ pc \notin Idle => mainloop
    /\ pc = "opening" => procs = {}
    /\ joining # NoSource => pc \in InCallback \cup {"closing"}
    /\ pc = "closing" /\ joining \in Processes => opened = {}
    /\ pc = "crashed" => opened = {}

(* Every step keeps what is known of the readers. *)
LEMMA ReaderStep ==
    ASSUME TypeOK, LocalsOK, ReaderInv, [Next]_vars
    PROVE  ReaderInv'
<1> USE ConstantsAssumption
    DEF ReaderInv, Idle, Alive, Running, InCallback, vars, phaseVars,
        loopVars, timerVars, threadVars, local, books, budget, history
<1>1. CASE UNCHANGED vars
  BY <1>1
<1>2. CASE RunFrame
  <2>1. CASE \E d \in Devices : OpenDevice(d)
    BY <2>1 DEF OpenDevice, TypeOK, Sources
  <2>2. CASE \E d \in Devices : StopDevice(d)
    BY <2>2 DEF StopDevice, StopReader, TypeOK, Sources
  <2>3. CASE \E p \in Processes : StopLeftProcess(p)
    BY <2>3 DEF StopLeftProcess, StopReader, TypeOK, Sources
  <2>4. CASE CloseDevice
    BY <2>4 DEF CloseDevice, Joined, TypeOK, Sources
  <2>5. CASE LeftProcessStopped
    <3>1. /\ pc = "closing" /\ pc' = "crashed" /\ joining \in Processes
          /\ reader[joining] = "dead" /\ joining' = NoSource
          /\ UNCHANGED <<reader, opened, procs, mainloop>>
      BY <2>5 DEF LeftProcessStopped, Joined
    <3>2. opened = {} /\ mainloop
      BY <3>1
    <3> QED BY <3>1, <3>2
  <2>6. CASE Skip \/ OpenFails \/ EnterLoop
    BY <2>6 DEF Skip, OpenFails, EnterLoop
  <2>9. CASE Cleanup
    BY <2>9 DEF Cleanup, Sources
  <2>10. CASE HandleException
    <3>1. /\ pc = "raised" /\ pc' = "cleanup"
          /\ UNCHANGED <<reader, opened, procs, mainloop, joining>>
      BY <2>10 DEF HandleException
    <3> QED BY <3>1
  <2>7. CASE Begin \/ RunReturns
    BY <2>7 DEF Begin, RunReturns
  <2>8. CASE Repeat \/ Finish
    BY <2>8 DEF Repeat, Finish
  <2> QED BY <1>2, <2>1, <2>2, <2>3, <2>4, <2>5, <2>6, <2>7, <2>8, <2>9, <2>10
          DEF RunFrame
<1>3. CASE MainLoop
  BY <1>3 DEF MainLoop, RunNextStepEmpty, RunNextStepWait, RunNextStepAct,
     StepActed, RunFail, RunQuit, RunEvent, AtHead
<1>4. CASE ProcessEvent
  BY <1>4 DEF ProcessEvent, NoMatch, MatchAccepted, MatchDeclined,
     MonitorReturns, EventDone, MatchPlain, MatchIncomplete, MatchExhausted,
     MatchCallback, CallMonitor, ToMonitors
<1>5. CASE Callback
  <2>1. CASE \E p \in Processes : CallStartProcess(p) \/ CallStopProcess(p)
    BY <2>1 DEF CallStartProcess, CallStopProcess, UserCode, StopReader,
       TypeOK, Sources
  <2>2. CASE StopProcessReturns
    BY <2>2 DEF StopProcessReturns, Joined, TypeOK, Sources
  <2>3. CASE \/ CallSetFail \/ CallStop \/ CallRaises
             \/ \E s \in Sources, l \in Lines : CallAddUserEvent(s, l)
             \/ \E n \in Monitors, s \in Sources : CallAddMonitor(n, s)
             \/ \E n \in Monitors : CallRemoveMonitor(n)
    BY <2>3 DEF CallSetFail, CallStop, CallRaises, CallAddUserEvent,
       CallAddMonitor, CallRemoveMonitor, UserCode
  <2> QED BY <1>5, <2>1, <2>2, <2>3 DEF Callback
<1>6. CASE TimerThread
  BY <1>6 DEF TimerThread, TimerExpires, TimerCallsBack
<1>7. CASE \E s \in Sources : Reader(s)
  BY <1>7 DEF Reader, ReadFails, ReaderStops, ReadLine, OrphanLine,
     OrphanDies, TypeOK, Sources
<1> QED
  BY <1>1, <1>2, <1>3, <1>4, <1>5, <1>6, <1>7 DEF Next, MainThread, Terminated

(* Lines are only ever read while the test has a main loop to queue them   *)
(* on; no reader with a handler is left when run returns, however it ended;*)
(* and when its cleanup raises, only those of the processes it has not come*)
(* to.  Readers without a handler are those that a second start of their   *)
(* process has replaced (__output_handlers_stop, start_process_handler).   *)
THEOREM ReadersJoined == Spec => []NoStrayReader
<1>1. Init => ReaderInv
  BY DEF Init, ReaderInv, Alive, Idle, Sources
<1>2. TypeOK /\ LocalsOK /\ [Next]_vars => (TypeOK /\ LocalsOK)'
  BY TypeStep
<1>3. TypeOK /\ LocalsOK /\ ReaderInv /\ [Next]_vars => ReaderInv'
  BY ReaderStep
<1>4. TypeOK /\ ReaderInv => NoStrayReader
  <2> SUFFICES ASSUME TypeOK, ReaderInv PROVE NoStrayReader
    OBVIOUS
  <2>1. ASSUME NEW s \in Sources, Alive(s), pc \in Idle \cup {"crashed"}
        PROVE  s \in procs /\ pc = "crashed"
    <3>1. joining = NoSource /\ s # NoSource
      BY <2>1, ConstantsAssumption DEF ReaderInv, Idle, InCallback
    <3>2. opened = {} /\ (pc \in Idle => procs = {})
      BY <2>1 DEF ReaderInv
    <3> QED BY <2>1, <3>1, <3>2 DEF ReaderInv, Sources
  <2>2. pc \notin Idle => mainloop
    BY DEF ReaderInv
  <2>3. RunLeft => pc \in Idle \cup {"crashed"}
    BY DEF RunLeft, Idle
  <2>4. "crashed" \notin Idle
    BY DEF Idle
  <2> HIDE DEF ReaderInv
  <2> QED BY <2>1, <2>2, <2>3, <2>4 DEF NoStrayReader
<1> QED BY <1>1, <1>2, <1>3, <1>4, TypeInit, PTL DEF Spec

(***************************************************************************)
(* Verdict and phase.  The verdict is PASS from the first phase on until a *)
(* failure, and a failure leaves only TEARDOWN and DONE to come.           *)
(***************************************************************************)
VerdictInv ==
    /\ pc \in {"ready", "opening"} => stage = "NONE"
    /\ pc \in Running /\ stage # "NONE" => verdict \in {"PASS", "FAIL"}
    /\ pc \in Running /\ stage \in {"SETUP", "TEST"} => verdict = "PASS"

(* Judged(st, v): the verdict v may be found in stage st of a running test. *)
Judged(st, v) ==
    /\ st # "NONE" => v \in {"PASS", "FAIL"}
    /\ st \in {"SETUP", "TEST"} => v = "PASS"

(* __next_stage, with the verdict kept or set to FAIL, keeps Judged. *)
LEMMA NextStageJudged ==
    ASSUME stage \in Stages, NEW v, NEW rest, NEW q, GoNextStage(v, rest, q),
           stage # "NONE" => v \in {"PASS", "FAIL"}
    PROVE  Judged(stage', verdict')
BY DEF Judged, GoNextStage, Landing, LandSetup, LandTest, LandTeardown,
       Stages, Phases

(* So does __remove_step. *)
LEMMA RemoveStepJudged ==
    ASSUME stage \in Stages, Judged(stage, verdict), NEW i, NEW q,
           GoRemoveStep(i, q)
    PROVE  Judged(stage', verdict')
<1>1. CASE Without(i) = <<>>
  <2>1. GoNextStage(verdict, Without(i), q)
    BY <1>1 DEF GoRemoveStep
  <2> QED BY <2>1, NextStageJudged DEF Judged
<1>2. CASE Without(i) # <<>>
  BY <1>2 DEF GoRemoveStep
<1> QED BY <1>1, <1>2

(* Every step keeps the verdict in line with the stage. *)
LEMMA VerdictStep ==
    ASSUME TypeOK, VerdictInv, [Next]_vars
    PROVE  VerdictInv'
<1> USE DEF vars, phaseVars, loopVars, timerVars, threadVars, local, books,
            budget, history
<1>0. stage \in Stages /\ (pc \in Running => Judged(stage, verdict))
  BY DEF TypeOK, VerdictInv, Judged
<1>1. CASE UNCHANGED vars
  BY <1>1 DEF VerdictInv
<1>2. CASE RunFrame
  <2>1. CASE HandleException
    BY <2>1 DEF HandleException, VerdictInv, Running, InCallback
  <2>2. CASE \/ Skip \/ Begin \/ OpenFails \/ EnterLoop \/ Cleanup \/ CloseDevice
             \/ LeftProcessStopped \/ RunReturns \/ Repeat \/ Finish
    BY <2>2 DEF Skip, Begin, OpenFails, EnterLoop, Cleanup, CloseDevice,
       LeftProcessStopped, RunReturns, Repeat, Finish, VerdictInv, Running,
       InCallback
  <2>3. CASE \/ \E d \in Devices : OpenDevice(d) \/ StopDevice(d)
             \/ \E p \in Processes : StopLeftProcess(p)
    BY <2>3 DEF OpenDevice, StopDevice, StopLeftProcess, VerdictInv
  <2> QED BY <1>2, <2>1, <2>2, <2>3 DEF RunFrame
<1>3. CASE /\ MainLoop \/ ProcessEvent \/ Callback
           /\ UNCHANGED <<stage, verdict>>
  <2>1. pc \in Running /\ pc' \notin {"ready", "opening"}
    BY <1>3 DEF MainLoop, RunNextStepEmpty, RunNextStepWait, RunNextStepAct,
       StepActed, RunFail, RunQuit, RunEvent, AtHead, ProcessEvent, NoMatch,
       MatchAccepted, MatchDeclined, MonitorReturns, EventDone, MatchPlain,
       MatchIncomplete, MatchExhausted, MatchCallback, CallMonitor, ToMonitors,
       Callback, CallSetFail, CallStop, CallRaises, StopProcessReturns,
       CallAddUserEvent, CallAddMonitor, CallRemoveMonitor, CallStartProcess,
       CallStopProcess, UserCode, Running, InCallback
  <2> QED BY <1>3, <2>1 DEF VerdictInv
<1>4. CASE RunNextStepEmpty \/ RunFail
  <2>1. pc = "loop" /\ pc' = "loop"
    BY <1>4 DEF RunNextStepEmpty, RunFail, AtHead
  <2>2. stage # "NONE" => verdict \in {"PASS", "FAIL"}
    BY <1>0, <2>1 DEF Judged, Running
  <2>3. \E v, rest, q : GoNextStage(v, rest, q) /\ v \in {verdict, "FAIL"}
    BY <1>4 DEF RunNextStepEmpty, RunFail, GoFail
  <2>4. Judged(stage', verdict')
    BY <1>0, <2>2, <2>3, NextStageJudged
  <2> QED BY <2>1, <2>4 DEF Judged, VerdictInv
<1>5. CASE \/ StepActed \/ MatchAccepted
           \/ MatchDeclined /\ Info[steps[at]].kind = "list"
           \/ \E i \in 1..Len(steps) : MatchPlain(i)
  <2>1. pc \in Running /\ pc' \in {"loop", "monitors"}
    BY <1>5 DEF StepActed, MatchAccepted, MatchDeclined, MatchPlain, ToMonitors,
       Running, InCallback
  <2>2. \E i, q : GoRemoveStep(i, q)
    BY <1>5 DEF StepActed, MatchAccepted, MatchDeclined, MatchPlain
  <2>3. Judged(stage', verdict')
    BY <1>0, <2>1, <2>2, RemoveStepJudged
  <2> QED BY <2>1, <2>3 DEF Judged, VerdictInv
<1>6. CASE TimerThread \/ \E s \in Sources : Reader(s)
  BY <1>6 DEF TimerThread, TimerExpires, TimerCallsBack, Reader, ReadFails,
     ReaderStops, ReadLine, OrphanLine,
     OrphanDies, VerdictInv
<1>7. MainLoop => \/ RunNextStepEmpty \/ RunFail \/ StepActed
                  \/ UNCHANGED <<stage, verdict>>
  BY DEF MainLoop, RunNextStepWait, RunNextStepAct, RunQuit, RunEvent
<1>8. ProcessEvent => \/ MatchAccepted \/ \E i \in 1..Len(steps) : MatchPlain(i)
                      \/ MatchDeclined /\ Info[steps[at]].kind = "list"
                      \/ UNCHANGED <<stage, verdict>>
  BY DEF ProcessEvent, NoMatch, MatchDeclined, MonitorReturns, EventDone,
     MatchIncomplete, MatchExhausted, MatchCallback, CallMonitor
<1>9. Callback => UNCHANGED <<stage, verdict>>
  BY DEF Callback, CallSetFail, CallStop, CallRaises, StopProcessReturns,
     CallAddUserEvent, CallAddMonitor, CallRemoveMonitor, CallStartProcess,
     CallStopProcess
<1> QED
  BY <1>1, <1>2, <1>3, <1>4, <1>5, <1>6, <1>7, <1>8, <1>9
  DEF Next, MainThread, Terminated

(* The test phase runs only while nothing has failed, in every attempt and *)
(* whatever timeouts, reports and surplus __next_step calls are queued.    *)
THEOREM TestPhaseClean == Spec => []TestPhaseIsClean
<1>1. Init => VerdictInv
  BY DEF Init, VerdictInv, Running, InCallback
<1>2. TypeOK /\ LocalsOK /\ [Next]_vars => (TypeOK /\ LocalsOK)'
  BY TypeStep
<1>3. TypeOK /\ VerdictInv /\ [Next]_vars => VerdictInv'
  BY VerdictStep
<1>4. VerdictInv => TestPhaseIsClean
  BY DEF VerdictInv, TestPhaseIsClean
<1> QED BY <1>1, <1>2, <1>3, <1>4, TypeInit, PTL DEF Spec

(***************************************************************************)
(* Progress.  The main loop always holds the call that will bring the test *)
(* further, or the test waits with a timer, unless an earlier attempt has  *)
(* left steps behind.                                                      *)
(***************************************************************************)
Holds(q, k) == \E i \in 1..Len(q) : q[i].kind = k

(* A queue holds what its two parts hold. *)
LEMMA HoldsConcat ==
    ASSUME NEW S, NEW a \in Seq(S), NEW b \in Seq(S), NEW k
    PROVE  Holds(a \o b, k) <=> Holds(a, k) \/ Holds(b, k)
<1>1. ASSUME Holds(a, k) PROVE Holds(a \o b, k)
  BY <1>1 DEF Holds
<1>2. ASSUME Holds(b, k) PROVE Holds(a \o b, k)
  <2>1. PICK i \in 1..Len(b) : b[i].kind = k
    BY <1>2 DEF Holds
  <2>2. /\ Len(a) + i \in 1..Len(a \o b)
        /\ (a \o b)[Len(a) + i] = b[i]
    OBVIOUS
  <2> QED BY <2>1, <2>2 DEF Holds
<1>3. ASSUME Holds(a \o b, k) PROVE Holds(a, k) \/ Holds(b, k)
  <2>1. PICK i \in 1..Len(a \o b) : (a \o b)[i].kind = k
    BY <1>3 DEF Holds
  <2>2. CASE i <= Len(a)
    BY <2>1, <2>2 DEF Holds
  <2>3. CASE i > Len(a)
    <3>1. i - Len(a) \in 1..Len(b) /\ (a \o b)[i] = b[i - Len(a)]
      BY <2>3
    <3> QED BY <2>1, <3>1 DEF Holds
  <2> QED BY <2>2, <2>3
<1> QED BY <1>1, <1>2, <1>3

(* A queue holds what it held, and the item appended. *)
LEMMA HoldsAppend ==
    ASSUME NEW S, NEW q \in Seq(S), NEW x \in S, NEW k
    PROVE  Holds(Append(q, x), k) <=> Holds(q, k) \/ x.kind = k
<1>1. /\ Len(Append(q, x)) = Len(q) + 1
      /\ Append(q, x)[Len(q) + 1] = x
      /\ \A i \in 1..Len(q) : Append(q, x)[i] = q[i]
  OBVIOUS
<1> QED BY <1>1 DEF Holds

(* A queue without its head holds what it held, but for the head. *)
LEMMA HoldsTail ==
    ASSUME NEW S, NEW q \in Seq(S), q # <<>>, NEW k
    PROVE  /\ Holds(q, k) => Holds(Tail(q), k) \/ Head(q).kind = k
           /\ Holds(Tail(q), k) => Holds(q, k)
<1>1. /\ Tail(q) \in Seq(S) /\ Len(Tail(q)) = Len(q) - 1 /\ Len(q) > 0
      /\ Head(q) = q[1]
      /\ \A i \in 1..Len(Tail(q)) : Tail(q)[i] = q[i + 1]
  OBVIOUS
<1>2. ASSUME Holds(q, k), Head(q).kind # k PROVE Holds(Tail(q), k)
  <2>1. PICK i \in 1..Len(q) : q[i].kind = k
    BY <1>2 DEF Holds
  <2>2. i - 1 \in 1..Len(Tail(q)) /\ Tail(q)[i - 1] = q[i]
    BY <1>1, <1>2, <2>1
  <2> QED BY <2>1, <2>2 DEF Holds
<1>3. ASSUME Holds(Tail(q), k) PROVE Holds(q, k)
  <2>1. PICK i \in 1..Len(Tail(q)) : Tail(q)[i].kind = k
    BY <1>3 DEF Holds
  <2>2. i + 1 \in 1..Len(q) /\ Tail(q)[i] = q[i + 1]
    BY <1>1, <2>1
  <2> QED BY <2>1, <2>2 DEF Holds
<1> QED BY <1>2, <1>3

(* __next_stage leaves a phase with steps, its own timer and a call of     *)
(* __next_step, or it leaves DONE and a quit.                              *)
LEMMA NextStageProgress ==
    ASSUME TypeOK, NEW v \in Verdicts, NEW rest \in Seq(StepIds),
           NEW q \in Seq(Items), GoNextStage(v, rest, q)
    PROVE  /\ stage' \in Phases \cup {"DONE"}
           /\ stage' \in Phases =>
                 /\ steps' # <<>> /\ Holds(queue', "next_step")
                 /\ armed' = [attempt |-> attempt, stage |-> stage']
           /\ stage' = "DONE" => Holds(queue', "quit")
           /\ Holds(queue', "fail") => Holds(q, "fail")
<1> DEFINE to == Landing(v)
           n == Hops(v, to)
           qt == QuitAt(to)
           toks == [i \in 1..n |-> NextStep]
<1>1. to \in Phases \cup {"DONE"} /\ n \in 0..4 /\ stage' = to
  BY LandingType DEF TypeOK, GoNextStage
<1>2. to \in Phases => n >= 1 /\ script[to] # <<>>
  BY DEF TypeOK, Landing, LandSetup, LandTest, LandTeardown, Hops, Rank, Stages,
     Phases
<1>3. qt \in Seq(Items) /\ toks \in Seq(Items)
  <2>1. <<Quit>> \in Seq(Items) /\ <<>> \in Seq(Items)
    BY DEF Items
  <2>2. qt \in Seq(Items)
    BY <2>1 DEF QuitAt
  <2> QED BY <1>1, <2>2, TokensType
<1>4. queue' = (q \o qt) \o toks
  BY DEF GoNextStage
<1>5. to = "DONE" => Holds(qt, "quit")
  BY DEF QuitAt, Quit, Holds
<1>6. to \in Phases => Holds(toks, "next_step")
  BY <1>1, <1>2 DEF NextStep, Holds
<1>7. ~Holds(qt, "fail") /\ ~Holds(toks, "fail")
  BY <1>1 DEF QuitAt, Quit, NextStep, Holds
<1>8. to \in Phases => steps' # <<>> /\ armed' = [attempt |-> attempt, stage |-> to]
  BY <1>1, <1>2 DEF GoNextStage, TimerOf, Phases
<1> HIDE DEF qt, toks, to, n
<1>9. /\ Holds(queue', "quit") <=> Holds(q, "quit") \/ Holds(qt, "quit") \/ Holds(toks, "quit")
      /\ Holds(queue', "next_step") <=> Holds(q, "next_step") \/ Holds(qt, "next_step") \/ Holds(toks, "next_step")
      /\ Holds(queue', "fail") <=> Holds(q, "fail") \/ Holds(qt, "fail") \/ Holds(toks, "fail")
  <2>1. q \o qt \in Seq(Items)
    BY <1>3
  <2>2. ASSUME NEW k
        PROVE Holds(queue', k) <=> Holds(q, k) \/ Holds(qt, k) \/ Holds(toks, k)
    BY <1>3, <1>4, <2>1, HoldsConcat
  <2> QED BY <2>2
<1> QED BY <1>1, <1>5, <1>6, <1>7, <1>8, <1>9

ProgressInv ==
    /\ pc \in {"ready", "opening"} => steps = <<>>
    /\ pc \in Running =>
       /\ stage = "NONE" => steps = <<>> /\ Holds(queue, "next_step")
       /\ stage \in Phases =>
             /\ steps # <<>>
             /\ Now \in late \cup {armed} \/ Holds(queue, "fail")
             /\ \/ Info[Head(steps)].action = "WAIT_FOR"
                \/ Holds(queue, "next_step") \/ pc = "executing"
       /\ stage = "DONE" => Holds(queue, "quit")

(* Removing a step leaves the next one to run, or goes to the next stage. *)
LEMMA RemoveStepProgress ==
    ASSUME TypeOK, NEW i \in 1..Len(steps), GoRemoveStep(i, queue)
    PROVE  \/ /\ stage' \in Phases
              /\ steps' # <<>> /\ Holds(queue', "next_step")
              /\ armed' = [attempt |-> attempt, stage |-> stage']
           \/ stage' = "DONE" /\ Holds(queue', "quit")
           \/ /\ UNCHANGED <<stage, armed>>
              /\ steps' # <<>> /\ Holds(queue', "next_step")
              /\ Holds(queue, "fail") => Holds(queue', "fail")
              /\ Holds(queue, "quit") => Holds(queue', "quit")
<1> DEFINE rest == RemoveAt(steps, i)
<1>1. rest \in Seq(StepIds) /\ queue \in Seq(Items) /\ verdict \in Verdicts
  BY RemoveAtType DEF TypeOK
<1>2. CASE rest = <<>>
  <2>1. GoNextStage(verdict, rest, queue)
    BY <1>2 DEF GoRemoveStep, Without
  <2> QED BY <1>1, <2>1, NextStageProgress
<1>3. CASE rest # <<>>
  <2>1. /\ steps' = rest /\ queue' = Append(queue, NextStep)
        /\ UNCHANGED <<stage, armed>>
    BY <1>3 DEF GoRemoveStep, Without, Requeue
  <2>2. NextStep \in Items /\ NextStep.kind = "next_step"
    BY DEF NextStep, Items
  <2> QED BY <1>1, <1>3, <2>1, <2>2, HoldsAppend
<1> QED BY <1>2, <1>3

(* What user code, readers and timers do to the queue: they add to it. *)
Adds == \/ queue' = queue
        \/ \E x \in Items : queue' = Append(queue, x)

(* Nothing leaves a queue by appending to it. *)
LEMMA AddsKeep ==
    ASSUME TypeOK, Adds, NEW k
    PROVE  Holds(queue, k) => Holds(queue', k)
<1>1. CASE queue' = queue
  BY <1>1
<1>2. CASE \E x \in Items : queue' = Append(queue, x)
  <2>1. PICK x \in Items : queue' = Append(queue, x)
    BY <1>2
  <2>2. queue \in Seq(Items)
    BY DEF TypeOK
  <2> QED BY <2>1, <2>2, HoldsAppend
<1> QED BY <1>1, <1>2 DEF Adds

(* User code only appends to the queue. *)
LEMMA CallbackAdds == TypeOK /\ Callback => Adds
<1> SUFFICES ASSUME TypeOK, Callback PROVE Adds
  OBVIOUS
<1>1. FailItem("reported", Now) \in Items /\ Quit \in Items
  BY DEF TypeOK, FailItem, Items, Now, Births
<1>2. \A s \in Sources, l \in Lines : EventItem(s, l) \in Items
  BY DEF EventItem, Items, Events
<1> QED
  BY <1>1, <1>2 DEF Callback, CallSetFail, CallStop, CallRaises,
     StopProcessReturns, CallAddUserEvent, CallAddMonitor, CallRemoveMonitor,
     CallStartProcess, CallStopProcess, Adds, loopVars

(* The main thread leaves something that will go on. *)
LEMMA ProgressMain ==
    ASSUME TypeOK, LocalsOK, VerdictInv, ProgressInv, MainThread,
           Repeat => steps = <<>>
    PROVE  ProgressInv'
<1> USE DEF vars, phaseVars, loopVars, timerVars, threadVars, local, books,
            budget, history
<1>0. /\ queue \in Seq(Items) /\ stage \in Stages /\ verdict \in Verdicts
      /\ steps \in Seq(StepIds)
  BY DEF TypeOK
<1>a. MainLoop \/ ProcessEvent \/ Callback => attempt' = attempt
  BY DEF MainLoop, RunNextStepEmpty, RunNextStepWait, RunNextStepAct, StepActed,
     RunFail, RunQuit, RunEvent, AtHead, ProcessEvent, NoMatch, MatchAccepted,
     MatchDeclined, MonitorReturns, EventDone, MatchPlain, MatchIncomplete,
     MatchExhausted, MatchCallback, CallMonitor, Callback, CallSetFail,
     CallStop, CallRaises, StopProcessReturns, CallAddUserEvent,
     CallAddMonitor, CallRemoveMonitor, CallStartProcess, CallStopProcess
<1>1. CASE RunFrame
  <2>1. CASE EnterLoop
    <3>1. NextStep \in Items /\ NextStep.kind = "next_step"
      BY DEF NextStep, Items
    <3>2. Holds(queue', "next_step") /\ stage' = "NONE" /\ steps' = <<>>
      BY <1>0, <2>1, <3>1, HoldsAppend DEF EnterLoop, ProgressInv, VerdictInv
    <3> QED BY <2>1, <3>2 DEF EnterLoop, ProgressInv, Phases
  <2>2. CASE \E d \in Devices : OpenDevice(d)
    BY <2>2 DEF OpenDevice, ProgressInv, Running, InCallback
  <2>3. CASE Repeat
    BY <2>3 DEF Repeat, ProgressInv, Running, InCallback
  <2>4. CASE Begin
    BY <2>4 DEF Begin, ProgressInv, Running, InCallback
  <2>5. CASE \/ Skip \/ OpenFails \/ HandleException \/ Cleanup \/ CloseDevice
             \/ LeftProcessStopped \/ RunReturns \/ Finish
             \/ \E d \in Devices : StopDevice(d)
             \/ \E p \in Processes : StopLeftProcess(p)
    <3>1. pc' \notin Running \cup {"ready", "opening"}
      BY <2>5 DEF Skip, OpenFails, HandleException, Cleanup, CloseDevice,
         LeftProcessStopped, RunReturns, Finish, StopDevice, StopLeftProcess,
         Running, InCallback
    <3> QED BY <3>1 DEF ProgressInv
  <2> QED BY <1>1, <2>1, <2>2, <2>3, <2>4, <2>5 DEF RunFrame
<1>2. CASE RunNextStepEmpty \/ RunFail
  <2>1. PICK v \in Verdicts, rest \in Seq(StepIds), q \in Seq(Items) :
           GoNextStage(v, rest, q)
    <3>1. Tail(queue) \in Seq(Items)
      BY <1>2, TailType DEF RunNextStepEmpty, RunFail, AtHead
    <3>2. CASE RunNextStepEmpty
      <4>1. GoNextStage(verdict, steps, Tail(queue))
        BY <3>2 DEF RunNextStepEmpty
      <4> QED BY <1>0, <3>1, <4>1
    <3>3. CASE RunFail
      <4>1. GoNextStage("FAIL", <<>>, Tail(queue))
        BY <3>3 DEF RunFail, GoFail
      <4>2. "FAIL" \in Verdicts /\ <<>> \in Seq(StepIds)
        BY DEF Verdicts
      <4> QED BY <3>1, <4>1, <4>2
    <3> QED BY <1>2, <3>2, <3>3
  <2>2. pc' = "loop"
    BY <1>2 DEF RunNextStepEmpty, RunFail, AtHead
  <2>3. Now' = [attempt |-> attempt, stage |-> stage']
    BY <1>2, <1>a DEF Now, MainLoop
  <2> QED BY <2>1, <2>2, <2>3, NextStageProgress DEF ProgressInv, Phases
<1>3. CASE \/ StepActed \/ MatchAccepted
           \/ MatchDeclined /\ Info[steps[at]].kind = "list"
           \/ \E i \in 1..Len(steps) : MatchPlain(i)
  <2>1. PICK i \in 1..Len(steps) : GoRemoveStep(i, queue)
    BY <1>0, <1>3
    DEF StepActed, MatchAccepted, MatchPlain, MatchDeclined, LocalsOK
  <2>2. pc \in Running /\ pc' \in {"loop", "monitors"} /\ late' = late
    BY <1>3 DEF StepActed, MatchAccepted, MatchPlain, MatchDeclined,
       ToMonitors, Running, InCallback
  <2>3. Now' = [attempt |-> attempt, stage |-> stage']
    BY <1>3, <1>a DEF Now, MainLoop, ProcessEvent
  <2>4. stage # "NONE" /\ steps # <<>>
    BY <1>0, <2>1, <2>2 DEF ProgressInv
  <2>5. stage' \in Stages
    BY <2>1, RemoveStepType
  <2>6. \/ /\ stage' \in Phases
           /\ steps' # <<>> /\ Holds(queue', "next_step")
           /\ armed' = [attempt |-> attempt, stage |-> stage']
        \/ stage' = "DONE" /\ Holds(queue', "quit")
        \/ /\ UNCHANGED <<stage, armed>>
           /\ steps' # <<>> /\ Holds(queue', "next_step")
           /\ Holds(queue, "fail") => Holds(queue', "fail")
           /\ Holds(queue, "quit") => Holds(queue', "quit")
    BY <2>1, RemoveStepProgress
  <2> QED BY <2>2, <2>3, <2>4, <2>5, <2>6
      DEF ProgressInv, Stages, Phases, Now
<1>4. CASE RunNextStepWait \/ RunNextStepAct \/ RunEvent
  <2>1. /\ queue # <<>> /\ queue' = Tail(queue)
        /\ Head(queue).kind \in {"next_step", "event"}
        /\ pc = "loop" /\ pc' \in Running
        /\ UNCHANGED <<stage, steps, armed, late>>
    BY <1>4 DEF RunNextStepWait, RunNextStepAct, RunEvent, AtHead, Running,
       InCallback
  <2>2. /\ Holds(queue, "fail") => Holds(queue', "fail")
        /\ Holds(queue, "quit") => Holds(queue', "quit")
    BY <1>0, <2>1, HoldsTail
  <2>3. /\ Head(queue).kind = "event" /\ Holds(queue, "next_step")
        => Holds(queue', "next_step")
    BY <1>0, <2>1, HoldsTail
  <2>4. \/ Head(queue).kind = "event"
        \/ steps # <<>> /\ pc' = "executing"
        \/ steps # <<>> /\ Info[Head(steps)].action = "WAIT_FOR"
    <3>1. CASE RunNextStepWait
      BY <3>1 DEF RunNextStepWait
    <3>2. CASE RunNextStepAct
      BY <3>2 DEF RunNextStepAct
    <3>3. CASE RunEvent
      BY <3>3 DEF RunEvent, AtHead
    <3> QED BY <1>4, <3>1, <3>2, <3>3
  <2>5. pc' \notin {"ready", "opening"} /\ Now' = Now
    BY <1>4, <1>a, <2>1 DEF Running, InCallback, Now, MainLoop
  <2> QED BY <2>1, <2>2, <2>3, <2>4, <2>5 DEF ProgressInv, Running
<1>5. CASE RunQuit
  BY <1>5 DEF RunQuit, ProgressInv, Running, InCallback
<1>6. CASE \/ NoMatch \/ MonitorReturns \/ EventDone
           \/ MatchDeclined /\ Info[steps[at]].kind # "list"
           \/ \E i \in 1..Len(steps) : \/ MatchIncomplete(i)
                                       \/ MatchExhausted(i) \/ MatchCallback(i)
           \/ \E n \in Monitors : CallMonitor(n)
  <2>1. /\ UNCHANGED <<stage, steps, queue, armed, late>>
        /\ pc \in Running \ {"executing"} /\ pc' \notin {"ready", "opening"}
    BY <1>6 DEF NoMatch, MonitorReturns, EventDone, MatchDeclined,
       MatchIncomplete, MatchExhausted, MatchCallback, CallMonitor, ToMonitors,
       Running, InCallback
  <2>2. Now' = Now
    BY <1>6, <1>a, <2>1 DEF Now, ProcessEvent
  <2> QED BY <2>1, <2>2 DEF ProgressInv
<1>7. CASE Callback
  <2>1. /\ UNCHANGED <<stage, steps, armed, late>>
        /\ pc \in Running /\ (pc' = pc \/ pc' = "raised")
    BY <1>7 DEF Callback, CallSetFail, CallStop, CallRaises, StopProcessReturns,
       CallAddUserEvent, CallAddMonitor, CallRemoveMonitor, CallStartProcess,
       CallStopProcess, UserCode, Running, InCallback
  <2>2. /\ Holds(queue, "fail") => Holds(queue', "fail")
        /\ Holds(queue, "quit") => Holds(queue', "quit")
        /\ Holds(queue, "next_step") => Holds(queue', "next_step")
    BY <1>7, CallbackAdds, AddsKeep
  <2>3. Now' = Now
    BY <1>7, <1>a, <2>1 DEF Now
  <2> QED BY <2>1, <2>2, <2>3 DEF ProgressInv, Running, InCallback
<1>8. CASE MainLoop
  BY <1>2, <1>3, <1>4, <1>5, <1>8 DEF MainLoop
<1>9. CASE ProcessEvent
  BY <1>3, <1>6, <1>9 DEF ProcessEvent
<1> QED BY <1>1, <1>7, <1>8, <1>9 DEF MainThread

(* Every step leaves something that will go on; the next attempt may begin *)
(* only when no steps are left over.                                       *)
LEMMA ProgressStep ==
    ASSUME TypeOK, LocalsOK, ReaderInv, VerdictInv, ProgressInv, [Next]_vars,
           Repeat => steps = <<>>
    PROVE  ProgressInv'
<1> USE DEF vars, phaseVars, loopVars, timerVars, threadVars, local, books,
            budget, history
<1>1. CASE UNCHANGED vars
  BY <1>1 DEF ProgressInv, Now
<1>2. CASE TimerExpires
  <2>1. UNCHANGED <<stage, steps, queue, attempt, pc>> /\ Now' = Now
    BY <1>2 DEF TimerExpires, Now
  <2>2. Now \in late \cup {armed} => Now \in late' \cup {armed'}
    BY <1>2 DEF TimerExpires
  <2> QED BY <2>1, <2>2 DEF ProgressInv
<1>3. CASE \E t \in late : TimerCallsBack(t)
  <2> PICK t \in late : TimerCallsBack(t)
    BY <1>3
  <2>1. FailItem("timeout", t) \in Items /\ FailItem("timeout", t).kind = "fail"
    BY DEF FailItem, Items, Timers, Births, TypeOK, Stages
  <2>2. UNCHANGED <<stage, steps, armed, attempt, pc>> /\ Now' = Now
    BY DEF TimerCallsBack, Now
  <2>3. pc \in Running => mainloop
    BY DEF ReaderInv, Running, Idle, InCallback
  <2>4. pc \in Running => queue' = Append(queue, FailItem("timeout", t))
    BY <2>3 DEF TimerCallsBack
  <2>5. queue \in Seq(Items)
    BY DEF TypeOK
  <2>6. \A k : Holds(Append(queue, FailItem("timeout", t)), k)
                 <=> Holds(queue, k) \/ FailItem("timeout", t).kind = k
    BY <2>1, <2>5, HoldsAppend
  <2>7. pc \in Running => /\ Holds(queue', "fail")
                          /\ Holds(queue, "next_step") => Holds(queue', "next_step")
                          /\ Holds(queue, "quit") => Holds(queue', "quit")
    BY <2>1, <2>4, <2>6
  <2> QED BY <2>2, <2>7 DEF ProgressInv
<1>4. CASE \E s \in Sources : Reader(s)
  <2>1. UNCHANGED <<stage, steps, armed, late, attempt, pc>> /\ Now' = Now
    BY <1>4 DEF Reader, ReadFails, ReaderStops, ReadLine, OrphanLine,
     OrphanDies, Now
  <2>2. \A s \in Sources, l \in Lines : EventItem(s, l) \in Items
    BY DEF EventItem, Items, Events
  <2>3. Adds
    BY <1>4, <2>2 DEF Reader, ReadFails, ReaderStops, ReadLine, OrphanLine,
     OrphanDies, Adds
  <2>4. /\ Holds(queue, "fail") => Holds(queue', "fail")
        /\ Holds(queue, "quit") => Holds(queue', "quit")
        /\ Holds(queue, "next_step") => Holds(queue', "next_step")
    BY <2>3, AddsKeep
  <2> QED BY <2>1, <2>4 DEF ProgressInv
<1>5. CASE MainThread
  BY <1>5, ProgressMain
<1> QED BY <1>1, <1>2, <1>3, <1>4, <1>5 DEF Next, TimerThread, Terminated

(* Repeat is the only step that changes the attempt, and it goes up. *)
LEMMA AttemptStep ==
    ASSUME TypeOK, [Next]_vars
    PROVE  attempt' = attempt \/ attempt' = attempt + 1
BY DEF Next, TimerThread, TimerExpires, TimerCallsBack, Terminated, Reader,
   ReadFails, ReaderStops, ReadLine, OrphanLine,
     OrphanDies, MainThread, MainLoop, RunNextStepEmpty,
   RunNextStepWait, RunNextStepAct, StepActed, RunFail, RunQuit, RunEvent,
   AtHead, ProcessEvent, NoMatch, MatchAccepted, MatchDeclined, MonitorReturns,
   EventDone, MatchPlain, MatchIncomplete, MatchExhausted, MatchCallback,
   CallMonitor, Callback, CallSetFail, CallStop, CallRaises,
   StopProcessReturns, CallAddUserEvent, CallAddMonitor, CallRemoveMonitor,
   CallStartProcess, CallStopProcess, RunFrame, HandleException, Skip,
   Begin, OpenFails, EnterLoop, Cleanup, CloseDevice, LeftProcessStopped,
   RunReturns, Repeat, Finish, OpenDevice, StopDevice, StopLeftProcess,
   books, vars

(* A main loop with something ahead of it is not stuck. *)
LEMMA ProgressEnough ==
    ASSUME TypeOK, ProgressInv PROVE NeverStuck
<1> SUFFICES ASSUME pc = "loop", queue = <<>>
             PROVE  /\ stage \in Phases
                    /\ steps # <<>> /\ Info[Head(steps)].action = "WAIT_FOR"
                    /\ Now \in late \cup {armed}
  BY DEF NeverStuck
<1>1. \A k : ~Holds(queue, k)
  BY DEF Holds
<1> QED BY <1>1 DEF ProgressInv, TypeOK, Stages, Phases, Running

(* In its first attempt a test case never sits in an idle main loop with   *)
(* an unperformed WRITE or EXECUTE step, or without a timer that will end  *)
(* the wait.  (A later attempt can: an exception leaves steps behind.)     *)
THEOREM FirstAttemptNeverStuck == Spec => [](attempt = 1 => NeverStuck)
<1> DEFINE Inv == /\ TypeOK /\ LocalsOK /\ ReaderInv /\ VerdictInv
                  /\ attempt = 1 => ProgressInv
<1>1. Init => Inv
  <2>1. Init => ReaderInv
    BY DEF Init, ReaderInv, Alive, Idle, Sources
  <2>2. Init => VerdictInv /\ ProgressInv
    BY DEF Init, VerdictInv, ProgressInv, Running, InCallback
  <2> QED BY <2>1, <2>2, TypeInit
<1>2. Inv /\ [Next]_vars => Inv'
  <2> SUFFICES ASSUME Inv, [Next]_vars PROVE Inv'
    OBVIOUS
  <2>1. ASSUME attempt' = 1 PROVE ProgressInv'
    <3>1. attempt = 1 /\ ~Repeat
      BY <2>1, AttemptStep DEF TypeOK, Repeat
    <3> QED BY <3>1, ProgressStep
  <2> QED BY <2>1, TypeStep, ReaderStep, VerdictStep
<1>3. Inv => (attempt = 1 => NeverStuck)
  BY ProgressEnough
<1> HIDE DEF Inv
<1> QED BY <1>1, <1>2, <1>3, PTL DEF Spec

(***************************************************************************)
(* Failures.  In the first attempt nothing that can fail the test exists   *)
(* before its first phase has begun, so __next_stage never overwrites a    *)
(* failure with the PASS it gives a test on leaving NONE.                  *)
(***************************************************************************)
Untouched ==
    /\ pc \notin InCallback \cup {"raised"}
    /\ ~Holds(queue, "fail") /\ armed = NoTimer /\ late = {}
    /\ DOMAIN monitors = {} /\ steps = <<>> /\ reason = "none"

Failed == reason \in Reasons \ {"none", "skipped"}

FirstInv ==
    attempt = 1 =>
    /\ pc \in {"ready", "opening"} => reason = "none"
    /\ /\ stage = "NONE"
       /\ pc \in Running \cup {"ready", "opening", "raised"}
       => Untouched
    /\ Failed => verdict = "FAIL"

(* The main thread keeps a failure, in the first attempt. *)
LEMMA FirstMain ==
    ASSUME TypeOK, LocalsOK, VerdictInv, FirstInv, MainThread,
           attempt = 1, attempt' = 1
    PROVE  FirstInv'
<1> USE DEF vars, phaseVars, loopVars, timerVars, threadVars, local, books,
            budget, history
<1>0. /\ queue \in Seq(Items) /\ stage \in Stages /\ verdict \in Verdicts
      /\ steps \in Seq(StepIds)
  BY DEF TypeOK
<1>1. CASE RunFrame
  <2>1. CASE Begin
    <3>1. ~Holds(queue', "fail") /\ UNCHANGED <<armed, late, monitors, steps, reason>>
      BY <2>1 DEF Begin, Holds
    <3>2. pc = "ready" /\ pc' = "opening" /\ stage' = stage /\ verdict' = verdict
      BY <2>1 DEF Begin
    <3> QED BY <3>1, <3>2
        DEF FirstInv, VerdictInv, Untouched, Failed, InCallback
  <2>2. CASE EnterLoop
    <3>1. NextStep \in Items /\ NextStep.kind # "fail"
      BY DEF NextStep, Items
    <3>2. Holds(queue', "fail") => Holds(queue, "fail")
      BY <1>0, <2>2, <3>1, HoldsAppend DEF EnterLoop
    <3>3. /\ UNCHANGED <<armed, late, steps, reason, stage, verdict>>
          /\ DOMAIN monitors' = {} /\ pc = "opening" /\ pc' = "loop"
      BY <2>2 DEF EnterLoop
    <3> QED BY <3>2, <3>3
        DEF FirstInv, VerdictInv, Untouched, Failed, InCallback
  <2>3. CASE \E d \in Devices : OpenDevice(d)
    BY <2>3 DEF OpenDevice, FirstInv, Untouched, Failed
  <2>4. CASE HandleException
    <3>1. stage # "NONE"
      BY <2>4 DEF HandleException, FirstInv, Untouched
    <3>2. verdict' = "FAIL" /\ pc' = "cleanup"
      BY <2>4, <3>1 DEF HandleException, GoFail, GoNextStage
    <3> QED BY <3>2 DEF FirstInv, Failed, Running, InCallback
  <2>5. CASE Skip \/ OpenFails
    BY <2>5 DEF Skip, OpenFails, FirstInv, Failed, Running, InCallback
  <2>6. CASE \/ Cleanup \/ CloseDevice \/ LeftProcessStopped \/ RunReturns \/ Finish
             \/ \E d \in Devices : StopDevice(d)
             \/ \E p \in Processes : StopLeftProcess(p)
    <3>1. /\ pc' \in {"closing", "crashed", "returned", "over"}
          /\ UNCHANGED <<reason, verdict>>
      BY <2>6 DEF Cleanup, CloseDevice, LeftProcessStopped, RunReturns, Finish,
         StopDevice, StopLeftProcess
    <3> QED BY <3>1 DEF FirstInv, Failed, Running, InCallback
  <2>7. CASE Repeat
    BY <2>7 DEF Repeat
  <2> QED BY <1>1, <2>1, <2>2, <2>3, <2>4, <2>5, <2>6, <2>7 DEF RunFrame
<1>2. CASE RunNextStepEmpty
  <2>1. GoNextStage(verdict, steps, Tail(queue)) /\ reason' = reason
    BY <1>2 DEF RunNextStepEmpty
  <2>2. pc = "loop" /\ pc' = "loop" /\ stage' # "NONE"
    BY <1>0, <1>2, <2>1, LandingType
    DEF RunNextStepEmpty, AtHead, GoNextStage, Phases
  <2>3. stage = "NONE" => reason = "none"
    BY <2>2 DEF FirstInv, Untouched, Running
  <2>4. stage # "NONE" => verdict' = verdict
    BY <2>1 DEF GoNextStage
  <2> QED BY <2>1, <2>2, <2>3, <2>4 DEF FirstInv, Failed
<1>3. CASE RunFail
  <2>1. Holds(queue, "fail") /\ pc = "loop" /\ pc' = "loop"
    BY <1>0, <1>3 DEF RunFail, AtHead, Holds
  <2>2. stage # "NONE"
    BY <2>1 DEF FirstInv, Untouched, Running
  <2>3. verdict' = "FAIL" /\ stage' = Landing("FAIL")
    BY <1>3, <2>2 DEF RunFail, GoFail, GoNextStage
  <2>4. stage' # "NONE"
    BY <1>0, <2>3, LandingType DEF Phases, Verdicts
  <2> QED BY <2>1, <2>3, <2>4 DEF FirstInv
<1>4. CASE \/ StepActed \/ MatchAccepted
           \/ MatchDeclined /\ Info[steps[at]].kind = "list"
           \/ \E i \in 1..Len(steps) : MatchPlain(i)
  <2>1. PICK i \in 1..Len(steps) : GoRemoveStep(i, queue)
    BY <1>0, <1>4
    DEF StepActed, MatchAccepted, MatchPlain, MatchDeclined, LocalsOK
  <2>2. pc \in Running /\ pc' \in {"loop", "monitors"} /\ reason' = reason
    BY <1>4 DEF StepActed, MatchAccepted, MatchPlain, MatchDeclined,
       ToMonitors, Running, InCallback
  <2>3. stage # "NONE"
    BY <1>0, <2>1, <2>2 DEF FirstInv, Untouched
  <2>4. verdict' = verdict /\ stage' # "NONE"
    BY <1>0, <2>1, <2>3, LandingType DEF GoRemoveStep, GoNextStage, Phases
  <2> QED BY <2>2, <2>4 DEF FirstInv, Failed
<1>5. CASE RunNextStepWait \/ RunNextStepAct \/ RunEvent
  <2>1. /\ queue # <<>> /\ queue' = Tail(queue) /\ pc = "loop"
        /\ UNCHANGED <<stage, steps, armed, late, verdict, reason, monitors>>
    BY <1>5 DEF RunNextStepWait, RunNextStepAct, RunEvent, AtHead
  <2>2. Holds(queue', "fail") => Holds(queue, "fail")
    BY <1>0, <2>1, HoldsTail
  <2>3. pc' \in {"loop", "matching"} \/ (pc' = "executing" /\ steps # <<>>)
    BY <1>5 DEF RunNextStepWait, RunNextStepAct, RunEvent, AtHead
  <2> QED BY <2>1, <2>2, <2>3
      DEF FirstInv, Untouched, Failed, Running, InCallback
<1>6. CASE RunQuit
  BY <1>6 DEF RunQuit, FirstInv, Failed, Running, InCallback
<1>7. CASE \/ NoMatch \/ MonitorReturns \/ EventDone
           \/ MatchDeclined /\ Info[steps[at]].kind # "list"
           \/ \E i \in 1..Len(steps) : \/ MatchIncomplete(i)
                                       \/ MatchExhausted(i) \/ MatchCallback(i)
           \/ \E n \in Monitors : CallMonitor(n)
  <2>1. /\ UNCHANGED <<stage, steps, queue, armed, late, verdict, reason, monitors>>
        /\ pc \in Running
    BY <1>7 DEF NoMatch, MonitorReturns, EventDone, MatchDeclined,
       MatchIncomplete, MatchExhausted, MatchCallback, CallMonitor, Running,
       InCallback
  <2>2. stage = "NONE" => pc' \in {"loop", "matching", "monitors"}
    <3> SUFFICES ASSUME stage = "NONE" PROVE pc' \in {"loop", "matching", "monitors"}
      OBVIOUS
    <3>1. Untouched
      BY <2>1 DEF FirstInv
    <3>2. Len(steps) = 0 /\ pc \notin InCallback /\ DOMAIN monitors = {}
      BY <3>1 DEF Untouched
    <3> QED BY <1>7, <3>2 DEF NoMatch, MonitorReturns, EventDone,
        MatchDeclined, MatchIncomplete, MatchExhausted, MatchCallback,
        CallMonitor, ToMonitors, InCallback
  <2>3. pc' \notin {"ready", "opening"}
    BY <1>7 DEF NoMatch, MonitorReturns, EventDone, MatchDeclined,
       MatchIncomplete, MatchExhausted, MatchCallback, CallMonitor, ToMonitors
  <2> QED BY <2>1, <2>2, <2>3 DEF FirstInv, Untouched, Failed, InCallback
<1>8. CASE Callback
  <2>1. /\ UNCHANGED <<stage, steps, armed, late, verdict, reason>>
        /\ pc \in Running /\ (pc' = pc \/ pc' = "raised")
    BY <1>8 DEF Callback, CallSetFail, CallStop, CallRaises, StopProcessReturns,
       CallAddUserEvent, CallAddMonitor, CallRemoveMonitor, CallStartProcess,
       CallStopProcess, UserCode, Running, InCallback
  <2>2. pc \in InCallback \/ steps # <<>>
    <3>1. CallRaises => pc \in InCallback \/ 1..Len(steps) # {}
      BY DEF CallRaises
    <3>2. 1..Len(steps) # {} => steps # <<>>
      BY <1>0
    <3>3. CASE Callback /\ ~CallRaises
      BY <3>3 DEF Callback, CallSetFail, CallStop, StopProcessReturns,
         CallAddUserEvent, CallAddMonitor, CallRemoveMonitor, CallStartProcess,
         CallStopProcess, UserCode
    <3> QED BY <1>8, <3>1, <3>2, <3>3
  <2>3. stage # "NONE"
    BY <2>1, <2>2 DEF FirstInv, Untouched
  <2> QED BY <2>1, <2>3 DEF FirstInv, Failed, Running, InCallback
<1>9. CASE MainLoop
  BY <1>2, <1>3, <1>4, <1>5, <1>6, <1>9 DEF MainLoop
<1>10. CASE ProcessEvent
  BY <1>4, <1>7, <1>10 DEF ProcessEvent
<1> QED BY <1>1, <1>8, <1>9, <1>10 DEF MainThread

(* Every step of the first attempt keeps a failure. *)
LEMMA FirstStep ==
    ASSUME TypeOK, LocalsOK, VerdictInv, FirstInv, [Next]_vars
    PROVE  FirstInv'
<1> SUFFICES ASSUME attempt = 1, attempt' = 1 PROVE FirstInv'
  BY AttemptStep DEF TypeOK, FirstInv
<1> USE DEF vars, phaseVars, loopVars, timerVars, threadVars, local, books,
            budget, history
<1>1. CASE UNCHANGED vars
  BY <1>1 DEF FirstInv, Untouched, Failed
<1>2. CASE TimerThread
  <2>1. UNCHANGED <<stage, verdict, reason, pc>>
    BY <1>2 DEF TimerThread, TimerExpires, TimerCallsBack
  <2>2. armed # NoTimer \/ late # {}
    BY <1>2 DEF TimerThread, TimerExpires
  <2> QED BY <2>1, <2>2 DEF FirstInv, Untouched, Failed
<1>3. CASE \E s \in Sources : Reader(s)
  <2>1. UNCHANGED <<stage, steps, verdict, reason, armed, late, pc, monitors>>
    BY <1>3 DEF Reader, ReadFails, ReaderStops, ReadLine, OrphanLine,
     OrphanDies
  <2>2. \/ queue' = queue
        \/ \E s \in Sources, l \in Lines : queue' = Append(queue, EventItem(s, l))
    BY <1>3 DEF Reader, ReadFails, ReaderStops, ReadLine, OrphanLine,
     OrphanDies
  <2>3. \A s \in Sources, l \in Lines :
           EventItem(s, l) \in Items /\ EventItem(s, l).kind # "fail"
    BY DEF EventItem, Items, Events
  <2>5. \A x \in Items : Holds(Append(queue, x), "fail")
                            <=> Holds(queue, "fail") \/ x.kind = "fail"
    BY HoldsAppend DEF TypeOK
  <2>4. Holds(queue', "fail") => Holds(queue, "fail")
    BY <2>2, <2>3, <2>5
  <2> QED BY <2>1, <2>4 DEF FirstInv, Untouched, Failed
<1>4. CASE MainThread
  BY <1>4, FirstMain
<1> QED BY <1>1, <1>2, <1>3, <1>4 DEF Next, Terminated

(* In its first attempt a failure that was recorded stays the verdict,     *)
(* whatever is queued when it happens and however the test ends.           *)
THEOREM FirstAttemptFailureKept == Spec => [](attempt = 1 => FailureKept)
<1> DEFINE Inv == TypeOK /\ LocalsOK /\ VerdictInv /\ FirstInv
<1>1. Init => Inv
  <2>1. Init => VerdictInv
    BY DEF Init, VerdictInv, Running, InCallback
  <2>2. Init => FirstInv
    BY DEF Init, FirstInv, Untouched, Failed, Running, InCallback, Holds
  <2> QED BY <2>1, <2>2, TypeInit
<1>2. Inv /\ [Next]_vars => Inv'
  BY TypeStep, VerdictStep, FirstStep
<1>3. Inv => (attempt = 1 => FailureKept)
  BY DEF FirstInv, Failed, FailureKept
<1> QED BY <1>1, <1>2, <1>3, PTL DEF Spec

(***************************************************************************)
(* Refinement.  Every step of a test case is a step of its abstract life   *)
(* cycle or leaves it unchanged.                                           *)
(***************************************************************************)
(* __next_stage is a step of the abstract life cycle. *)
LEMMA NextStageAbstract ==
    ASSUME stage \in Stages, NEW v \in {verdict, "FAIL"}, NEW rest, NEW q,
           GoNextStage(v, rest, q), script' = script
    PROVE  [Abstract!Next]_(Abstract!vars)
<1> USE DEF GoNextStage, Landing, LandSetup, LandTest, LandTeardown,
        Abstract!Next, Abstract!vars, Abstract!Empty, Abstract!Between,
        Abstract!Order
<1>1. CASE stage = "NONE"
  <2>1. Abstract!Start
    BY <1>1 DEF Abstract!Start
  <2> QED BY <2>1
<1>2. CASE stage = "SETUP" /\ v # "FAIL"
  <2>1. Abstract!PhaseDone
    BY <1>2 DEF Abstract!PhaseDone
  <2> QED BY <2>1
<1>3. CASE stage = "SETUP" /\ v = "FAIL"
  <2>1. Abstract!PhaseFails
    BY <1>3 DEF Abstract!PhaseFails
  <2> QED BY <2>1
<1>4. CASE stage \in {"TEST", "TEARDOWN"}
  <2>1. Abstract!PhaseDone \/ Abstract!PhaseFails
    BY <1>4 DEF Abstract!PhaseDone, Abstract!PhaseFails
  <2> QED BY <2>1
<1>5. CASE stage = "DONE"
  <2>1. Abstract!PhaseFails \/ UNCHANGED Abstract!vars
    BY <1>5 DEF Abstract!PhaseFails
  <2> QED BY <2>1
<1> QED BY <1>1, <1>2, <1>3, <1>4, <1>5 DEF Stages, Phases

(* __remove_step is one, or leaves stage and verdict alone. *)
LEMMA RemoveStepAbstract ==
    ASSUME stage \in Stages, NEW i, NEW q, GoRemoveStep(i, q), script' = script
    PROVE  [Abstract!Next]_(Abstract!vars)
<1>1. CASE Without(i) = <<>>
  <2>1. GoNextStage(verdict, Without(i), q)
    BY <1>1 DEF GoRemoveStep
  <2> QED BY <2>1, NextStageAbstract
<1>2. CASE Without(i) # <<>>
  BY <1>2 DEF GoRemoveStep, Abstract!vars
<1> QED BY <1>1, <1>2

(* Every step is one, or leaves the abstract variables alone. *)
LEMMA LifecycleStep ==
    ASSUME TypeOK, VerdictInv, [Next]_vars
    PROVE  [Abstract!Next]_(Abstract!vars)
<1> USE DEF vars, phaseVars, loopVars, timerVars, threadVars, local, books,
            budget, history
<1>0. stage \in Stages
  BY DEF TypeOK
<1>1. CASE UNCHANGED <<script, stage, verdict>>
  BY <1>1 DEF Abstract!vars
<1>2. CASE RunNextStepEmpty \/ RunFail \/ HandleException
  <2>1. /\ script' = script
        /\ \E v, rest, q : v \in {verdict, "FAIL"} /\ GoNextStage(v, rest, q)
    BY <1>2 DEF RunNextStepEmpty, RunFail, HandleException, GoFail
  <2> QED BY <1>0, <2>1, NextStageAbstract
<1>3. CASE \/ StepActed \/ MatchAccepted
           \/ MatchDeclined /\ Info[steps[at]].kind = "list"
           \/ \E i \in 1..Len(steps) : MatchPlain(i)
  <2>1. script' = script /\ \E i, q : GoRemoveStep(i, q)
    BY <1>3 DEF StepActed, MatchAccepted, MatchDeclined, MatchPlain
  <2> QED BY <1>0, <2>1, RemoveStepAbstract
<1>4. CASE OpenFails
  <2>1. Abstract!CannotStart /\ script' = script
    BY <1>4 DEF OpenFails, VerdictInv, Abstract!CannotStart
  <2> QED BY <2>1 DEF Abstract!Next
<1>5. CASE Repeat
  <2>1. Abstract!Reset /\ script' = script
    BY <1>5 DEF Repeat, Abstract!Reset
  <2> QED BY <2>1 DEF Abstract!Next
<1>6. CASE RunFrame
  <2>1. \/ HandleException \/ OpenFails \/ Repeat
        \/ UNCHANGED <<script, stage, verdict>>
    BY <1>6 DEF RunFrame, Skip, Begin, EnterLoop, Cleanup, CloseDevice,
       LeftProcessStopped, RunReturns, Finish, OpenDevice, StopDevice,
       StopLeftProcess
  <2> QED BY <1>1, <1>2, <1>4, <1>5, <2>1
<1>7. CASE MainLoop
  <2>1. \/ RunNextStepEmpty \/ RunFail \/ StepActed
        \/ UNCHANGED <<script, stage, verdict>>
    BY <1>7 DEF MainLoop, RunNextStepWait, RunNextStepAct, RunQuit, RunEvent
  <2> QED BY <1>1, <1>2, <1>3, <2>1
<1>8. CASE ProcessEvent
  <2>1. \/ MatchAccepted \/ \E i \in 1..Len(steps) : MatchPlain(i)
        \/ MatchDeclined /\ Info[steps[at]].kind = "list"
        \/ UNCHANGED <<script, stage, verdict>>
    BY <1>8 DEF ProcessEvent, NoMatch, MatchDeclined, MonitorReturns, EventDone,
       MatchIncomplete, MatchExhausted, MatchCallback, CallMonitor
  <2> QED BY <1>1, <1>3, <2>1
<1>9. CASE Callback
  <2>1. UNCHANGED <<script, stage, verdict>>
    BY <1>9 DEF Callback, CallSetFail, CallStop, CallRaises, StopProcessReturns,
       CallAddUserEvent, CallAddMonitor, CallRemoveMonitor, CallStartProcess,
       CallStopProcess
  <2> QED BY <1>1, <2>1
<1>10. CASE TimerThread \/ \E s \in Sources : Reader(s)
  <2>1. UNCHANGED <<script, stage, verdict>>
    BY <1>10 DEF TimerThread, TimerExpires, TimerCallsBack, Reader, ReadFails,
       ReaderStops, ReadLine, OrphanLine,
     OrphanDies
  <2> QED BY <1>1, <2>1
<1>11. CASE UNCHANGED vars
  BY <1>1, <1>11
<1> QED BY <1>6, <1>7, <1>8, <1>9, <1>10, <1>11 DEF Next, MainThread, Terminated

(* The test case with its threads, timers and queue implements the life    *)
(* cycle its author relies on, in every attempt.                           *)
THEOREM Refinement == Spec => Lifecycle
<1>1. Init => VerdictInv /\ Abstract!Init
  BY DEF Init, VerdictInv, Running, InCallback, Abstract!Init
<1>2. TypeOK /\ LocalsOK /\ [Next]_vars => (TypeOK /\ LocalsOK)'
  BY TypeStep
<1>3. TypeOK /\ VerdictInv /\ [Next]_vars => VerdictInv'
  BY VerdictStep
<1>4. TypeOK /\ VerdictInv /\ [Next]_vars => [Abstract!Next]_(Abstract!vars)
  BY LifecycleStep
<1> QED BY <1>1, <1>2, <1>3, <1>4, TypeInit, PTL DEF Spec, Lifecycle, Abstract!Spec

(***************************************************************************)
(* How a test ends.  The main loop is left at DONE, unless user code stops *)
(* it or something is raised, and a test that has reached DONE has nothing *)
(* left to do.                                                             *)
(***************************************************************************)
Behind == {"cleanup", "closing", "returned", "over", "crashed"}

EndInv ==
    /\ pc \in Running \cup {"opening"} /\ Holds(queue, "quit") => stage = "DONE"
    /\ pc \in Behind => \/ stage = "DONE"
                        \/ stage = "NONE" /\ reason \in {"open", "skipped"}
                        \/ reason = "exception"

(* __next_stage queues a quit only when it reaches DONE, and never leaves  *)
(* it.                                                                     *)
LEMMA NextStageEnds ==
    ASSUME TypeOK, NEW v \in Verdicts, NEW rest \in Seq(StepIds),
           NEW q \in Seq(Items), GoNextStage(v, rest, q)
    PROVE  /\ Holds(queue', "quit") => Holds(q, "quit") \/ stage' = "DONE"
           /\ stage = "DONE" => stage' = "DONE"
<1> DEFINE to == Landing(v)
           qt == QuitAt(to)
           toks == [i \in 1..Hops(v, to) |-> NextStep]
<1>1. stage' = to /\ Hops(v, to) \in 0..4
  BY LandingType DEF TypeOK, GoNextStage
<1>2. qt \in Seq(Items) /\ toks \in Seq(Items)
  <2>1. <<Quit>> \in Seq(Items) /\ <<>> \in Seq(Items)
    BY DEF Items
  <2>2. qt \in Seq(Items)
    BY <2>1 DEF QuitAt
  <2> QED BY <1>1, <2>2, TokensType
<1>3. queue' = (q \o qt) \o toks
  BY DEF GoNextStage
<1>4. ~Holds(toks, "quit")
  BY <1>1 DEF NextStep, Holds
<1>5. to # "DONE" => ~Holds(qt, "quit")
  BY DEF QuitAt, Holds
<1>6. stage = "DONE" => stage' = "DONE"
  BY <1>1 DEF Landing
<1> HIDE DEF qt, toks, to
<1>7. Holds(queue', "quit") =>
        Holds(q, "quit") \/ Holds(qt, "quit") \/ Holds(toks, "quit")
  <2>1. q \o qt \in Seq(Items)
    BY <1>2
  <2> QED BY <1>2, <1>3, <2>1, HoldsConcat
<1> QED BY <1>1, <1>4, <1>5, <1>6, <1>7

(* So does __remove_step. *)
LEMMA RemoveStepEnds ==
    ASSUME TypeOK, NEW i \in 1..Len(steps), GoRemoveStep(i, queue)
    PROVE  /\ Holds(queue', "quit") => Holds(queue, "quit") \/ stage' = "DONE"
           /\ stage = "DONE" => stage' = "DONE"
<1> DEFINE rest == RemoveAt(steps, i)
<1>1. rest \in Seq(StepIds) /\ queue \in Seq(Items) /\ verdict \in Verdicts
  BY RemoveAtType DEF TypeOK
<1>2. CASE rest = <<>>
  <2>1. GoNextStage(verdict, rest, queue)
    BY <1>2 DEF GoRemoveStep, Without
  <2> QED BY <1>1, <2>1, NextStageEnds
<1>3. CASE rest # <<>>
  <2>1. queue' = Append(queue, NextStep) /\ stage' = stage
    BY <1>3 DEF GoRemoveStep, Without, Requeue
  <2>2. NextStep \in Items /\ NextStep.kind # "quit"
    BY DEF NextStep, Items
  <2> QED BY <1>1, <2>1, <2>2, HoldsAppend
<1> QED BY <1>2, <1>3

(* The steps of the main thread that change the stage while it is in the   *)
(* main loop: it removes a step, or it goes to the next stage.             *)
Removes ==
    \/ StepActed \/ MatchAccepted
    \/ MatchDeclined /\ Info[steps[at]].kind = "list"
    \/ \E i \in 1..Len(steps) : MatchPlain(i)

(* Each of them removes one of the steps and goes back to the loop.        *)
LEMMA RemovesOne ==
    ASSUME TypeOK, LocalsOK, Removes
    PROVE  /\ \E i \in 1..Len(steps) : GoRemoveStep(i, queue)
           /\ pc \in {"executing", "matching", "matched"}
           /\ pc' \in {"loop", "monitors"}
           /\ UNCHANGED <<script, reason, late, mainloop, monitors, attempt,
                          reported, cut>>
<1> USE DEF vars, phaseVars, loopVars, timerVars, threadVars, local, books,
            budget, history
<1>1. CASE StepActed
  BY <1>1 DEF StepActed, LocalsOK, TypeOK
<1>2. CASE MatchAccepted
  BY <1>2 DEF MatchAccepted, ToMonitors, LocalsOK
<1>3. CASE MatchDeclined /\ Info[steps[at]].kind = "list"
  BY <1>3 DEF MatchDeclined, ToMonitors, LocalsOK
<1>4. CASE \E i \in 1..Len(steps) : MatchPlain(i)
  BY <1>4 DEF MatchPlain, ToMonitors
<1> QED BY <1>1, <1>2, <1>3, <1>4 DEF Removes

Advances == RunNextStepEmpty \/ RunFail

(* Each of them takes the callback at the head of the queue.               *)
LEMMA AdvancesOne ==
    ASSUME TypeOK, Advances
    PROVE  /\ pc = "loop" /\ pc' = "loop" /\ queue # <<>>
           /\ Tail(queue) \in Seq(Items)
           /\ \E v \in {verdict, "FAIL"} : GoNextStage(v, <<>>, Tail(queue))
           /\ Head(queue).kind \in {"fail", "next_step"}
           /\ UNCHANGED <<script, late, mainloop, monitors, attempt, performed,
                          reported>>
           /\ \/ RunFail /\ Cut
              \/ RunNextStepEmpty /\ steps = <<>> /\ cut' = cut
<1> USE DEF vars, phaseVars, loopVars, timerVars, threadVars, local, books,
            budget, history
<1>1. CASE RunNextStepEmpty
  <2>1. GoNextStage(verdict, <<>>, Tail(queue)) /\ queue # <<>>
    BY <1>1 DEF RunNextStepEmpty, AtHead
  <2>2. /\ pc = "loop" /\ pc' = "loop" /\ Head(queue).kind = "next_step"
        /\ UNCHANGED <<script, late, mainloop, monitors, attempt, performed,
                       reported, cut>>
        /\ steps = <<>>
    BY <1>1 DEF RunNextStepEmpty, AtHead
  <2>3. Tail(queue) \in Seq(Items)
    BY <2>1, TailType
  <2> QED BY <1>1, <2>1, <2>2, <2>3
<1>2. CASE RunFail
  <2>1. GoNextStage("FAIL", <<>>, Tail(queue))
    BY <1>2 DEF RunFail, GoFail
  <2>2. /\ pc = "loop" /\ pc' = "loop" /\ Head(queue).kind = "fail" /\ Cut
        /\ queue # <<>>
        /\ UNCHANGED <<script, late, mainloop, monitors, attempt, performed,
                       reported>>
    BY <1>2 DEF RunFail, AtHead
  <2>3. Tail(queue) \in Seq(Items)
    BY <2>2, TailType
  <2>4. \E v \in {verdict, "FAIL"} : GoNextStage(v, <<>>, Tail(queue))
    BY <2>1, Zenon
  <2>5. Head(queue).kind \in {"fail", "next_step"} /\ RunFail /\ Cut
    BY <1>2, <2>2, Zenon
  <2> HIDE DEF vars, phaseVars, loopVars, timerVars, threadVars, local, books,
               budget, history
  <2> QED BY <2>2, <2>3, <2>4, <2>5, Zenon
<1> QED BY <1>1, <1>2 DEF Advances

(* The others leave stage, verdict and steps as they are while the test is *)
(* running.                                                                *)
LEMMA OthersStay ==
    ASSUME TypeOK, LocalsOK, MainLoop \/ ProcessEvent \/ Callback,
           ~Removes, ~Advances
    PROVE  /\ pc \in Running
           /\ UNCHANGED <<script, stage, verdict, reason, steps, performed, attempt,
                          late, cut>>
           /\ pc' \in Running \cup {"raised"} \/ RunQuit
<1> USE DEF vars, phaseVars, loopVars, timerVars, threadVars, local, books,
            budget, history, Running, InCallback
<1>1. CASE MainLoop
  BY <1>1 DEF MainLoop, RunNextStepWait, RunNextStepAct, RunQuit, RunEvent,
     AtHead, Removes, Advances
<1>2. CASE ProcessEvent
  BY <1>2 DEF ProcessEvent, NoMatch, MatchDeclined, MonitorReturns, EventDone,
     MatchIncomplete, MatchExhausted, MatchCallback, CallMonitor, ToMonitors,
     Removes
<1>3. CASE Callback
  BY <1>3 DEF Callback, CallSetFail, CallStop, CallRaises, StopProcessReturns,
     CallAddUserEvent, CallAddMonitor, CallRemoveMonitor, CallStartProcess,
     CallStopProcess, UserCode
<1> QED BY <1>1, <1>2, <1>3

(* What the others do to the queue. *)
LEMMA OthersQueue ==
    ASSUME TypeOK, LocalsOK, MainLoop \/ ProcessEvent \/ Callback,
           ~Removes, ~Advances, ~RunQuit
    PROVE  \/ queue' = queue
           \/ /\ queue # <<>> /\ queue' = Tail(queue) /\ pc = "loop"
              /\ Head(queue).kind \in {"next_step", "event"}
           \/ \E x \in Items :
                 /\ queue' = Append(queue, x)
                 /\ x.kind = "quit" => CallStop
<1> USE DEF vars, phaseVars, loopVars, timerVars, threadVars, local, books,
            budget, history
<1>1. CASE MainLoop
  BY <1>1 DEF MainLoop, RunNextStepWait, RunNextStepAct, RunEvent, AtHead,
     Removes, Advances
<1>2. CASE ProcessEvent
  BY <1>2 DEF ProcessEvent, NoMatch, MatchDeclined, MonitorReturns, EventDone,
     MatchIncomplete, MatchExhausted, MatchCallback, CallMonitor, Removes
<1>3. CASE Callback
  <2>1. /\ FailItem("reported", Now) \in Items /\ Quit \in Items
        /\ FailItem("reported", Now).kind # "quit"
    BY DEF TypeOK, FailItem, Items, Now, Births
  <2>2. \A s \in Sources, l \in Lines :
           EventItem(s, l) \in Items /\ EventItem(s, l).kind # "quit"
    BY DEF EventItem, Items, Events
  <2> QED
    BY <1>3, <2>1, <2>2 DEF Callback, CallSetFail, CallStop, CallRaises,
       StopProcessReturns, CallAddUserEvent, CallAddMonitor, CallRemoveMonitor,
       CallStartProcess, CallStopProcess
<1> QED BY <1>1, <1>2, <1>3

(* Timers and readers add to the queue what is not a quit. *)
LEMMA ThreadsAdd ==
    ASSUME TypeOK, TimerThread \/ \E s \in Sources : Reader(s)
    PROVE  /\ UNCHANGED <<script, stage, verdict, reason, steps, performed,
                          attempt, pc, reported, cut, monitors>>
           /\ \/ queue' = queue
              \/ \E x \in Items : queue' = Append(queue, x) /\ x.kind # "quit"
<1> USE DEF vars, phaseVars, loopVars, timerVars, threadVars, local, books,
            budget, history
<1>1. \A t \in late : FailItem("timeout", t) \in Items
                       /\ FailItem("timeout", t).kind # "quit"
  BY DEF FailItem, Items, Timers, Births, TypeOK, Stages
<1>2. \A s \in Sources, l \in Lines :
         EventItem(s, l) \in Items /\ EventItem(s, l).kind # "quit"
  BY DEF EventItem, Items, Events
<1>3. CASE TimerThread
  BY <1>1, <1>3 DEF TimerThread, TimerExpires, TimerCallsBack
<1>4. CASE \E s \in Sources : Reader(s)
  BY <1>2, <1>4 DEF Reader, ReadFails, ReaderStops, ReadLine, OrphanLine,
     OrphanDies
<1> QED BY <1>3, <1>4

(* Every step keeps EndInv, as long as user code does not stop the loop. *)
LEMMA EndStep ==
    ASSUME "stop" \notin Calls,
           TypeOK, LocalsOK, VerdictInv, EndInv, [Next]_vars
    PROVE  EndInv'
<1> USE DEF vars, phaseVars, loopVars, timerVars, threadVars, local, books,
            budget, history
<1>0. queue \in Seq(Items) /\ verdict \in Verdicts
  BY DEF TypeOK
<1>1. CASE UNCHANGED vars
  BY <1>1 DEF EndInv
<1>2. CASE RunFrame
  <2>1. CASE EnterLoop
    <3>1. NextStep \in Items /\ NextStep.kind # "quit"
      BY DEF NextStep, Items
    <3>2. Holds(queue', "quit") => Holds(queue, "quit")
      BY <1>0, <2>1, <3>1, HoldsAppend DEF EnterLoop
    <3>3. pc = "opening" /\ pc' = "loop" /\ stage' = stage
      BY <2>1 DEF EnterLoop
    <3> QED BY <3>2, <3>3 DEF EndInv, Behind
  <2>2. CASE OpenFails
    BY <2>2 DEF OpenFails, EndInv, VerdictInv, Running, InCallback, Behind
  <2>3. CASE Skip
    BY <2>3 DEF Skip, EndInv, VerdictInv, Running, InCallback, Behind
  <2>4. CASE HandleException
    BY <2>4 DEF HandleException, GoFail, EndInv, Running, InCallback, Behind
  <2>5. CASE Begin
    <3>1. ~Holds(queue', "quit") /\ pc' = "opening"
      BY <2>5 DEF Begin, Holds
    <3> QED BY <3>1 DEF EndInv, Behind
  <2>7. CASE Repeat \/ \E d \in Devices : OpenDevice(d)
    BY <2>7 DEF Repeat, OpenDevice, EndInv, Running, InCallback, Behind
  <2>6. CASE \/ Cleanup \/ CloseDevice \/ LeftProcessStopped \/ RunReturns \/ Finish
             \/ \E d \in Devices : StopDevice(d)
             \/ \E p \in Processes : StopLeftProcess(p)
    BY <2>6 DEF Cleanup, CloseDevice, LeftProcessStopped, RunReturns, Finish,
       StopDevice, StopLeftProcess, EndInv, Running, InCallback, Behind
  <2> QED BY <1>2, <2>1, <2>2, <2>3, <2>4, <2>5, <2>6, <2>7 DEF RunFrame
<1>3. CASE Removes
  <2>1. PICK i \in 1..Len(steps) : GoRemoveStep(i, queue)
    BY <1>3, RemovesOne
  <2>2. pc \in Running /\ pc' \in {"loop", "monitors"}
    BY <1>3, RemovesOne DEF Running, InCallback
  <2>3. /\ Holds(queue', "quit") => Holds(queue, "quit") \/ stage' = "DONE"
        /\ stage = "DONE" => stage' = "DONE"
    BY <2>1, RemoveStepEnds
  <2> QED BY <2>2, <2>3 DEF EndInv, Behind
<1>4. CASE Advances
  <2>1. /\ pc = "loop" /\ pc' = "loop" /\ queue # <<>>
        /\ Tail(queue) \in Seq(Items)
    BY <1>4, AdvancesOne
  <2>2. PICK v \in {verdict, "FAIL"} : GoNextStage(v, <<>>, Tail(queue))
    BY <1>4, AdvancesOne
  <2>3. v \in Verdicts /\ <<>> \in Seq(StepIds)
    BY <1>0 DEF Verdicts
  <2>4. /\ Holds(queue', "quit") => Holds(Tail(queue), "quit") \/ stage' = "DONE"
        /\ stage = "DONE" => stage' = "DONE"
    BY <2>1, <2>2, <2>3, NextStageEnds
  <2>5. Holds(Tail(queue), "quit") => Holds(queue, "quit")
    BY <1>0, <2>1, HoldsTail
  <2> QED BY <2>1, <2>4, <2>5 DEF EndInv, Running, Behind
<1>5. CASE RunQuit
  <2>1. Holds(queue, "quit") /\ pc = "loop" /\ pc' = "cleanup" /\ stage' = stage
    BY <1>0, <1>5 DEF RunQuit, AtHead, Holds
  <2> QED BY <2>1 DEF EndInv, Running, InCallback, Behind
<1>6. CASE /\ MainLoop \/ ProcessEvent \/ Callback
           /\ ~Removes /\ ~Advances /\ ~RunQuit
  <2>1. ~CallStop
    BY DEF CallStop, UserCode
  <2>2. Holds(queue', "quit") => Holds(queue, "quit")
    <3>1. CASE queue' = queue
      BY <3>1
    <3>2. CASE queue # <<>> /\ queue' = Tail(queue)
      BY <1>0, <3>2, HoldsTail
    <3>3. CASE \E x \in Items : queue' = Append(queue, x) /\ x.kind # "quit"
      BY <1>0, <3>3, HoldsAppend
    <3> QED BY <1>6, <2>1, <3>1, <3>2, <3>3, OthersQueue
  <2>3. /\ pc \in Running /\ stage' = stage /\ reason' = reason
        /\ pc' \in Running \cup {"raised"}
    BY <1>6, OthersStay
  <2> QED BY <2>2, <2>3 DEF EndInv, Running, InCallback, Behind
<1>7. CASE TimerThread \/ \E s \in Sources : Reader(s)
  <2>1. UNCHANGED <<stage, reason, pc>>
    BY <1>7, ThreadsAdd
  <2>2. Holds(queue', "quit") => Holds(queue, "quit")
    BY <1>0, <1>7, ThreadsAdd, HoldsAppend
  <2> QED BY <2>1, <2>2 DEF EndInv
<1> QED
  BY <1>1, <1>2, <1>3, <1>4, <1>5, <1>6, <1>7 DEF Next, MainThread, Terminated

(***************************************************************************)
(* Clean starts.                                                           *)
(***************************************************************************)
(* A test has no steps to do before its first phase and behind its last.   *)
NothingLeft == stage \in {"NONE", "DONE"} => steps = <<>>

(* __next_stage, called with all steps done, leaves none at DONE. *)
LEMMA NextStageLeaves ==
    ASSUME stage \in Stages, NEW v \in Verdicts, NEW q, GoNextStage(v, <<>>, q)
    PROVE  NothingLeft'
BY LandingType DEF GoNextStage, NothingLeft, Phases

(* Every step keeps NothingLeft, as long as an attempt starts from NONE or *)
(* DONE.                                                                   *)
LEMMA LeftStep ==
    ASSUME TypeOK, LocalsOK, NothingLeft, Repeat => stage \in {"NONE", "DONE"},
           [Next]_vars
    PROVE  NothingLeft'
<1> USE DEF vars, phaseVars, loopVars, timerVars, threadVars, local, books,
            budget, history
<1>0. /\ steps \in Seq(StepIds) /\ verdict \in Verdicts /\ stage \in Stages
      /\ "FAIL" \in Verdicts
  BY DEF TypeOK, Verdicts
<1>1. CASE UNCHANGED <<stage, steps>>
  BY <1>1 DEF NothingLeft
<1>2. CASE RunFrame
  <2>1. CASE HandleException
    BY <1>0, <2>1, NextStageLeaves DEF HandleException, GoFail
  <2>2. CASE Repeat
    BY <2>2 DEF Repeat, NothingLeft
  <2>3. CASE ~HandleException /\ ~Repeat
    <3>1. UNCHANGED <<stage, steps>>
      BY <1>2, <2>3 DEF RunFrame, Skip, Begin, OpenFails, EnterLoop, Cleanup,
         CloseDevice, LeftProcessStopped, RunReturns, Finish, OpenDevice,
         StopDevice, StopLeftProcess
    <3> QED BY <1>1, <3>1
  <2> QED BY <2>1, <2>2, <2>3
<1>3. CASE Removes
  <2>1. PICK i \in 1..Len(steps) : GoRemoveStep(i, queue)
    BY <1>3, RemovesOne
  <2>2. CASE Without(i) = <<>>
    <3>1. GoNextStage(verdict, <<>>, queue)
      BY <2>1, <2>2 DEF GoRemoveStep
    <3> QED BY <1>0, <3>1, NextStageLeaves
  <2>3. CASE Without(i) # <<>>
    <3>1. stage' = stage /\ steps # <<>>
      BY <1>0, <2>1, <2>3 DEF GoRemoveStep
    <3> QED BY <3>1 DEF NothingLeft
  <2> QED BY <2>2, <2>3
<1>4. CASE Advances
  <2>1. PICK v \in {verdict, "FAIL"} : GoNextStage(v, <<>>, Tail(queue))
    BY <1>4, AdvancesOne
  <2> QED BY <1>0, <2>1, NextStageLeaves
<1>5. CASE (MainLoop \/ ProcessEvent \/ Callback) /\ ~Removes /\ ~Advances
  <2>1. UNCHANGED <<stage, steps>>
    BY <1>5, OthersStay
  <2> QED BY <1>1, <2>1
<1>6. CASE TimerThread \/ \E s \in Sources : Reader(s)
  <2>1. UNCHANGED <<stage, steps>>
    BY <1>6, ThreadsAdd
  <2> QED BY <1>1, <2>1
<1> QED
  BY <1>1, <1>2, <1>3, <1>4, <1>5, <1>6 DEF Next, MainThread, Terminated

(* The reason tells an exception, and nothing else tells one. *)
LEMMA ReasonStep ==
    ASSUME TypeOK, LocalsOK, reason # "exception", pc # "raised", [Next]_vars
    PROVE  reason' # "exception"
<1> USE DEF vars, phaseVars, loopVars, timerVars, threadVars, local, books,
            budget, history
<1>1. CASE reason' = reason
  BY <1>1
<1>2. CASE RunFrame
  BY <1>2 DEF RunFrame, HandleException, Skip, Begin, OpenFails, EnterLoop,
     Cleanup, CloseDevice, LeftProcessStopped, RunReturns, Finish, OpenDevice,
     StopDevice, StopLeftProcess, Repeat
<1>3. CASE RunFail
  <2>1. Head(queue) \in Items /\ Head(queue).kind = "fail"
    BY <1>3, TailType DEF RunFail, AtHead
  <2>2. Head(queue).reason \in {"timeout", "reported"}
    BY <2>1 DEF Items, NextStep, Quit
  <2> QED BY <1>3, <2>2 DEF RunFail, GoFail
<1>4. CASE RunNextStepEmpty
  BY <1>4 DEF RunNextStepEmpty
<1>5. CASE Removes
  BY <1>1, <1>5, RemovesOne
<1>6. CASE (MainLoop \/ ProcessEvent \/ Callback) /\ ~Removes /\ ~Advances
  BY <1>1, <1>6, OthersStay
<1>7. CASE TimerThread \/ \E s \in Sources : Reader(s)
  BY <1>1, <1>7, ThreadsAdd
<1> QED
  BY <1>1, <1>2, <1>3, <1>4, <1>5, <1>6, <1>7
  DEF Next, MainThread, Terminated, Advances

(* An attempt starts with nothing of an earlier one left to do, whatever   *)
(* the earlier ones have met but an exception.                             *)
THEOREM StartsClean ==
    ASSUME "stop" \notin Calls
    PROVE  Spec /\ [](pc # "raised") => []AttemptStartsClean
<1> DEFINE Inv == /\ TypeOK /\ LocalsOK /\ VerdictInv /\ EndInv
                  /\ NothingLeft /\ reason # "exception"
           Calm == pc # "raised"
<1>1. Init => Inv
  <2>1. Init => VerdictInv /\ EndInv
    BY DEF Init, VerdictInv, EndInv, Holds, Running, InCallback, Behind
  <2>2. Init => NothingLeft /\ reason # "exception"
    BY DEF Init, NothingLeft
  <2> QED BY <2>1, <2>2, TypeInit
<1>2. Inv /\ Calm /\ [Next]_vars => Inv'
  <2> SUFFICES ASSUME Inv, Calm, [Next]_vars PROVE Inv'
    OBVIOUS
  <2>1. Repeat => stage \in {"NONE", "DONE"}
    BY DEF Repeat, EndInv, Behind
  <2> QED BY <2>1, TypeStep, VerdictStep, EndStep, LeftStep, ReasonStep
<1>3. Inv => AttemptStartsClean
  BY DEF NothingLeft, AttemptStartsClean
<1> HIDE DEF Inv
<1> QED BY <1>1, <1>2, <1>3, PTL DEF Spec

(* Nor does a repeated test ever sit in an idle main loop with a step that *)
(* nobody will run or without a timer, unless an earlier attempt was       *)
(* stopped by user code or ended by an exception.                          *)
THEOREM NeverStuckAgain ==
    ASSUME "stop" \notin Calls
    PROVE  Spec /\ [](pc # "raised") => []NeverStuck
<1> DEFINE Inv == /\ TypeOK /\ LocalsOK /\ ReaderInv /\ VerdictInv /\ EndInv
                  /\ NothingLeft /\ reason # "exception" /\ ProgressInv
           Calm == pc # "raised"
<1>1. Init => Inv
  <2>1. Init => VerdictInv /\ EndInv
    BY DEF Init, VerdictInv, EndInv, Holds, Running, InCallback, Behind
  <2>2. Init => NothingLeft /\ reason # "exception"
    BY DEF Init, NothingLeft
  <2>3. Init => ReaderInv /\ ProgressInv
    BY DEF Init, ReaderInv, Alive, Idle, Sources, ProgressInv, Running, InCallback
  <2> QED BY <2>1, <2>2, <2>3, TypeInit
<1>2. Inv /\ Calm /\ [Next]_vars => Inv'
  <2> SUFFICES ASSUME Inv, Calm, [Next]_vars PROVE Inv'
    OBVIOUS
  <2>1. Repeat => stage \in {"NONE", "DONE"}
    BY DEF Repeat, EndInv, Behind
  <2>2. Repeat => steps = <<>>
    BY <2>1 DEF NothingLeft
  <2> QED
    BY <2>1, <2>2, TypeStep, ReaderStep, VerdictStep, EndStep, LeftStep, ReasonStep,
       ProgressStep
<1>3. Inv => NeverStuck
  BY ProgressEnough
<1> HIDE DEF Inv
<1> QED BY <1>1, <1>2, <1>3, PTL DEF Spec

(***************************************************************************)
(* Reported failures.  From the call of set_fail to the end of the test    *)
(* the failure is the verdict, or is in the queue in front of the quit     *)
(* that would forget it.                                                   *)
(***************************************************************************)
FailAhead(q) ==
    \E i \in 1..Len(q) : /\ q[i].kind = "fail"
                         /\ \A k \in 1..i : q[k].kind # "quit"

ReportInv ==
    /\ pc \in Running => DOMAIN monitors = {} /\ pc # "monitor"
    /\ pc = "opening" => ~reported
    /\ reported /\ pc \in Running =>
          stage # "NONE" /\ (verdict = "FAIL" \/ FailAhead(queue))
    /\ reported /\ pc \in Behind \cup {"ready"} => verdict = "FAIL"

(* What is put behind a failure leaves it where it is. *)
LEMMA AheadConcat ==
    ASSUME NEW S, NEW a \in Seq(S), NEW b \in Seq(S), FailAhead(a)
    PROVE  FailAhead(a \o b)
<1>1. PICK i \in 1..Len(a) : a[i].kind = "fail" /\ \A k \in 1..i : a[k].kind # "quit"
  BY DEF FailAhead
<1>2. i \in 1..Len(a \o b) /\ \A k \in 1..i : (a \o b)[k] = a[k]
  OBVIOUS
<1>3. (a \o b)[i].kind = "fail" /\ \A k \in 1..i : (a \o b)[k].kind # "quit"
  BY <1>1, <1>2
<1> QED BY <1>2, <1>3 DEF FailAhead

(* ... at the end of the queue as anywhere; and a failure that is appended *)
(* to a queue without a quit has none in front of it.                      *)
LEMMA AheadAppend ==
    ASSUME NEW S, NEW q \in Seq(S), NEW x \in S
    PROVE  /\ FailAhead(q) => FailAhead(Append(q, x))
           /\ x.kind = "fail" /\ ~Holds(q, "quit") => FailAhead(Append(q, x))
<1>1. /\ Len(Append(q, x)) = Len(q) + 1 /\ Len(q) \in Nat
      /\ Append(q, x)[Len(q) + 1] = x
      /\ \A k \in 1..Len(q) : Append(q, x)[k] = q[k]
  OBVIOUS
<1>2. ASSUME FailAhead(q) PROVE FailAhead(Append(q, x))
  <2>1. PICK i \in 1..Len(q) : q[i].kind = "fail" /\ \A k \in 1..i : q[k].kind # "quit"
    BY <1>2 DEF FailAhead
  <2>2. i \in 1..Len(Append(q, x)) /\ \A k \in 1..i : Append(q, x)[k] = q[k]
    BY <1>1
  <2> QED BY <2>1, <2>2 DEF FailAhead
<1>3. ASSUME x.kind = "fail", ~Holds(q, "quit") PROVE FailAhead(Append(q, x))
  <2>1. \A k \in 1..Len(q) : Append(q, x)[k].kind # "quit"
    BY <1>1, <1>3 DEF Holds
  <2>2. \A k \in 1..(Len(q) + 1) : Append(q, x)[k].kind # "quit"
    BY <1>1, <1>3, <2>1
  <2>3. Len(q) + 1 \in 1..Len(Append(q, x))
    BY <1>1
  <2> QED BY <1>1, <1>3, <2>2, <2>3 DEF FailAhead
<1> QED BY <1>2, <1>3

(* The callbacks in front of a failure are called before it ... *)
LEMMA AheadTail ==
    ASSUME NEW S, NEW q \in Seq(S), q # <<>>, FailAhead(q), Head(q).kind # "fail"
    PROVE  FailAhead(Tail(q))
<1>1. /\ Len(Tail(q)) = Len(q) - 1 /\ Len(q) \in Nat /\ Head(q) = q[1]
      /\ \A k \in 1..Len(Tail(q)) : Tail(q)[k] = q[k + 1]
  OBVIOUS
<1>2. PICK i \in 1..Len(q) : q[i].kind = "fail" /\ \A k \in 1..i : q[k].kind # "quit"
  BY DEF FailAhead
<1>3. i - 1 \in 1..Len(Tail(q)) /\ Tail(q)[i - 1] = q[i]
  BY <1>1, <1>2
<1>4. \A k \in 1..(i - 1) : Tail(q)[k].kind # "quit"
  BY <1>1, <1>2
<1> QED BY <1>2, <1>3, <1>4 DEF FailAhead

(* ... and none of them is a quit. *)
LEMMA AheadHead ==
    ASSUME NEW S, NEW q \in Seq(S), q # <<>>, FailAhead(q)
    PROVE  Head(q).kind # "quit"
BY DEF FailAhead

(* __next_stage, from a phase, keeps a failure and what is queued. *)
LEMMA NextStageKeeps ==
    ASSUME TypeOK, NEW v \in Verdicts, NEW q \in Seq(Items),
           GoNextStage(v, <<>>, q), stage # "NONE"
    PROVE  /\ stage' # "NONE" /\ verdict' = v
           /\ FailAhead(q) => FailAhead(queue')
<1> DEFINE to == Landing(v)
           qt == QuitAt(to)
           toks == [i \in 1..Hops(v, to) |-> NextStep]
<1>1. stage' = to /\ verdict' = v /\ Hops(v, to) \in 0..4 /\ to # "NONE"
  BY LandingType DEF TypeOK, GoNextStage, Phases
<1>2. qt \in Seq(Items) /\ toks \in Seq(Items)
  <2>1. <<Quit>> \in Seq(Items) /\ <<>> \in Seq(Items)
    BY DEF Items
  <2>2. qt \in Seq(Items)
    BY <2>1 DEF QuitAt
  <2> QED BY <1>1, <2>2, TokensType
<1>3. queue' = (q \o qt) \o toks
  BY DEF GoNextStage
<1> HIDE DEF qt, toks, to
<1>4. q \o qt \in Seq(Items)
  BY <1>2
<1> QED BY <1>1, <1>2, <1>3, <1>4, AheadConcat

(* Every step keeps ReportInv, as long as user code neither stops the loop *)
(* nor adds a monitor.                                                     *)
LEMMA ReportStep ==
    ASSUME Calls \cap {"stop", "add_monitor"} = {},
           TypeOK, LocalsOK, ReaderInv, VerdictInv, EndInv, NothingLeft,
           pc # "raised", ReportInv, [Next]_vars
    PROVE  ReportInv'
<1> USE DEF vars, phaseVars, loopVars, timerVars, threadVars, local, books,
            budget, history
<1>0. queue \in Seq(Items) /\ verdict \in Verdicts /\ "FAIL" \in Verdicts
      /\ steps \in Seq(StepIds)
  BY DEF TypeOK, Verdicts
<1>1. CASE UNCHANGED vars
  BY <1>1 DEF ReportInv
<1>2. CASE RunFrame
  <2>1. CASE Begin
    BY <2>1 DEF Begin, ReportInv, Running, InCallback, Behind
  <2>2. CASE EnterLoop
    BY <2>2 DEF EnterLoop, ReportInv, Running, InCallback, Behind
  <2>3. CASE Skip \/ OpenFails \/ Repeat \/ \E d \in Devices : OpenDevice(d)
    BY <2>3 DEF Skip, OpenFails, Repeat, OpenDevice, ReportInv, Running,
       InCallback, Behind
  <2>4. CASE HandleException
    BY <2>4 DEF HandleException
  <2>5. CASE \/ Cleanup \/ CloseDevice \/ LeftProcessStopped \/ RunReturns \/ Finish
             \/ \E d \in Devices : StopDevice(d)
             \/ \E p \in Processes : StopLeftProcess(p)
    BY <2>5 DEF Cleanup, CloseDevice, LeftProcessStopped, RunReturns, Finish,
       StopDevice, StopLeftProcess, ReportInv, Running, InCallback, Behind
  <2> QED BY <1>2, <2>1, <2>2, <2>3, <2>4, <2>5 DEF RunFrame
<1>3. CASE Removes
  <2>1. PICK i \in 1..Len(steps) : GoRemoveStep(i, queue)
    BY <1>3, RemovesOne
  <2>2. /\ pc \in Running /\ pc' \in {"loop", "monitors"}
        /\ monitors' = monitors /\ reported' = reported
    BY <1>3, RemovesOne DEF Running, InCallback
  <2>3. stage # "NONE"
    BY <1>0, <2>1 DEF NothingLeft
  <2>4. /\ stage' # "NONE" /\ verdict' = verdict
        /\ FailAhead(queue) => FailAhead(queue')
    <3>1. CASE Without(i) = <<>>
      <4>1. GoNextStage(verdict, <<>>, queue)
        BY <2>1, <3>1 DEF GoRemoveStep
      <4> QED BY <1>0, <2>3, <4>1, NextStageKeeps
    <3>2. CASE Without(i) # <<>>
      <4>1. queue' = Append(queue, NextStep) /\ UNCHANGED <<stage, verdict>>
        BY <2>1, <3>2 DEF GoRemoveStep, Requeue
      <4>2. NextStep \in Items
        BY DEF Items
      <4> QED BY <1>0, <2>3, <4>1, <4>2, AheadAppend
    <3> QED BY <3>1, <3>2
  <2> QED BY <2>2, <2>4 DEF ReportInv, Running, InCallback, Behind
<1>4. CASE Advances
  <2>1. /\ pc = "loop" /\ pc' = "loop" /\ queue # <<>>
        /\ Tail(queue) \in Seq(Items)
        /\ monitors' = monitors /\ reported' = reported
    BY <1>4, AdvancesOne
  <2>2. DOMAIN monitors = {}
    BY <2>1 DEF ReportInv, Running
  <2>3. reported => stage # "NONE" /\ (verdict = "FAIL" \/ FailAhead(queue))
    BY <2>1 DEF ReportInv, Running
  <2>4. ASSUME reported
        PROVE  stage' # "NONE" /\ (verdict' = "FAIL" \/ FailAhead(queue'))
    <3>1. CASE RunFail
      <4>1. GoNextStage("FAIL", <<>>, Tail(queue))
        BY <3>1 DEF RunFail, GoFail
      <4> QED BY <1>0, <2>1, <2>3, <2>4, <4>1, NextStageKeeps
    <3>2. CASE RunNextStepEmpty
      <4>1. GoNextStage(verdict, <<>>, Tail(queue)) /\ Head(queue).kind # "fail"
        BY <3>2 DEF RunNextStepEmpty, AtHead
      <4>2. FailAhead(queue) => FailAhead(Tail(queue))
        BY <1>0, <2>1, <4>1, AheadTail
      <4> QED BY <1>0, <2>1, <2>3, <2>4, <4>1, <4>2, NextStageKeeps
    <3> QED BY <1>4, <3>1, <3>2 DEF Advances
  <2> QED BY <2>1, <2>2, <2>4 DEF ReportInv, Running, Behind
<1>5. CASE RunQuit
  <2>1. /\ pc = "loop" /\ pc' = "cleanup" /\ queue # <<>>
        /\ Head(queue).kind = "quit" /\ UNCHANGED <<verdict, reported>>
    BY <1>5 DEF RunQuit, AtHead
  <2>2. reported => verdict = "FAIL"
    BY <1>0, <2>1, AheadHead DEF ReportInv, Running
  <2> QED BY <2>1, <2>2 DEF ReportInv, Running, InCallback, Behind
<1>6. CASE CallSetFail
  <2>1. pc \in InCallback /\ pc' = pc /\ UNCHANGED <<stage, verdict, monitors>>
    BY <1>6 DEF CallSetFail, UserCode
  <2>2. steps # <<>> /\ pc \in Running
    BY <1>0, <2>1 DEF ReportInv, LocalsOK, Running, InCallback
  <2>3. stage \notin {"NONE", "DONE"}
    BY <2>2 DEF NothingLeft
  <2>4. ~Holds(queue, "quit")
    BY <2>2, <2>3 DEF EndInv
  <2>5. mainloop
    BY <2>2 DEF ReaderInv, Idle, Running, InCallback
  <2>6. /\ FailItem("reported", Now) \in Items
        /\ FailItem("reported", Now).kind = "fail"
    BY DEF TypeOK, FailItem, Items, Now, Births
  <2>7. queue' = Append(queue, FailItem("reported", Now))
    BY <1>6, <2>5 DEF CallSetFail
  <2>8. FailAhead(queue')
    BY <1>0, <2>4, <2>6, <2>7, AheadAppend
  <2> QED BY <2>1, <2>2, <2>3, <2>8 DEF ReportInv, Running, InCallback, Behind
<1>7. CASE /\ MainLoop \/ ProcessEvent \/ Callback
           /\ ~Removes /\ ~Advances /\ ~RunQuit /\ ~CallSetFail
  <2>1. /\ pc \in Running /\ UNCHANGED <<stage, verdict>>
        /\ pc' \in Running \cup {"raised"}
    BY <1>7, OthersStay
  <2>2. DOMAIN monitors = {} /\ pc # "monitor"
    BY <2>1 DEF ReportInv
  <2>3. reported' = reported
    BY <1>7 DEF MainLoop, RunNextStepWait, RunNextStepAct, RunEvent, Removes,
       Advances, ProcessEvent, NoMatch, MatchDeclined, MonitorReturns,
       EventDone, MatchIncomplete, MatchExhausted, MatchCallback, CallMonitor,
       Callback, CallStop, CallRaises, StopProcessReturns, CallAddUserEvent,
       CallAddMonitor, CallRemoveMonitor, CallStartProcess, CallStopProcess
  <2>4. DOMAIN monitors' = {} /\ pc' # "monitor"
    <3>1. CASE MainLoop
      BY <1>7, <2>2, <3>1 DEF MainLoop, RunNextStepWait, RunNextStepAct,
         RunEvent, Removes, Advances
    <3>2. CASE ProcessEvent
      BY <1>7, <2>2, <3>2 DEF ProcessEvent, NoMatch, MatchDeclined,
         MonitorReturns, EventDone, MatchIncomplete, MatchExhausted,
         MatchCallback, CallMonitor, ToMonitors, Removes
    <3>3. CASE Callback
      BY <2>2, <3>3 DEF Callback, CallSetFail, CallStop, CallRaises,
         StopProcessReturns, CallAddUserEvent, CallAddMonitor,
         CallRemoveMonitor, CallStartProcess, CallStopProcess, UserCode
    <3> QED BY <1>7, <3>1, <3>2, <3>3
  <2>5. FailAhead(queue) => FailAhead(queue')
    <3>1. CASE queue' = queue
      BY <3>1
    <3>2. CASE queue # <<>> /\ queue' = Tail(queue) /\ Head(queue).kind # "fail"
      BY <1>0, <3>2, AheadTail
    <3>3. CASE \E x \in Items : queue' = Append(queue, x)
      BY <1>0, <3>3, AheadAppend
    <3> QED BY <1>7, <3>1, <3>2, <3>3, OthersQueue
  <2> QED BY <2>1, <2>3, <2>4, <2>5 DEF ReportInv, Running, InCallback, Behind
<1>8. CASE TimerThread \/ \E s \in Sources : Reader(s)
  <2>1. UNCHANGED <<stage, verdict, pc, reported, monitors>>
    BY <1>8, ThreadsAdd
  <2>2. FailAhead(queue) => FailAhead(queue')
    BY <1>0, <1>8, ThreadsAdd, AheadAppend
  <2> QED BY <2>1, <2>2 DEF ReportInv
<1> QED
  BY <1>1, <1>2, <1>3, <1>4, <1>5, <1>6, <1>7, <1>8
  DEF Next, MainThread, Terminated

(* A failure that user code reports is the verdict of its attempt, whatever *)
(* else is queued, unless user code stops the test, calls from a monitor or *)
(* raises.                                                                  *)
THEOREM ReportsCount ==
    ASSUME Calls \cap {"stop", "add_monitor"} = {}
    PROVE  Spec /\ [](pc # "raised") => []ReportedFailureCounts
<1> DEFINE Inv == /\ TypeOK /\ LocalsOK /\ ReaderInv /\ VerdictInv /\ EndInv
                  /\ NothingLeft /\ reason # "exception" /\ ReportInv
           Calm == pc # "raised"
<1>0. "stop" \notin Calls
  OBVIOUS
<1>1. Init => Inv
  <2>1. Init => ReaderInv
    BY DEF Init, ReaderInv, Alive, Idle, Sources
  <2>2. Init => VerdictInv /\ EndInv
    BY DEF Init, VerdictInv, EndInv, Holds, Running, InCallback, Behind
  <2>3. Init => NothingLeft /\ reason # "exception" /\ ReportInv
    BY DEF Init, NothingLeft, ReportInv, Running, InCallback, Behind
  <2> QED BY <2>1, <2>2, <2>3, TypeInit
<1>2. Inv /\ Calm /\ [Next]_vars => Inv'
  <2> SUFFICES ASSUME Inv, Calm, [Next]_vars PROVE Inv'
    OBVIOUS
  <2>1. Repeat => stage \in {"NONE", "DONE"}
    BY DEF Repeat, EndInv, Behind
  <2> QED
    BY <1>0, <2>1, TypeStep, ReaderStep, VerdictStep, EndStep, LeftStep,
       ReasonStep, ReportStep
<1>3. Inv => ReportedFailureCounts
  BY DEF ReportInv, ReportedFailureCounts, Ended, Behind
<1> HIDE DEF Inv
<1> QED BY <1>1, <1>2, <1>3, PTL DEF Spec

(***************************************************************************)
(* The search for a step that waits for a line.  What it has passed over,  *)
(* a callback having declined, does not wait for the line.                 *)
(***************************************************************************)
(* Step i is a plain string step, among the leading WAIT_FOR steps, that    *)
(* could catch the line.                                                    *)
WaitsForLine(i) ==
    /\ Leading(i) /\ Info[steps[i]].source = ev.source
    /\ Info[steps[i]].kind = "str" /\ ~Info[steps[i]].callback

PassedOver ==
    pc \in {"matching", "matched"} =>
       /\ \A i \in 1..Len(steps) :
             i < at /\ WaitsForLine(i) => ev.line \notin Head(data[steps[i]])
       /\ pc = "matched" => Info[steps[at]].callback

(* A step that is not a candidate, from the place of the search on, does   *)
(* not wait for the line.                                                  *)
LEMMA NotWaiting ==
    ASSUME NEW i \in 1..Len(steps), i >= at, ~Candidate(i), WaitsForLine(i)
    PROVE  ev.line \notin Head(data[steps[i]])
BY DEF Candidate, WaitsForLine

(* Every step keeps PassedOver. *)
LEMMA PassedStep ==
    ASSUME TypeOK, LocalsOK, PassedOver, [Next]_vars
    PROVE  PassedOver'
<1> USE DEF vars, phaseVars, loopVars, timerVars, threadVars, local, books,
            budget, history
<1>0. at \in Nat /\ Len(steps) \in Nat
  BY DEF TypeOK
<1>1. CASE UNCHANGED <<pc, steps, data, ev, at>>
  BY <1>1 DEF PassedOver, WaitsForLine, Leading
<1>2. CASE pc' \notin {"matching", "matched"}
  BY <1>2 DEF PassedOver
<1>3. CASE RunEvent
  <2>1. at' = 1
    BY <1>3 DEF RunEvent
  <2>2. pc' = "matching" /\ steps' = steps
    BY <1>3 DEF RunEvent
  <2> QED BY <1>0, <2>1, <2>2 DEF PassedOver
<1>4. CASE \E i \in 1..Len(steps) : MatchCallback(i)
  <2>1. PICK i \in 1..Len(steps) : MatchCallback(i)
    BY <1>4
  <2>2. /\ pc = "matching" /\ FirstCandidate(i) /\ Info[steps[i]].callback
        /\ at' = i /\ pc' = "matched" /\ UNCHANGED <<steps, data, ev>>
    BY <2>1 DEF MatchCallback
  <2>3. ASSUME NEW k \in 1..Len(steps), k < i, WaitsForLine(k)
        PROVE  ev.line \notin Head(data[steps[k]])
    <3>1. CASE k < at
      BY <2>2, <2>3, <3>1 DEF PassedOver
    <3>2. CASE k >= at
      <4>1. k \in 1..(i - 1)
        BY <1>0, <2>3
      <4>2. ~Candidate(k)
        BY <2>2, <4>1 DEF FirstCandidate
      <4> QED BY <2>3, <3>2, <4>2, NotWaiting
    <3> QED BY <1>0, <3>1, <3>2
  <2>4. \A k : WaitsForLine(k)' <=> WaitsForLine(k)
    BY <2>2 DEF WaitsForLine, Leading
  <2> QED BY <2>2, <2>3, <2>4 DEF PassedOver
<1>5. CASE MatchDeclined /\ Info[steps[at]].kind = "str"
  <2>1. /\ pc = "matched" /\ pc' = "matching" /\ at' = at + 1
        /\ UNCHANGED <<steps, data, ev>>
    BY <1>5 DEF MatchDeclined
  <2>2. Info[steps[at]].callback
    BY <2>1 DEF PassedOver
  <2>3. ASSUME NEW k \in 1..Len(steps), k < at + 1, WaitsForLine(k)
        PROVE  ev.line \notin Head(data[steps[k]])
    <3>1. k # at
      BY <2>2, <2>3 DEF WaitsForLine
    <3>2. k < at
      BY <1>0, <2>3, <3>1
    <3> QED BY <2>1, <2>3, <3>2 DEF PassedOver
  <2>4. \A k : WaitsForLine(k)' <=> WaitsForLine(k)
    BY <2>1 DEF WaitsForLine, Leading
  <2> QED BY <2>1, <2>3, <2>4 DEF PassedOver
<1>6. CASE RunFrame
  <2>1. pc' \notin {"matching", "matched"}
    BY <1>6 DEF RunFrame, HandleException, Skip, Begin, OpenFails, EnterLoop,
       Cleanup, CloseDevice, LeftProcessStopped, RunReturns, Finish,
       OpenDevice, StopDevice, StopLeftProcess, Repeat
  <2> QED BY <1>2, <2>1
<1>7. CASE MainLoop /\ ~RunEvent
  <2>1. pc' \notin {"matching", "matched"}
    BY <1>7 DEF MainLoop, RunNextStepEmpty, RunNextStepWait, RunNextStepAct,
       StepActed, RunFail, RunQuit, AtHead
  <2> QED BY <1>2, <2>1
<1>8. CASE /\ ProcessEvent
           /\ ~(MatchDeclined /\ Info[steps[at]].kind = "str")
           /\ ~(\E i \in 1..Len(steps) : MatchCallback(i))
  <2>1. pc' \notin {"matching", "matched"}
    BY <1>8 DEF ProcessEvent, NoMatch, MatchAccepted, MatchDeclined,
       MonitorReturns, EventDone, MatchPlain, MatchIncomplete, MatchExhausted,
       CallMonitor, ToMonitors
  <2> QED BY <1>2, <2>1
<1>9. CASE Callback
  <2>1. UNCHANGED <<steps, data, ev, at>> /\ (pc' = pc \/ pc' = "raised")
    BY <1>9 DEF Callback, CallSetFail, CallStop, CallRaises,
       StopProcessReturns, CallAddUserEvent, CallAddMonitor,
       CallRemoveMonitor, CallStartProcess, CallStopProcess, UserCode
  <2> QED BY <1>1, <1>2, <2>1
<1>10. CASE TimerThread \/ \E s \in Sources : Reader(s)
  <2>1. UNCHANGED <<pc, steps, data, ev, at>>
    BY <1>10 DEF TimerThread, TimerExpires, TimerCallsBack, Reader, ReadFails,
       ReaderStops, ReadLine, OrphanLine,
     OrphanDies
  <2> QED BY <1>1, <2>1
<1>11. CASE UNCHANGED vars
  BY <1>1, <1>11
<1> QED
  BY <1>3, <1>4, <1>5, <1>6, <1>7, <1>8, <1>9, <1>10, <1>11
  DEF Next, MainThread, Terminated

(* A line that a plain string step waits for is caught, whatever the order *)
(* of the steps and whatever callbacks have declined, when no message step *)
(* is in front.                                                            *)
THEOREM CaughtInAnyOrder == Spec => AnyOrder
<1> DEFINE Caught ==
      pc = "matching" /\ pc' = "monitors" /\ performed' = performed =>
          \A i \in 1..Len(steps) :
             /\ \A j \in 1..i : /\ Info[steps[j]].action = "WAIT_FOR"
                                /\ Info[steps[j]].kind # "msg"
             /\ Info[steps[i]].source = ev.source
             /\ Info[steps[i]].kind = "str" /\ ~Info[steps[i]].callback
             => ev.line \notin Head(data[steps[i]])
<1>1. Init => PassedOver
  BY DEF Init, PassedOver
<1>2. TypeOK /\ LocalsOK /\ [Next]_vars => (TypeOK /\ LocalsOK)'
  BY TypeStep
<1>3. TypeOK /\ LocalsOK /\ PassedOver /\ [Next]_vars => PassedOver'
  BY PassedStep
<1>4. TypeOK /\ LocalsOK /\ PassedOver /\ [Next]_vars => [Caught]_vars
  <2> SUFFICES ASSUME TypeOK, LocalsOK, PassedOver, Next,
                      pc = "matching", pc' = "monitors", performed' = performed,
                      NEW i \in 1..Len(steps),
                      \A j \in 1..i : /\ Info[steps[j]].action = "WAIT_FOR"
                                      /\ Info[steps[j]].kind # "msg",
                      Info[steps[i]].source = ev.source,
                      Info[steps[i]].kind = "str", ~Info[steps[i]].callback
               PROVE  ev.line \notin Head(data[steps[i]])
    OBVIOUS
  <2>0. at \in Nat /\ Len(steps) \in Nat /\ WaitsForLine(i)
    BY DEF TypeOK, WaitsForLine, Leading
  <2>1. CASE i < at
    BY <2>0, <2>1 DEF PassedOver
  <2>2. CASE i >= at
    <3>1. \A k : ~MatchPlain(k)
      <4>1. performed \in Seq(StepIds)
        BY DEF TypeOK
      <4>2. \A x : Append(performed, x) # performed
        <5>1. \A x : Len(Append(performed, x)) = Len(performed) + 1
          BY <4>1
        <5>2. Len(performed) \in Nat
          BY <4>1
        <5> QED BY <5>1, <5>2
      <4> QED BY <4>2 DEF MatchPlain, GoRemoveStep
    <3>2. NoMatch \/ \E k \in 1..Len(steps) : MatchIncomplete(k)
      <4>1. ProcessEvent \/ Callback \/ RunFrame \/ MainLoop \/ TimerThread
            \/ Terminated \/ \E s \in Sources : Reader(s)
        BY DEF Next, MainThread
      <4>2. CASE ProcessEvent
        BY <3>1, <4>2 DEF ProcessEvent, MatchAccepted, MatchDeclined,
           MonitorReturns, EventDone, MatchExhausted, MatchCallback, CallMonitor
      <4>3. ~RunFrame
        BY DEF RunFrame, HandleException, Skip, Begin, OpenFails, EnterLoop,
           Cleanup, CloseDevice, LeftProcessStopped, RunReturns, Finish,
           OpenDevice, StopDevice, StopLeftProcess, Repeat
      <4>4. ~MainLoop
        BY DEF MainLoop, RunNextStepEmpty, RunNextStepWait, RunNextStepAct,
           StepActed, RunFail, RunQuit, RunEvent, AtHead
      <4>5. ~Callback
        BY DEF Callback, CallSetFail, CallStop, CallRaises,
           StopProcessReturns, CallAddUserEvent, CallAddMonitor,
           CallRemoveMonitor, CallStartProcess, CallStopProcess, UserCode,
           InCallback
      <4>6. ~TimerThread /\ ~Terminated /\ ~\E s \in Sources : Reader(s)
        BY DEF TimerThread, TimerExpires, TimerCallsBack, Terminated, Reader,
           ReadFails, ReaderStops, ReadLine, OrphanLine,
     OrphanDies
      <4> QED BY <4>1, <4>2, <4>3, <4>4, <4>5, <4>6
    <3>3. CASE NoMatch
      BY <2>0, <2>2, <3>3, NotWaiting DEF NoMatch
    <3>4. CASE \E k \in 1..Len(steps) : MatchIncomplete(k)
      <4>1. PICK k \in 1..Len(steps) :
               FirstCandidate(k) /\ Info[steps[k]].kind = "msg"
        BY <3>4 DEF MatchIncomplete
      <4>2. Leading(k) => i < k
        BY <2>0, <4>1
      <4>3. i < k
        BY <4>1, <4>2 DEF FirstCandidate, Candidate
      <4>4. i \in 1..(k - 1)
        BY <2>0, <4>3
      <4>5. ~Candidate(i)
        BY <4>1, <4>4 DEF FirstCandidate
      <4> QED BY <2>0, <2>2, <4>5, NotWaiting
    <3> QED BY <3>2, <3>3, <3>4
  <2> QED BY <2>0, <2>1, <2>2
<1> QED BY <1>1, <1>2, <1>3, <1>4, TypeInit, PTL DEF Spec, AnyOrder

(***************************************************************************)
(* A pass is earned.  While nothing has failed, the steps of the phases up *)
(* to the current one are accounted for: each has been performed or is     *)
(* still to do, and one has only been performed in front of another of     *)
(* the script when both were waited for together.                          *)
(***************************************************************************)
(* The steps in front of a phase, and up to its end. *)
From(ph) ==
    IF ph = "SETUP" THEN 0
    ELSE IF ph = "TEST" THEN Len(script["SETUP"])
    ELSE Len(script["SETUP"]) + Len(script["TEST"])
Upto(ph) == From(ph) + Len(script[ph])

InSeq(x, s) == \E k \in 1..Len(s) : s[k] = x

Accounted(perf, rem, ph, hi) ==
    /\ Len(perf) + Len(rem) = hi
    /\ \A m \in 1..hi : InSeq(Flat[m], perf) \/ InSeq(Flat[m], rem)
    /\ \A k \in 1..Len(perf) : \E m \in 1..hi : perf[k] = Flat[m]
    /\ \A k \in 1..Len(rem) : \E m \in (From(ph) + 1)..hi : rem[k] = Flat[m]
    /\ \A j, k \in 1..Len(rem), p, q \in 1..hi :
          j < k /\ rem[j] = Flat[p] /\ rem[k] = Flat[q] => p < q
    /\ \A j \in 1..Len(rem), k \in 1..Len(perf), p, q \in 1..hi :
          rem[j] = Flat[p] /\ perf[k] = Flat[q]
             => p # q /\ (p < q => SameWait(p, q))
    /\ \A j, k \in 1..Len(perf), p, q \in 1..hi :
          j < k /\ perf[j] = Flat[p] /\ perf[k] = Flat[q]
             => p < q \/ SameWait(q, p)

(* What has been performed when a phase, or nothing, is behind. *)
Covered ==
    /\ verdict = "PASS" /\ stage \in Phases =>
          Accounted(performed, steps, stage, Upto(stage))
    /\ verdict = "PASS" /\ stage = "DONE" =>
          Accounted(performed, <<>>, "TEARDOWN", Len(Flat))

PassInv ==
    /\ Covered
    /\ stage = "NONE" /\ pc \in Running \cup {"opening", "raised"} =>
          performed = <<>>
    /\ pc = "matched" => Leading(at)

(* The script as one sequence, and its phases in it. *)
LEMMA FlatFacts ==
    ASSUME script \in Scripts
    PROVE  /\ \A ph \in Phases : script[ph] \in Seq(StepIds)
           /\ Flat \in Seq(StepIds)
           /\ Len(Flat) = Len(script["SETUP"]) + Len(script["TEST"])
                          + Len(script["TEARDOWN"])
<1>1. \A ph \in Phases : script[ph] \in Seq(StepIds)
  BY ConstantsAssumption
<1>2. /\ script["SETUP"] \in Seq(StepIds) /\ script["TEST"] \in Seq(StepIds)
      /\ script["TEARDOWN"] \in Seq(StepIds)
  BY <1>1 DEF Phases
<1> QED BY <1>1, <1>2 DEF Flat

(* ... which lies at From(ph) + 1 .. Upto(ph). *)
LEMMA PhaseFacts ==
    ASSUME script \in Scripts, NEW ph \in Phases
    PROVE  /\ From(ph) \in Nat /\ Upto(ph) \in Nat /\ Upto(ph) <= Len(Flat)
           /\ Len(script[ph]) \in Nat
           /\ \A k \in 1..Len(script[ph]) : Flat[From(ph) + k] = script[ph][k]
           /\ \A m \in (From(ph) + 1)..Upto(ph) : PhaseAt(m) = ph
<1> DEFINE a == script["SETUP"]
           b == script["TEST"]
           c == script["TEARDOWN"]
<1>1. a \in Seq(StepIds) /\ b \in Seq(StepIds) /\ c \in Seq(StepIds)
  BY FlatFacts DEF Phases
<1>2. Flat = (a \o b) \o c
  BY DEF Flat
<1>0. \A m : PhaseAt(m) = IF m <= Len(a) THEN "SETUP"
                           ELSE IF m <= Len(a) + Len(b) THEN "TEST"
                           ELSE "TEARDOWN"
  BY DEF PhaseAt
<1> HIDE DEF a, b, c
<1>3. /\ Len(a) \in Nat /\ Len(b) \in Nat /\ Len(c) \in Nat
      /\ Len(Flat) = Len(a) + Len(b) + Len(c)
  BY <1>1, <1>2
<1>4. \A k \in 1..Len(a) : Flat[k] = a[k]
  BY <1>1, <1>2
<1>5. \A k \in 1..Len(b) : Flat[Len(a) + k] = b[k]
  BY <1>1, <1>2
<1>6. \A k \in 1..Len(c) : Flat[Len(a) + Len(b) + k] = c[k]
  BY <1>1, <1>2
<1>7. CASE ph = "SETUP"
  <2>1. From(ph) = 0 /\ Upto(ph) = Len(a) /\ script[ph] = a
    BY <1>3, <1>7 DEF From, Upto, a
  <2>2. \A m \in 1..Len(a) : PhaseAt(m) = "SETUP"
    BY <1>3, <1>0
  <2> QED BY <1>3, <1>4, <1>7, <2>1, <2>2
<1>8. CASE ph = "TEST"
  <2>1. From(ph) = Len(a) /\ Upto(ph) = Len(a) + Len(b) /\ script[ph] = b
    BY <1>3, <1>8 DEF From, Upto, a, b
  <2>2. \A m \in (Len(a) + 1)..(Len(a) + Len(b)) : PhaseAt(m) = "TEST"
    BY <1>3, <1>0
  <2>3. Upto(ph) <= Len(Flat) /\ From(ph) \in Nat /\ Upto(ph) \in Nat
    BY <1>3, <2>1
  <2>4. \A k \in 1..Len(script[ph]) : Flat[From(ph) + k] = script[ph][k]
    BY <1>5, <2>1
  <2>5. \A m \in (From(ph) + 1)..Upto(ph) : PhaseAt(m) = ph
    BY <1>8, <2>1, <2>2
  <2> QED BY <1>3, <2>1, <2>3, <2>4, <2>5
<1>9. CASE ph = "TEARDOWN"
  <2>1. /\ From(ph) = Len(a) + Len(b) /\ script[ph] = c
        /\ Upto(ph) = Len(a) + Len(b) + Len(c)
    BY <1>3, <1>9 DEF From, Upto, a, b, c
  <2>2. \A m \in (Len(a) + Len(b) + 1)..(Len(a) + Len(b) + Len(c)) :
           PhaseAt(m) = "TEARDOWN"
    BY <1>3, <1>0
  <2> QED BY <1>3, <1>6, <1>9, <2>1, <2>2
<1> QED BY <1>7, <1>8, <1>9 DEF Phases

(* A step has one place in the script. *)
LEMMA OnePosition ==
    ASSUME script \in Scripts,
           NEW p \in 1..Len(Flat), NEW q \in 1..Len(Flat), Flat[p] = Flat[q]
    PROVE  p = q
<1>1. IsInjective(Flat)
  BY DistinctSteps DEF Flat
<1>2. Flat \in Seq(StepIds)
  BY FlatFacts
<1>3. \A a, b \in DOMAIN Flat : Flat[a] = Flat[b] => a = b
  BY <1>1 DEF IsInjective
<1>4. DOMAIN Flat = 1..Len(Flat)
  BY <1>2
<1> QED BY <1>3, <1>4

(* The places of the steps that stay when step i is removed. *)
LEMMA Removed ==
    ASSUME NEW S, NEW s \in Seq(S), NEW i \in 1..Len(s)
    PROVE  /\ Len(RemoveAt(s, i)) = Len(s) - 1
           /\ \A j \in 1..(Len(s) - 1) :
                 RemoveAt(s, i)[j] = s[IF j < i THEN j ELSE j + 1]
<1> DEFINE a == SubSeq(s, 1, i - 1)
           b == SubSeq(s, i + 1, Len(s))
<1>1. /\ a \in Seq(S) /\ Len(a) = i - 1
      /\ \A j \in 1..(i - 1) : a[j] = s[j]
  OBVIOUS
<1>2. /\ b \in Seq(S) /\ Len(b) = Len(s) - i
      /\ \A j \in 1..(Len(s) - i) : b[j] = s[i + j]
  OBVIOUS
<1>3. RemoveAt(s, i) = a \o b
  BY DEF RemoveAt
<1> HIDE DEF a, b
<1>4. Len(s) \in Nat
  OBVIOUS
<1>5. Len(a \o b) = Len(s) - 1
  BY <1>1, <1>2
<1>6. ASSUME NEW j \in 1..(Len(s) - 1)
      PROVE  (a \o b)[j] = s[IF j < i THEN j ELSE j + 1]
  <2>1. CASE j < i
    BY <1>1, <1>2, <2>1
  <2>2. CASE ~(j < i)
    <3>1. j > Len(a) /\ j - Len(a) \in 1..(Len(s) - i)
          /\ i + (j - Len(a)) = j + 1
      <4>1. Len(a) = i - 1 /\ i \in Int /\ j \in Int /\ j <= Len(s) - 1
        BY <1>1, <1>4
      <4> QED BY <1>4, <2>2, <4>1
    <3>2. j \in 1..(Len(a) + Len(b)) /\ ~(j \in 1..Len(a))
      BY <1>1, <1>2, <1>4, <3>1
    <3>4. (a \o b)[j] = b[j - Len(a)]
      BY <1>1, <1>2, <3>2, ConcatProperties
    <3>3. b[j - Len(a)] = s[i + (j - Len(a))]
      BY <1>2, <3>1
    <3> QED BY <2>2, <3>1, <3>3, <3>4
  <2> QED BY <2>1, <2>2
<1> QED BY <1>3, <1>5, <1>6

(* What is in a sequence with x appended, and without its i-th element. *)
LEMMA InAppend ==
    ASSUME NEW S, NEW s \in Seq(S), NEW x \in S, NEW y
    PROVE  InSeq(y, Append(s, x)) <=> InSeq(y, s) \/ y = x
<1>1. /\ Len(Append(s, x)) = Len(s) + 1 /\ Len(s) \in Nat
      /\ Append(s, x)[Len(s) + 1] = x
      /\ \A i \in 1..Len(s) : Append(s, x)[i] = s[i]
  OBVIOUS
<1> QED BY <1>1 DEF InSeq

(* ... and the others stay in it.                                          *)
LEMMA InRemoved ==
    ASSUME NEW S, NEW s \in Seq(S), NEW i \in 1..Len(s), NEW y, InSeq(y, s)
    PROVE  InSeq(y, RemoveAt(s, i)) \/ y = s[i]
<1>1. PICK k \in 1..Len(s) : s[k] = y
  BY DEF InSeq
<1>2. Len(s) \in Nat
  OBVIOUS
<1>3. CASE k < i
  <2>1. k \in 1..(Len(s) - 1)
    BY <1>2, <1>3
  <2>2. RemoveAt(s, i)[k] = s[k]
    BY <1>3, <2>1, Removed
  <2> QED BY <1>1, <2>1, <2>2, Removed DEF InSeq
<1>4. CASE k > i
  <2>1. k - 1 \in 1..(Len(s) - 1) /\ ~(k - 1 < i) /\ (k - 1) + 1 = k
    BY <1>2, <1>4
  <2>2. RemoveAt(s, i)[k - 1] = s[k]
    BY <2>1, Removed
  <2> QED BY <1>1, <2>1, <2>2, Removed DEF InSeq
<1>5. CASE k = i
  BY <1>1, <1>5
<1> QED BY <1>2, <1>3, <1>4, <1>5

(* Performing a step that is the first one left, or has only WAIT_FORs     *)
(* left in front of it.                                                    *)
LEMMA Perform ==
    ASSUME script \in Scripts, NEW ph \in Phases,
           NEW perf \in Seq(StepIds), NEW rem \in Seq(StepIds),
           Accounted(perf, rem, ph, Upto(ph)), NEW i \in 1..Len(rem),
           i = 1 \/ \A j \in 1..i : Info[rem[j]].action = "WAIT_FOR"
    PROVE  Accounted(Append(perf, rem[i]), RemoveAt(rem, i), ph, Upto(ph))
<1> DEFINE hi == Upto(ph)
           lo == From(ph)
           n == Len(perf)
           r == Len(rem)
           perf2 == Append(perf, rem[i])
           rem2 == RemoveAt(rem, i)
           old(j) == IF j < i THEN j ELSE j + 1
<1>1. /\ n \in Nat /\ r \in Nat /\ hi \in Nat /\ lo \in Nat /\ i \in Int
      /\ hi <= Len(Flat) /\ Len(Flat) \in Nat
      /\ \A m \in (lo + 1)..hi : PhaseAt(m) = ph
  <2>1. n \in Nat /\ r \in Nat /\ i \in Int
    OBVIOUS
  <2>2. Flat \in Seq(StepIds)
    BY FlatFacts
  <2>3. Len(Flat) \in Nat
    BY <2>2
  <2>4. /\ hi \in Nat /\ lo \in Nat /\ hi <= Len(Flat)
        /\ \A m \in (lo + 1)..hi : PhaseAt(m) = ph
    BY PhaseFacts
  <2> QED BY <2>1, <2>3, <2>4
<1>2. /\ n + r = hi
      /\ \A m \in 1..hi : InSeq(Flat[m], perf) \/ InSeq(Flat[m], rem)
      /\ \A k \in 1..n : \E m \in 1..hi : perf[k] = Flat[m]
      /\ \A k \in 1..r : \E m \in (lo + 1)..hi : rem[k] = Flat[m]
  BY DEF Accounted
<1>3. \A j, k \in 1..r, p, q \in 1..hi :
         j < k /\ rem[j] = Flat[p] /\ rem[k] = Flat[q] => p < q
  BY DEF Accounted
<1>4. \A j \in 1..r, k \in 1..n, p, q \in 1..hi :
         rem[j] = Flat[p] /\ perf[k] = Flat[q]
            => p # q /\ (p < q => SameWait(p, q))
  BY DEF Accounted
<1>5. \A j, k \in 1..n, p, q \in 1..hi :
         j < k /\ perf[j] = Flat[p] /\ perf[k] = Flat[q]
            => p < q \/ SameWait(q, p)
  BY DEF Accounted
<1>6. /\ rem[i] \in StepIds
      /\ Len(perf2) = n + 1 /\ perf2[n + 1] = rem[i]
      /\ \A k \in 1..n : perf2[k] = perf[k]
  OBVIOUS
<1>7. /\ Len(rem2) = r - 1
      /\ \A j \in 1..(r - 1) : rem2[j] = rem[old(j)]
  BY Removed
<1>8. \A j \in 1..(r - 1) : old(j) \in 1..r /\ old(j) # i
  BY <1>1
<1>9. \A j, k \in 1..(r - 1) : j < k => old(j) < old(k)
  BY <1>1
<1>10. \A m \in 1..hi : InSeq(Flat[m], perf2) \/ InSeq(Flat[m], rem2)
  BY <1>2, <1>6, InAppend, InRemoved
<1> HIDE DEF n, r, perf2, rem2, old, hi, lo
<1>11. \A k \in 1..(n + 1) : k \in 1..n \/ k = n + 1
  BY <1>1
<1>12. \A k \in 1..(n + 1) : \E m \in 1..hi : perf2[k] = Flat[m]
  <2> TAKE k \in 1..(n + 1)
  <2>1. CASE k \in 1..n
    BY <1>2, <1>6, <2>1
  <2>2. CASE k = n + 1
    <3>1. PICK m \in (lo + 1)..hi : rem[i] = Flat[m]
      BY <1>2 DEF r
    <3>2. m \in 1..hi
      BY <1>1, <3>1
    <3> QED BY <1>6, <2>2, <3>1, <3>2
  <2> QED BY <1>11, <2>1, <2>2
<1>13. \A k \in 1..(r - 1) : \E m \in (lo + 1)..hi : rem2[k] = Flat[m]
  BY <1>2, <1>7, <1>8
<1>14. \A j, k \in 1..(r - 1), p, q \in 1..hi :
         j < k /\ rem2[j] = Flat[p] /\ rem2[k] = Flat[q] => p < q
  BY <1>3, <1>7, <1>8, <1>9
<1>15. ASSUME NEW o \in 1..r, o < i, NEW p \in 1..hi, NEW q \in 1..hi,
              rem[o] = Flat[p], rem[i] = Flat[q]
       PROVE  p < q /\ SameWait(p, q)
  <2>1. i \in 1..r
    BY DEF r
  <2>2. p < q
    BY <1>3, <1>15, <2>1
  <2>3. \A j \in 1..i : Info[rem[j]].action = "WAIT_FOR"
    BY <1>1, <1>15
  <2>4. PhaseAt(p) = ph /\ PhaseAt(q) = ph
    <3>1. PICK a \in (lo + 1)..hi : rem[o] = Flat[a]
      BY <1>2
    <3>2. PICK b \in (lo + 1)..hi : rem[i] = Flat[b]
      BY <1>2, <2>1
    <3>3. /\ a \in 1..Len(Flat) /\ b \in 1..Len(Flat)
          /\ p \in 1..Len(Flat) /\ q \in 1..Len(Flat)
      BY <1>1
    <3>4. a = p /\ b = q
      BY <1>15, <3>1, <3>2, <3>3, OnePosition
    <3> QED BY <1>1, <3>4
  <2>5. ASSUME NEW m \in p..q PROVE Info[Flat[m]].action = "WAIT_FOR"
    <3>1. m \in 1..hi /\ p <= m /\ m <= q
      BY <1>1
    <3>2. CASE InSeq(Flat[m], perf)
      <4>1. PICK k \in 1..n : perf[k] = Flat[m]
        BY <3>2 DEF InSeq, n
      <4>2. p # m /\ (p < m => SameWait(p, m))
        BY <1>4, <1>15, <3>1, <4>1
      <4>3. SameWait(p, m) /\ m \in p..m
        BY <1>1, <3>1, <4>2
      <4> QED BY <4>3 DEF SameWait
    <3>3. CASE InSeq(Flat[m], rem)
      <4>1. PICK l \in 1..r : rem[l] = Flat[m]
        BY <3>3 DEF InSeq, r
      <4>2. ~(i < l)
        <5>1. i < l => q < m
          BY <1>3, <1>15, <2>1, <3>1, <4>1
        <5> QED BY <1>1, <3>1, <5>1
      <4>3. l \in 1..i
        BY <1>1, <4>2
      <4> QED BY <2>3, <4>1, <4>3
    <3> QED BY <1>2, <3>1, <3>2, <3>3
  <2> QED BY <2>2, <2>4, <2>5 DEF SameWait
<1>16. ASSUME NEW j \in 1..(r - 1), NEW k \in 1..(n + 1),
              NEW p \in 1..hi, NEW q \in 1..hi,
              rem2[j] = Flat[p], perf2[k] = Flat[q]
       PROVE  p # q /\ (p < q => SameWait(p, q))
  <2>1. old(j) \in 1..r /\ old(j) # i /\ rem[old(j)] = Flat[p]
    BY <1>7, <1>8, <1>16
  <2>2. CASE k \in 1..n
    BY <1>4, <1>6, <1>16, <2>1, <2>2
  <2>3. CASE k = n + 1
    <3>1. rem[i] = Flat[q] /\ i \in 1..r
      BY <1>6, <1>16, <2>3 DEF r
    <3>2. CASE old(j) < i
      <4>1. p < q /\ SameWait(p, q)
        BY <1>15, <2>1, <3>1, <3>2
      <4> QED BY <4>1
    <3>3. CASE i < old(j)
      <4>1. q < p
        BY <1>3, <2>1, <3>1, <3>3
      <4> QED BY <1>1, <4>1
    <3> QED BY <1>1, <2>1, <3>2, <3>3
  <2> QED BY <1>11, <2>2, <2>3
<1>17. ASSUME NEW j \in 1..(n + 1), NEW k \in 1..(n + 1),
              NEW p \in 1..hi, NEW q \in 1..hi, j < k,
              perf2[j] = Flat[p], perf2[k] = Flat[q]
       PROVE  p < q \/ SameWait(q, p)
  <2>1. j \in 1..n
    BY <1>1, <1>17
  <2>2. CASE k \in 1..n
    BY <1>5, <1>6, <1>17, <2>1, <2>2
  <2>3. CASE k = n + 1
    <3>1. perf[j] = Flat[p] /\ rem[i] = Flat[q] /\ i \in 1..r
      BY <1>6, <1>17, <2>1, <2>3 DEF r
    <3>2. q # p /\ (q < p => SameWait(q, p))
      BY <1>4, <2>1, <3>1
    <3> QED BY <1>1, <3>2
  <2> QED BY <1>11, <2>2, <2>3
<1>18. Accounted(perf2, rem2, ph, hi)
  <2>1. Len(perf2) + Len(rem2) = hi /\ Len(perf2) = n + 1 /\ Len(rem2) = r - 1
    BY <1>1, <1>2, <1>6, <1>7
  <2>2. /\ \A k \in 1..Len(perf2) : \E m \in 1..hi : perf2[k] = Flat[m]
        /\ \A k \in 1..Len(rem2) :
              \E m \in (From(ph) + 1)..hi : rem2[k] = Flat[m]
    BY <1>12, <1>13, <2>1 DEF lo
  <2>3. \A j, k \in 1..Len(rem2), p, q \in 1..hi :
           j < k /\ rem2[j] = Flat[p] /\ rem2[k] = Flat[q] => p < q
    BY <1>14, <2>1
  <2>4. \A j \in 1..Len(rem2), k \in 1..Len(perf2), p, q \in 1..hi :
           rem2[j] = Flat[p] /\ perf2[k] = Flat[q]
              => p # q /\ (p < q => SameWait(p, q))
    BY <1>16, <2>1
  <2>5. \A j, k \in 1..Len(perf2), p, q \in 1..hi :
           j < k /\ perf2[j] = Flat[p] /\ perf2[k] = Flat[q]
              => p < q \/ SameWait(q, p)
    BY <1>17, <2>1
  <2> QED BY <1>10, <2>1, <2>2, <2>3, <2>4, <2>5 DEF Accounted
<1> QED BY <1>18 DEF perf2, rem2, hi

(* Entering a phase with everything in front of it done. *)
LEMMA Enter ==
    ASSUME script \in Scripts, NEW ph, NEW to \in Phases,
           NEW perf \in Seq(StepIds), Accounted(perf, <<>>, ph, From(to))
    PROVE  Accounted(perf, script[to], to, Upto(to))
<1> DEFINE hi == Upto(to)
           lo == From(to)
           n == Len(perf)
           s == script[to]
           r == Len(s)
<1>1. /\ n \in Nat /\ r \in Nat /\ hi \in Nat /\ lo \in Nat
      /\ hi <= Len(Flat) /\ Len(Flat) \in Nat /\ hi = lo + r
  <2>1. n \in Nat
    OBVIOUS
  <2>2. Flat \in Seq(StepIds)
    BY FlatFacts
  <2>3. Len(Flat) \in Nat
    BY <2>2
  <2>4. hi \in Nat /\ lo \in Nat /\ hi <= Len(Flat) /\ r \in Nat
    BY PhaseFacts
  <2> QED BY <2>1, <2>3, <2>4 DEF Upto
<1>2. Len(<<>>) = 0
  OBVIOUS
<1>3. /\ n = lo
      /\ \A m \in 1..lo : InSeq(Flat[m], perf)
      /\ \A k \in 1..n : \E m \in 1..lo : perf[k] = Flat[m]
  <2>1. n + Len(<<>>) = lo
    BY DEF Accounted
  <2>2. \A m \in 1..lo : InSeq(Flat[m], perf) \/ InSeq(Flat[m], <<>>)
    BY DEF Accounted
  <2>3. \A y : ~InSeq(y, <<>>)
    BY <1>2 DEF InSeq
  <2>4. \A k \in 1..n : \E m \in 1..lo : perf[k] = Flat[m]
    BY DEF Accounted
  <2> QED BY <1>1, <1>2, <2>1, <2>2, <2>3, <2>4
<1>4. \A j, k \in 1..n, p, q \in 1..lo :
         j < k /\ perf[j] = Flat[p] /\ perf[k] = Flat[q]
            => p < q \/ SameWait(q, p)
  BY DEF Accounted
<1>5. \A k \in 1..r : Flat[lo + k] = s[k]
  BY PhaseFacts
<1> HIDE DEF hi, lo, n, s, r
<1>6. ASSUME NEW j \in 1..r, NEW p \in 1..hi, s[j] = Flat[p]
      PROVE  p = lo + j
  <2>1. lo + j \in 1..Len(Flat) /\ p \in 1..Len(Flat)
    BY <1>1
  <2> QED BY <1>5, <1>6, <2>1, OnePosition
<1>7. ASSUME NEW k \in 1..n, NEW q \in 1..hi, perf[k] = Flat[q]
      PROVE  q \in 1..lo
  <2>1. PICK m \in 1..lo : perf[k] = Flat[m]
    BY <1>3
  <2>2. m \in 1..Len(Flat) /\ q \in 1..Len(Flat)
    BY <1>1
  <2> QED BY <1>7, <2>1, <2>2, OnePosition
<1>8. \A m \in 1..hi : InSeq(Flat[m], perf) \/ InSeq(Flat[m], s)
  <2> TAKE m \in 1..hi
  <2>1. CASE m \in 1..lo
    BY <1>3, <2>1
  <2>2. CASE m \notin 1..lo
    <3>1. m - lo \in 1..r /\ lo + (m - lo) = m
      BY <1>1, <2>2
    <3>2. s[m - lo] = Flat[m]
      BY <1>5, <3>1
    <3> QED BY <3>1, <3>2 DEF InSeq, r
  <2> QED BY <2>1, <2>2
<1>9. \A k \in 1..n : \E m \in 1..hi : perf[k] = Flat[m]
  BY <1>1, <1>3
<1>10. \A k \in 1..r : \E m \in (lo + 1)..hi : s[k] = Flat[m]
  <2> TAKE k \in 1..r
  <2>1. lo + k \in (lo + 1)..hi
    BY <1>1
  <2> QED BY <1>5, <2>1
<1>11. \A j, k \in 1..r, p, q \in 1..hi :
         j < k /\ s[j] = Flat[p] /\ s[k] = Flat[q] => p < q
  BY <1>1, <1>6
<1>12. \A j \in 1..r, k \in 1..n, p, q \in 1..hi :
         s[j] = Flat[p] /\ perf[k] = Flat[q]
            => p # q /\ (p < q => SameWait(p, q))
  <2> SUFFICES ASSUME NEW j \in 1..r, NEW k \in 1..n,
                      NEW p \in 1..hi, NEW q \in 1..hi,
                      s[j] = Flat[p], perf[k] = Flat[q]
               PROVE  p # q /\ ~(p < q)
    OBVIOUS
  <2>1. p = lo + j /\ q \in 1..lo
    BY <1>6, <1>7
  <2> QED BY <1>1, <2>1
<1>13. \A j, k \in 1..n, p, q \in 1..hi :
         j < k /\ perf[j] = Flat[p] /\ perf[k] = Flat[q]
            => p < q \/ SameWait(q, p)
  BY <1>4, <1>7
<1>14. n + r = hi
  BY <1>1, <1>3
<1> QED
  BY <1>8, <1>9, <1>10, <1>11, <1>12, <1>13, <1>14
  DEF Accounted, hi, lo, n, s, r

(* With everything done, the script has been followed. *)
LEMMA Followed ==
    ASSUME script \in Scripts, performed \in Seq(StepIds),
           NEW ph, Accounted(performed, <<>>, ph, Len(Flat))
    PROVE  FollowsScript
<1> DEFINE hi == Len(Flat)
           n == Len(performed)
<1>1. Flat \in Seq(StepIds) /\ Len(<<>>) = 0 /\ n \in Nat
  BY FlatFacts
<1>2. hi \in Nat
  BY <1>1
<1>3. n + Len(<<>>) = hi
  BY DEF Accounted
<1>4. n = hi
  BY <1>1, <1>2, <1>3
<1>5. ASSUME NEW x \in ToSet(Flat) PROVE x \in ToSet(performed)
  <2>1. PICK m \in 1..hi : x = Flat[m]
    BY <1>1 DEF ToSet
  <2>2. InSeq(Flat[m], performed) \/ InSeq(Flat[m], <<>>)
    BY DEF Accounted
  <2>3. InSeq(Flat[m], performed)
    BY <1>1, <2>2 DEF InSeq
  <2>4. PICK k \in 1..n : performed[k] = Flat[m]
    BY <2>3 DEF InSeq
  <2>5. k \in DOMAIN performed
    OBVIOUS
  <2> QED BY <2>1, <2>4, <2>5 DEF ToSet
<1>6. ASSUME NEW k \in 1..n
      PROVE  /\ PositionOf(performed[k]) \in 1..hi
             /\ Flat[PositionOf(performed[k])] = performed[k]
  <2>1. \E m \in 1..hi : Flat[m] = performed[k]
    BY DEF Accounted
  <2> QED BY <2>1 DEF PositionOf
<1>7. \A j, k \in 1..n, p, q \in 1..hi :
         j < k /\ performed[j] = Flat[p] /\ performed[k] = Flat[q]
            => p < q \/ SameWait(q, p)
  BY DEF Accounted
<1> QED BY <1>4, <1>5, <1>6, <1>7 DEF FollowsScript

(* Covered, said of the state after a step that keeps the script. *)
LEMMA CoveredThen ==
    ASSUME script' = script,
           verdict' = "PASS" /\ stage' \in Phases =>
              Accounted(performed', steps', stage', Upto(stage')),
           verdict' = "PASS" /\ stage' = "DONE" =>
              Accounted(performed', <<>>, "TEARDOWN", Len(Flat))
    PROVE  Covered'
<1>1. Flat' = Flat
  BY DEF Flat
<1>2. (verdict = "PASS" /\ stage \in Phases =>
          Accounted(performed, steps, stage, Upto(stage)))'
  <2> SUFFICES ASSUME verdict' = "PASS", stage' \in Phases
               PROVE  Accounted(performed, steps, stage, Upto(stage))'
    OBVIOUS
  <2>1. Accounted(performed', steps', stage', Upto(stage'))
    OBVIOUS
  <2>2. Upto(stage)' = Upto(stage')
    BY DEF Upto, From
  <2>3. From(stage)' = From(stage')
    BY DEF From
  <2>4. \A p, q : SameWait(p, q)' <=> SameWait(p, q)
    BY <1>1 DEF SameWait, PhaseAt
  <2>5. \A y : (InSeq(y, performed)' <=> InSeq(y, performed'))
             /\ (InSeq(y, steps)' <=> InSeq(y, steps'))
    BY DEF InSeq
  <2> QED BY <1>1, <2>1, <2>2, <2>3, <2>4, <2>5, SMTT(30) DEF Accounted
<1>3. (verdict = "PASS" /\ stage = "DONE" =>
          Accounted(performed, <<>>, "TEARDOWN", Len(Flat)))'
  <2> SUFFICES ASSUME verdict' = "PASS", stage' = "DONE"
               PROVE  Accounted(performed, <<>>, "TEARDOWN", Len(Flat))'
    OBVIOUS
  <2>1. Accounted(performed', <<>>, "TEARDOWN", Len(Flat))
    OBVIOUS
  <2>2. Len(Flat)' = Len(Flat)
    BY <1>1
  <2>3. From("TEARDOWN")' = From("TEARDOWN")
    BY DEF From
  <2>4. \A p, q : SameWait(p, q)' <=> SameWait(p, q)
    BY <1>1 DEF SameWait, PhaseAt
  <2>5. \A y : (InSeq(y, performed)' <=> InSeq(y, performed'))
             /\ (InSeq(y, <<>>)' <=> InSeq(y, <<>>))
    BY DEF InSeq
  <2> QED BY <1>1, <2>1, <2>2, <2>3, <2>4, <2>5 DEF Accounted
<1> QED BY <1>2, <1>3 DEF Covered

(* __next_stage with all steps done finds the next ones as they are in the *)
(* script, or everything done.                                             *)
LEMMA NextStagePasses ==
    ASSUME script \in Scripts, stage \in Stages, script' = script,
           performed \in Seq(StepIds), performed' \in Seq(StepIds),
           NEW v, NEW q, GoNextStage(v, <<>>, q), v = "FAIL" => stage = "NONE",
           stage = "NONE" => performed' = <<>>,
           stage \in Phases =>
              Accounted(performed', <<>>, stage, Upto(stage)),
           stage = "DONE" =>
              Accounted(performed', <<>>, "TEARDOWN", Len(Flat))
    PROVE  Covered'
<1> DEFINE a == script["SETUP"]
           b == script["TEST"]
           c == script["TEARDOWN"]
           to == Landing(v)
           done == IF stage = "NONE" THEN 0
                   ELSE IF stage = "DONE" THEN Len(Flat) ELSE Upto(stage)
<1>1. a \in Seq(StepIds) /\ b \in Seq(StepIds) /\ c \in Seq(StepIds)
  BY FlatFacts DEF Phases
<1>2. /\ Len(a) \in Nat /\ Len(b) \in Nat /\ Len(c) \in Nat
      /\ a = <<>> => Len(a) = 0
      /\ b = <<>> => Len(b) = 0
      /\ c = <<>> => Len(c) = 0
  BY <1>1
<1>3. Len(Flat) = Len(a) + Len(b) + Len(c)
  BY FlatFacts
<1>4. /\ From("SETUP") = 0 /\ From("TEST") = Len(a)
      /\ From("TEARDOWN") = Len(a) + Len(b)
      /\ Upto("SETUP") = 0 + Len(a) /\ Upto("TEST") = Len(a) + Len(b)
      /\ Upto("TEARDOWN") = Len(a) + Len(b) + Len(c)
  BY DEF From, Upto
<1>5. /\ to = IF stage = "NONE"
              THEN IF a # <<>> THEN "SETUP" ELSE IF b # <<>> THEN "TEST"
                   ELSE IF c # <<>> THEN "TEARDOWN" ELSE "DONE"
              ELSE IF stage = "SETUP"
              THEN IF b # <<>> THEN "TEST"
                   ELSE IF c # <<>> THEN "TEARDOWN" ELSE "DONE"
              ELSE IF stage = "TEST"
              THEN IF c # <<>> THEN "TEARDOWN" ELSE "DONE"
              ELSE "DONE"
  BY DEF Landing, LandSetup, LandTest, LandTeardown
<1>6. /\ stage' = to /\ steps' = IF to = "DONE" THEN <<>> ELSE script[to]
      /\ to \in Phases \cup {"DONE"}
  BY <1>5 DEF GoNextStage, Phases
<1> HIDE DEF a, b, c, to
<1>7. /\ to \in Phases => From(to) = done
      /\ to = "DONE" => done = Len(Flat)
  <2>1. stage \in {"NONE", "SETUP", "TEST", "TEARDOWN", "DONE"}
    BY DEF Stages, Phases
  <2>2. CASE stage = "NONE"
    BY <1>2, <1>3, <1>4, <1>5, <2>2 DEF Phases
  <2>3. CASE stage = "SETUP"
    BY <1>2, <1>3, <1>4, <1>5, <2>3 DEF Phases
  <2>4. CASE stage = "TEST"
    BY <1>2, <1>3, <1>4, <1>5, <2>4 DEF Phases
  <2>5. CASE stage = "TEARDOWN"
    BY <1>2, <1>3, <1>4, <1>5, <2>5 DEF Phases
  <2>6. CASE stage = "DONE"
    BY <1>5, <2>6 DEF Phases
  <2> QED BY <2>1, <2>2, <2>3, <2>4, <2>5, <2>6
<1>8. \E ph : Accounted(performed', <<>>, ph, done)
  <2>1. CASE stage = "NONE"
    <3>1. Len(<<>>) = 0 /\ performed' = <<>> /\ done = 0
      BY <2>1
    <3> QED BY <3>1 DEF Accounted
  <2>2. CASE stage \in Phases
    BY <2>2 DEF Phases
  <2>3. CASE stage = "DONE"
    BY <2>3
  <2> QED BY <2>1, <2>2, <2>3 DEF Stages
<1>9. PICK ph : Accounted(performed', <<>>, ph, done)
  BY <1>8
<1> HIDE DEF done
<1>10. CASE to \in Phases
  <2>1. Accounted(performed', script[to], to, Upto(to))
    BY <1>7, <1>9, <1>10, Enter
  <2>2. stage' = to /\ steps' = script[to] /\ to # "DONE"
    BY <1>6, <1>10 DEF Phases
  <2> QED BY <2>1, <2>2, CoveredThen
<1>11. CASE to = "DONE"
  <2>1. Accounted(performed', <<>>, "TEARDOWN", Len(Flat))
    <3>1. Accounted(performed', <<>>, ph, Len(Flat)) /\ Len(<<>>) = 0
      BY <1>7, <1>9, <1>11
    <3> QED BY <3>1 DEF Accounted
  <2>2. stage' = "DONE" /\ "DONE" \notin Phases
    BY <1>6, <1>11 DEF Phases
  <2> QED BY <2>1, <2>2, CoveredThen
<1> QED BY <1>6, <1>10, <1>11

(* Removing a step performs it. *)
LEMMA RemoveStepPasses ==
    ASSUME TypeOK, TypeOK', VerdictInv, Covered, NothingLeft,
           pc \in Running, script' = script,
           NEW i \in 1..Len(steps), GoRemoveStep(i, queue), i = 1 \/ Leading(i)
    PROVE  Covered' /\ stage # "NONE" /\ stage' # "NONE"
<1> DEFINE perf2 == Append(performed, steps[i])
           rest == RemoveAt(steps, i)
<1>1. /\ script \in Scripts /\ stage \in Stages /\ verdict \in Verdicts
      /\ steps \in Seq(StepIds) /\ performed \in Seq(StepIds)
      /\ performed' \in Seq(StepIds) /\ rest \in Seq(StepIds)
  BY RemoveAtType DEF TypeOK
<1>2. stage \in Phases /\ stage # "NONE" /\ stage # "DONE"
  <2>1. steps # <<>>
    BY <1>1
  <2> QED BY <1>1, <2>1 DEF NothingLeft, Stages, Phases
<1>3. /\ performed' = perf2
      /\ rest = <<>> => GoNextStage(verdict, <<>>, queue)
      /\ rest # <<>> => steps' = rest /\ UNCHANGED <<stage, verdict>>
  BY DEF GoRemoveStep, Without
<1>4. i = 1 \/ \A j \in 1..i : Info[steps[j]].action = "WAIT_FOR"
  BY DEF Leading
<1>5. verdict = "PASS" => Accounted(perf2, rest, stage, Upto(stage))
  BY <1>1, <1>2, <1>4, Perform DEF Covered
<1>6. stage' # "NONE"
  BY <1>1, <1>2, <1>3, LandingType DEF GoNextStage, Phases
<1> HIDE DEF rest, perf2
<1>7. CASE verdict = "PASS"
  <2>1. CASE rest = <<>>
    <3>1. Accounted(performed', <<>>, stage, Upto(stage))
      BY <1>3, <1>5, <1>7, <2>1
    <3> QED BY <1>1, <1>2, <1>3, <1>6, <1>7, <2>1, <3>1, NextStagePasses
  <2>2. CASE rest # <<>>
    BY <1>2, <1>3, <1>5, <1>6, <1>7, <2>2, CoveredThen
  <2> QED BY <2>1, <2>2
<1>8. CASE verdict # "PASS"
  <2>1. verdict' # "PASS"
    BY <1>2, <1>3, <1>8 DEF GoNextStage
  <2> QED BY <1>2, <1>6, <2>1 DEF Covered
<1> QED BY <1>7, <1>8

(* Every step keeps PassInv, as long as an attempt starts with no steps    *)
(* left and leaves none.                                                   *)
LEMMA PassStep ==
    ASSUME TypeOK, TypeOK', LocalsOK, VerdictInv, NothingLeft,
           PassInv, [Next]_vars
    PROVE  PassInv'
<1> USE DEF vars, phaseVars, loopVars, timerVars, threadVars, local, books,
            budget, history
<1>1. /\ script \in Scripts /\ stage \in Stages /\ verdict \in Verdicts
      /\ steps \in Seq(StepIds) /\ performed \in Seq(StepIds)
      /\ performed' \in Seq(StepIds)
  BY DEF TypeOK
<1>2. script' = script
  BY DEF Next, MainThread, Terminated, RunFrame, MainLoop, ProcessEvent,
     Callback, TimerThread, Reader, Skip, Begin, OpenFails, EnterLoop,
     HandleException, OpenDevice, StopDevice, StopLeftProcess, Cleanup,
     CloseDevice, LeftProcessStopped, RunReturns, Repeat, Finish,
     RunNextStepEmpty, RunNextStepWait, RunNextStepAct, StepActed, RunFail,
     RunQuit, RunEvent, NoMatch, MatchAccepted, MatchDeclined, MonitorReturns,
     EventDone, MatchPlain, MatchIncomplete, MatchExhausted, MatchCallback,
     CallMonitor, CallSetFail, CallStop, CallRaises, StopProcessReturns,
     CallAddUserEvent, CallAddMonitor, CallRemoveMonitor, CallStartProcess,
     CallStopProcess, TimerExpires, TimerCallsBack, ReadFails, ReaderStops,
     ReadLine, OrphanLine,
     OrphanDies
<1>3. Covered /\ UNCHANGED <<stage, verdict, steps, performed>> => Covered'
  BY <1>2, CoveredThen DEF Covered
<1>4. CASE UNCHANGED vars
  BY <1>3, <1>4 DEF PassInv, Leading
<1>5. CASE RunFrame
  <2>1. CASE HandleException
    <3>1. /\ GoNextStage("FAIL", <<>>, queue) /\ pc = "raised" /\ pc' = "cleanup"
          /\ performed' = performed
      BY <2>1 DEF HandleException, GoFail
    <3>2. CASE stage = "NONE"
      <4>1. performed' = <<>> /\ "DONE" \notin Phases /\ stage \notin Phases
        BY <3>1, <3>2 DEF PassInv, Phases
      <4>2. Covered'
        BY <1>1, <1>2, <3>1, <3>2, <4>1, NextStagePasses
      <4> QED BY <3>1, <4>2 DEF PassInv, Running, InCallback
    <3>3. CASE stage # "NONE"
      <4>1. verdict' = "FAIL"
        BY <3>1, <3>3 DEF GoNextStage
      <4> QED BY <3>1, <4>1 DEF PassInv, Covered, Running, InCallback
    <3> QED BY <3>2, <3>3
  <2>2. CASE Repeat
    <3>1. stage' = "NONE" /\ pc' = "ready"
      BY <2>2 DEF Repeat
    <3> QED BY <3>1 DEF PassInv, Covered, Phases, Running, InCallback
  <2>3. CASE Begin
    <3>1. stage = "NONE" /\ stage' = stage /\ performed' = <<>> /\ pc' = "opening"
      BY <2>3 DEF Begin, VerdictInv
    <3> QED BY <3>1 DEF PassInv, Covered, Phases, Running, InCallback
  <2>4. CASE OpenFails
    <3>1. verdict' = "FAIL" /\ pc' = "cleanup"
      BY <2>4 DEF OpenFails
    <3> QED BY <3>1 DEF PassInv, Covered, Running, InCallback
  <2>5. CASE ~HandleException /\ ~Repeat /\ ~Begin /\ ~OpenFails
    <3>1. /\ UNCHANGED <<stage, verdict, steps, performed>>
          /\ pc' \in {"opening", "loop"} => pc = "opening"
          /\ pc' \notin (Running \cup {"raised"}) \ {"loop"}
      BY <1>5, <2>5 DEF RunFrame, Skip, EnterLoop, Cleanup, CloseDevice,
         LeftProcessStopped, RunReturns, Finish, OpenDevice, StopDevice,
         StopLeftProcess, Running, InCallback
    <3> QED BY <1>3, <3>1 DEF PassInv, Running, InCallback
  <2> QED BY <2>1, <2>2, <2>3, <2>4, <2>5
<1>6. CASE Removes
  <2>1. \E i \in 1..Len(steps) : GoRemoveStep(i, queue) /\ (i = 1 \/ Leading(i))
    <3>1. CASE StepActed
      BY <1>1, <3>1 DEF StepActed, LocalsOK
    <3>2. CASE MatchAccepted
      BY <3>2 DEF MatchAccepted, LocalsOK, PassInv
    <3>3. CASE MatchDeclined /\ Info[steps[at]].kind = "list"
      BY <3>3 DEF MatchDeclined, LocalsOK, PassInv
    <3>4. CASE \E i \in 1..Len(steps) : MatchPlain(i)
      BY <3>4 DEF MatchPlain, FirstCandidate, Candidate
    <3> QED BY <1>6, <3>1, <3>2, <3>3, <3>4 DEF Removes
  <2>2. PICK i \in 1..Len(steps) : GoRemoveStep(i, queue) /\ (i = 1 \/ Leading(i))
    BY <2>1
  <2>3. pc \in Running /\ pc' \in {"loop", "monitors"}
    BY <1>6, RemovesOne DEF Running, InCallback
  <2>4. Covered' /\ stage' # "NONE"
    BY <1>2, <2>2, <2>3, RemoveStepPasses DEF PassInv
  <2> QED BY <2>3, <2>4 DEF PassInv
<1>7. CASE Advances
  <2>1. pc = "loop" /\ pc' = "loop" /\ performed' = performed
    BY <1>7, AdvancesOne
  <2>2. PICK v, q : /\ GoNextStage(v, <<>>, q)
                     /\ \/ v = verdict /\ steps = <<>>
                        \/ v = "FAIL"
    BY <1>7 DEF Advances, RunNextStepEmpty, RunFail, GoFail
  <2>3. stage' # "NONE"
    <3>1. v \in Verdicts
      BY <1>1, <2>2 DEF Verdicts
    <3> QED BY <1>1, <2>2, <3>1, LandingType DEF GoNextStage, Phases
  <2>4. CASE stage # "NONE" /\ (v = "FAIL" \/ verdict # "PASS")
    <3>1. verdict' # "PASS"
      BY <2>2, <2>4 DEF GoNextStage
    <3> QED BY <2>1, <2>3, <3>1 DEF PassInv, Covered
  <2>5. CASE stage = "NONE"
    <3>1. performed' = <<>> /\ stage \notin Phases /\ stage # "DONE"
      BY <2>1, <2>5 DEF PassInv, Running, Phases
    <3>2. Covered'
      BY <1>1, <1>2, <2>2, <2>5, <3>1, NextStagePasses
    <3> QED BY <2>1, <2>3, <3>2 DEF PassInv
  <2>6. CASE stage # "NONE" /\ v # "FAIL" /\ verdict = "PASS"
    <3>1. steps = <<>> /\ v = "PASS"
      BY <2>2, <2>6
    <3>2. /\ stage \in Phases =>
               Accounted(performed', <<>>, stage, Upto(stage))
          /\ stage = "DONE" =>
               Accounted(performed', <<>>, "TEARDOWN", Len(Flat))
      BY <2>1, <2>6, <3>1 DEF PassInv, Covered
    <3>3. Covered'
      BY <1>1, <1>2, <2>2, <2>6, <3>1, <3>2, NextStagePasses
    <3> QED BY <2>1, <2>3, <3>3 DEF PassInv
  <2> QED BY <2>4, <2>5, <2>6
<1>8. CASE (MainLoop \/ ProcessEvent \/ Callback) /\ ~Removes /\ ~Advances
  <2>1. /\ UNCHANGED <<stage, verdict, steps, performed>> /\ pc \in Running
        /\ pc' \in Running \cup {"raised", "cleanup"}
    BY <1>8, OthersStay DEF RunQuit
  <2>2. pc' = "matched" => Leading(at)'
    <3>1. CASE MainLoop
      BY <1>8, <3>1 DEF MainLoop, RunNextStepWait, RunNextStepAct, RunQuit,
         RunEvent, AtHead, Removes, Advances
    <3>2. CASE ProcessEvent
      <4>1. CASE \E i \in 1..Len(steps) : MatchCallback(i)
        <5>1. PICK i \in 1..Len(steps) : MatchCallback(i)
          BY <4>1
        <5>2. Leading(i) /\ at' = i
          BY <5>1 DEF MatchCallback, FirstCandidate, Candidate
        <5> QED BY <2>1, <5>2 DEF Leading
      <4>2. CASE ~ \E i \in 1..Len(steps) : MatchCallback(i)
        BY <1>8, <3>2, <4>2 DEF ProcessEvent, NoMatch, MatchDeclined,
           MonitorReturns, EventDone, MatchIncomplete, MatchExhausted,
           CallMonitor, ToMonitors, Removes
      <4> QED BY <4>1, <4>2
    <3>3. CASE Callback
      <4>1. pc' = "matched" => pc = "matched" /\ at' = at
        BY <3>3 DEF Callback, CallSetFail, CallStop, CallRaises,
           StopProcessReturns, CallAddUserEvent, CallAddMonitor,
           CallRemoveMonitor, CallStartProcess, CallStopProcess
      <4> QED BY <2>1, <4>1 DEF PassInv, Leading
    <3> QED BY <1>8, <3>1, <3>2, <3>3
  <2> QED BY <1>3, <2>1, <2>2 DEF PassInv
<1>9. CASE TimerThread \/ \E s \in Sources : Reader(s)
  <2>1. UNCHANGED <<stage, verdict, steps, performed, pc>>
    BY <1>9, ThreadsAdd
  <2>2. at' = at
    BY <1>9 DEF TimerThread, TimerExpires, TimerCallsBack, Reader, ReadFails,
       ReaderStops, ReadLine, OrphanLine,
     OrphanDies
  <2> QED BY <1>3, <2>1, <2>2 DEF PassInv, Leading
<1> QED
  BY <1>4, <1>5, <1>6, <1>7, <1>8, <1>9 DEF Next, MainThread, Terminated

(* What PassInv promises of a test that has ended. *)
LEMMA PassEnough ==
    ASSUME TypeOK, PassInv
    PROVE  PassIsEarned
BY Followed DEF PassIsEarned, PassInv, Covered, TypeOK

(* Nothing has been performed in the first place.                          *)
LEMMA PassInit == Init => PassInv /\ NothingLeft
BY DEF Init, PassInv, Covered, NothingLeft, Running, InCallback

(* A pass of the first attempt is earned, whatever happens to it. *)
THEOREM PassEarned ==
    Spec => [](attempt = 1 => PassIsEarned)
<1> DEFINE Inv == attempt = 1 => NothingLeft /\ PassInv
<1>1. TypeOK /\ LocalsOK /\ VerdictInv /\ Inv /\ [Next]_vars /\ (TypeOK /\ LocalsOK)'
         => Inv'
  <2> SUFFICES ASSUME TypeOK, TypeOK', LocalsOK, VerdictInv, Inv, [Next]_vars,
                      attempt' = 1
               PROVE  (NothingLeft /\ PassInv)'
    OBVIOUS
  <2>1. attempt = 1 /\ ~Repeat
    BY AttemptStep DEF Repeat, TypeOK
  <2> QED BY <2>1, LeftStep, PassStep
<1>2. TypeOK /\ Inv => (attempt = 1 => PassIsEarned)
  BY PassEnough
<1>3. Init => TypeOK /\ LocalsOK /\ VerdictInv /\ Inv
  BY PassInit, TypeInit DEF Init, VerdictInv, Running, InCallback
<1>4. TypeOK /\ LocalsOK /\ [Next]_vars => (TypeOK /\ LocalsOK)'
  BY TypeStep
<1>5. TypeOK /\ VerdictInv /\ [Next]_vars => VerdictInv'
  BY VerdictStep
<1> HIDE DEF Inv
<1> QED BY <1>1, <1>2, <1>3, <1>4, <1>5, PTL DEF Spec

(* So is that of a repeated attempt, unless an earlier one was stopped by  *)
(* user code or ended by an exception.                                     *)
THEOREM PassEarnedAgain ==
    ASSUME "stop" \notin Calls
    PROVE  Spec /\ [](pc # "raised") => []PassIsEarned
<1> DEFINE Inv == /\ TypeOK /\ LocalsOK /\ VerdictInv /\ EndInv
                  /\ NothingLeft /\ reason # "exception" /\ PassInv
           Calm == pc # "raised"
<1>1. Init => Inv
  <2>1. Init => VerdictInv /\ EndInv
    BY DEF Init, VerdictInv, EndInv, Holds, Running, InCallback, Behind
  <2>2. Init => reason # "exception"
    BY DEF Init
  <2> QED BY <2>1, <2>2, PassInit, TypeInit
<1>2. Inv /\ Calm /\ [Next]_vars => Inv'
  <2> SUFFICES ASSUME Inv, Calm, [Next]_vars PROVE Inv'
    OBVIOUS
  <2>1. Repeat => stage \in {"NONE", "DONE"}
    BY DEF Repeat, EndInv, Behind
  <2>2. (TypeOK /\ LocalsOK)'
    BY TypeStep
  <2> QED
    BY <2>1, <2>2, VerdictStep, EndStep, LeftStep, ReasonStep, PassStep
<1>3. Inv => PassIsEarned
  BY PassEnough
<1> HIDE DEF Inv
<1> QED BY <1>1, <1>2, <1>3, PTL DEF Spec


(***************************************************************************)
(* The teardown.  Its steps are performed or to be performed while it is   *)
(* going on, and performed behind it, unless a failure has ended it.       *)
(***************************************************************************)
DoneOrLeft(perf, rem) ==
    \A i \in 1..Len(script["TEARDOWN"]) :
        InSeq(script["TEARDOWN"][i], perf) \/ InSeq(script["TEARDOWN"][i], rem)

TearInv ==
    /\ stage = "TEARDOWN" => cut \/ DoneOrLeft(performed, steps)
    /\ stage = "DONE" => cut \/ DoneOrLeft(performed, <<>>)

(* __next_stage, called when all steps are done, keeps TearInv; a failure  *)
(* of the teardown phase is a cut.                                         *)
LEMMA NextStageTears ==
    ASSUME TypeOK, TearInv, NEW v \in Verdicts, NEW q, NEW perf,
           GoNextStage(v, <<>>, q), performed' = perf, script' = script,
           cut => cut', stage # "TEARDOWN" => perf = performed,
           stage = "TEARDOWN" => cut' \/ DoneOrLeft(perf, <<>>)
    PROVE  TearInv'
<1>1. stage' = Landing(v) /\ stage \in Stages
  BY DEF GoNextStage, TypeOK
<1>2. CASE stage' = "TEARDOWN"
  <2>1. steps' = script["TEARDOWN"]
    BY <1>1, <1>2 DEF GoNextStage
  <2>2. DoneOrLeft(performed, steps)'
    BY <2>1 DEF DoneOrLeft, InSeq
  <2> QED BY <1>2, <2>2 DEF TearInv
<1>3. CASE stage' = "DONE" /\ stage \notin {"TEARDOWN", "DONE"}
  <2>1. script["TEARDOWN"] = <<>>
    BY <1>1, <1>3 DEF Landing, LandSetup, LandTest, LandTeardown, Stages, Phases
  <2>2. DoneOrLeft(performed, <<>>)'
    BY <2>1 DEF DoneOrLeft
  <2> QED BY <1>3, <2>2 DEF TearInv
<1>4. CASE stage' = "DONE" /\ stage = "TEARDOWN"
  BY <1>4 DEF TearInv, DoneOrLeft, InSeq
<1>5. CASE stage' = "DONE" /\ stage = "DONE"
  BY <1>5 DEF TearInv, DoneOrLeft, InSeq
<1>6. CASE stage' \notin {"TEARDOWN", "DONE"}
  BY <1>6 DEF TearInv
<1> QED BY <1>2, <1>3, <1>4, <1>5, <1>6

(* Every step keeps TearInv. *)
LEMMA TearStep ==
    ASSUME TypeOK, LocalsOK, VerdictInv, TearInv, [Next]_vars
    PROVE  TearInv'
<1> USE DEF vars, phaseVars, loopVars, timerVars, threadVars, local, books,
            budget, history
<1>0. /\ verdict \in Verdicts /\ steps \in Seq(StepIds)
      /\ performed \in Seq(StepIds) /\ "FAIL" \in Verdicts
  BY DEF TypeOK, Verdicts
<1>1. CASE UNCHANGED <<script, stage, steps, performed, cut>>
  BY <1>1 DEF TearInv, DoneOrLeft
<1>2. CASE RunFrame
  <2>1. CASE Begin \/ Repeat
    <3>1. stage' = "NONE"
      BY <2>1 DEF Begin, Repeat, VerdictInv
    <3> QED BY <3>1 DEF TearInv
  <2>2. CASE HandleException
    <3>1. GoNextStage("FAIL", <<>>, queue)
      BY <2>2 DEF HandleException, GoFail
    <3>2. /\ performed' = performed /\ script' = script
          /\ cut' = IF stage = "TEARDOWN" THEN TRUE ELSE cut
      BY <2>2 DEF HandleException, Cut
    <3> QED BY <1>0, <3>1, <3>2, NextStageTears
  <2>3. CASE ~Begin /\ ~Repeat /\ ~HandleException
    BY <1>1, <1>2, <2>3 DEF RunFrame, Skip, OpenFails, EnterLoop, OpenDevice,
       StopDevice, StopLeftProcess, Cleanup, CloseDevice, LeftProcessStopped,
       RunReturns, Finish
  <2> QED BY <2>1, <2>2, <2>3
<1>3. CASE Removes
  <2>1. PICK i \in 1..Len(steps) : GoRemoveStep(i, queue)
    BY <1>3, RemovesOne
  <2>2. script' = script /\ cut' = cut
    BY <1>3, RemovesOne
  <2> DEFINE rest == RemoveAt(steps, i)
             perf == Append(performed, steps[i])
  <2>3. performed' = perf /\ steps[i] \in StepIds
    BY <1>0, <2>1 DEF GoRemoveStep
  <2>4. \A y : InSeq(y, perf) <=> InSeq(y, performed) \/ y = steps[i]
    BY <1>0, <2>3, InAppend
  <2>5. \A y : InSeq(y, steps) => InSeq(y, rest) \/ y = steps[i]
    BY <1>0, InRemoved
  <2> HIDE DEF rest, perf
  <2>6. /\ DoneOrLeft(performed, steps) => DoneOrLeft(perf, rest)
        /\ DoneOrLeft(performed, <<>>) => DoneOrLeft(perf, <<>>)
    BY <2>4, <2>5 DEF DoneOrLeft
  <2>7. CASE rest = <<>> /\ stage # "DONE"
    <3>1. GoNextStage(verdict, <<>>, queue)
      BY <2>1, <2>7 DEF GoRemoveStep, Without, rest
    <3>2. stage = "TEARDOWN" => cut' \/ DoneOrLeft(perf, <<>>)
      BY <2>2, <2>6, <2>7 DEF TearInv
    <3>3. stage' = Landing(verdict) /\ stage \in Stages
      BY <3>1 DEF GoNextStage, TypeOK
    <3>4. CASE stage = "TEARDOWN"
      <4>1. stage' = "DONE"
        BY <3>3, <3>4 DEF Landing
      <4>2. cut' \/ DoneOrLeft(performed, <<>>)'
        BY <2>2, <2>3, <3>2, <3>4 DEF DoneOrLeft, InSeq
      <4> QED BY <4>1, <4>2 DEF TearInv
    <3>5. CASE stage # "TEARDOWN"
      <4>1. stage' = "DONE" => script["TEARDOWN"] = <<>>
        BY <2>7, <3>3, <3>5 DEF Landing, LandSetup, LandTest, LandTeardown,
           Stages, Phases
      <4>2. stage' = "TEARDOWN" => steps' = script["TEARDOWN"]
        BY <3>1, <3>3 DEF GoNextStage
      <4> QED BY <2>2, <4>1, <4>2 DEF TearInv, DoneOrLeft, InSeq
    <3> QED BY <3>4, <3>5
  <2>8. CASE rest # <<>>
    <3>1. steps' = rest /\ stage' = stage
      BY <2>1, <2>8 DEF GoRemoveStep, Without, rest
    <3> QED BY <2>2, <2>3, <2>6, <3>1 DEF TearInv, DoneOrLeft
  <2>9. CASE rest = <<>> /\ stage = "DONE"
    <3>1. GoNextStage(verdict, <<>>, queue)
      BY <2>1, <2>9 DEF GoRemoveStep, Without, rest
    <3>2. stage' = "DONE"
      BY <2>9, <3>1 DEF GoNextStage, Landing
    <3> QED BY <2>2, <2>3, <2>6, <2>9, <3>2 DEF TearInv, DoneOrLeft
  <2> QED BY <2>7, <2>8, <2>9
<1>4. CASE Advances
  <2>1. PICK v \in {verdict, "FAIL"} : GoNextStage(v, <<>>, Tail(queue))
    BY <1>4, AdvancesOne
  <2>2. /\ performed' = performed /\ script' = script
        /\ Cut \/ (steps = <<>> /\ cut' = cut)
    BY <1>4, AdvancesOne
  <2>3. cut => cut'
    BY <2>2 DEF Cut
  <2>4. stage = "TEARDOWN" => cut' \/ DoneOrLeft(performed, <<>>)
    BY <2>2 DEF Cut, TearInv
  <2>5. v \in Verdicts
    BY <1>0
  <2> QED BY <2>1, <2>2, <2>3, <2>4, <2>5, NextStageTears
<1>5. CASE MainLoop \/ ProcessEvent \/ Callback
  BY <1>1, <1>3, <1>4, <1>5, OthersStay
<1>6. CASE TimerThread \/ \E s \in Sources : Reader(s)
  BY <1>1, <1>6, ThreadsAdd
<1>7. CASE UNCHANGED vars
  BY <1>1, <1>7
<1> QED BY <1>2, <1>5, <1>6, <1>7 DEF Next, MainThread, Terminated

(* A test that was started performs every step of its teardown, in every   *)
(* attempt and whatever has failed before, unless a failure is applied in  *)
(* the teardown phase, user code stops the loop or something is raised     *)
(* (Test.__next_stage, Test.__fail).                                       *)
THEOREM TeardownAlways ==
    ASSUME "stop" \notin Calls
    PROVE  Spec => [](reason # "exception" => TeardownDone)
<1>1. Init => VerdictInv /\ EndInv /\ TearInv
  BY DEF Init, VerdictInv, EndInv, Holds, Running, InCallback, Behind, TearInv
<1>2. TypeOK /\ LocalsOK /\ [Next]_vars => (TypeOK /\ LocalsOK)'
  BY TypeStep
<1>3. TypeOK /\ VerdictInv /\ [Next]_vars => VerdictInv'
  BY VerdictStep
<1>4. TypeOK /\ LocalsOK /\ VerdictInv /\ EndInv /\ [Next]_vars => EndInv'
  BY EndStep
<1>5. TypeOK /\ LocalsOK /\ VerdictInv /\ TearInv /\ [Next]_vars => TearInv'
  BY TearStep
<1>6. TypeOK /\ EndInv /\ TearInv => (reason # "exception" => TeardownDone)
  <2> SUFFICES ASSUME TypeOK, EndInv, TearInv, reason # "exception", RunLeft,
                      reason \notin {"open", "skipped"}
               PROVE  stage = "DONE" /\ (cut \/ Performs(script["TEARDOWN"]))
    BY DEF TeardownDone
  <2>1. stage = "DONE"
    BY DEF EndInv, RunLeft, Behind
  <2>2. ASSUME DoneOrLeft(performed, <<>>)
        PROVE  \A i \in 1..Len(script["TEARDOWN"]) :
                   \E k \in 1..Len(performed) :
                       performed[k] = script["TEARDOWN"][i]
    BY <2>2 DEF DoneOrLeft, InSeq
  <2>3. script["TEARDOWN"] \in Seq(StepIds) /\ performed \in Seq(StepIds)
    BY ConstantsAssumption DEF TypeOK, Phases
  <2>4. DoneOrLeft(performed, <<>>) => Performs(script["TEARDOWN"])
    BY <2>2, <2>3 DEF Performs, ToSet
  <2> QED BY <2>1, <2>4 DEF TearInv
<1> QED BY <1>1, <1>2, <1>3, <1>4, <1>5, <1>6, TypeInit, PTL DEF Spec
=============================================================================

------------------------------ MODULE TestCase ------------------------------
(***************************************************************************)
(* One test case of the Spresense test framework, run by Runner.run as     *)
(* often as its repeat count allows (TestFramework/src/api/test.py,        *)
(* mainloop.py, output_handler.py and the inner loop of runner.py).        *)
(*                                                                         *)
(* Three kinds of threads share a Test object:                             *)
(*   - the main thread: Runner.run -> Test.run -> Mainloop.run, which      *)
(*     takes callbacks from a FIFO queue and calls them one at a time;     *)
(*   - one reader thread per open device or monitored process, which puts  *)
(*     every line it reads on that queue;                                  *)
(*   - the Timer of the current phase, whose callback puts a failure on it.*)
(*                                                                         *)
(* A user callback (EXECUTE step, WAIT_FOR step, monitor) is any sequence  *)
(* of calls of the Test API followed by a return or an exception; other    *)
(* threads run between those calls.                                        *)
(***************************************************************************)
EXTENDS Integers, Sequences, FiniteSets, SequencesExt

CONSTANTS
    Devices,     \* the devices of the test group
    Processes,   \* the host processes a callback may start
    Lines,       \* the lines a source may print
    StepIds,     \* the Step objects
    Info,        \* their fields
    Scripts,     \* the test cases considered: steps of each phase
    Monitors,    \* monitor names
    Calls,       \* what the user callbacks of the scenario may do
    Attempts,    \* repeat_count + 1
    MaxLines,    \* bound: lines read in all
    MaxCalls,    \* bound: API calls made by callbacks in all
    NoTimer, NoEvent, NoSource

Sources == Devices \cup Processes

Phases == {"SETUP", "TEST", "TEARDOWN"}
Stages == Phases \cup {"NONE", "DONE"}
Verdicts == {"NOT_RUN", "PASS", "FAIL"}
Reasons == {"none", "skipped", "open", "timeout", "reported", "exception"}

CallKinds == {"set_fail", "add_user_event", "stop", "add_monitor",
              "remove_monitor", "start_process", "stop_process", "raise",
              "open_fails", "read_fails", "skip"}

(* A step's data is the sequence of what it still waits for, each given as *)
(* the set of lines that contain it; a "str" has one, a "list" several, a  *)
(* "msg" (MsgDescriptor) is matched by the parser and has none.            *)
StepInfo == [action: {"WRITE", "WAIT_FOR", "EXECUTE"}, source: Sources,
             kind: {"str", "list", "msg"}, data: Seq(SUBSET Lines),
             callback: BOOLEAN]

ASSUME ConstantsAssumption ==
    /\ Info \in [StepIds -> StepInfo]
    /\ \A s \in StepIds : Info[s].kind = "str" => Len(Info[s].data) = 1
    /\ \A sc \in Scripts : \A p \in Phases : sc[p] \in Seq(StepIds)
    /\ IsFiniteSet(Monitors)
    /\ Calls \subseteq CallKinds
    /\ Attempts \in Nat \ {0}
    /\ MaxLines \in Nat /\ MaxCalls \in Nat
    /\ Devices \cap Processes = {}
    /\ NoSource \notin Sources

(* Every call that adds a step to a test case makes a Step of its own. *)
ASSUME DistinctSteps ==
    \A sc \in Scripts : IsInjective(sc["SETUP"] \o sc["TEST"] \o sc["TEARDOWN"])

Timers == [attempt: 1..Attempts, stage: Phases]

ASSUME SentinelAssumption ==
    /\ NoTimer \notin Timers
    /\ NoEvent \notin [source: Sources, line: Lines]

(***************************************************************************)
(* The callbacks the queue holds.  born is the attempt and stage in which  *)
(* a failure was raised: it is in the reason's text only, nothing reads it.*)
(***************************************************************************)
NextStep == [kind |-> "next_step"]
Quit == [kind |-> "quit"]
FailItem(why, when) == [kind |-> "fail", reason |-> why, born |-> when]
EventItem(s, l) == [kind |-> "event", event |-> [source |-> s, line |-> l]]

Births == [attempt: 1..Attempts, stage: Stages]
Events == [source: Sources, line: Lines]
Items == {NextStep, Quit}
         \cup [kind: {"fail"}, reason: {"timeout", "reported"}, born: Births]
         \cup [kind: {"event"}, event: Events]

VARIABLES
    script,      \* Test.setup, Test.test, Test.teardown
    stage, verdict, reason, steps,
    data,        \* Step.data of every step (list steps are consumed)
    queue,       \* Mainloop.__events
    mainloop,    \* Test.mainloop is not None
    armed,       \* the phase whose Timer is running, or NoTimer
    late,        \* Timers that expired and have not called set_fail yet
    monitors,    \* Test.monitors: name -> source
    reader,      \* the reader thread of each source
    opened,      \* keys of output_handlers
    procs,       \* keys of process_output_handlers
    orphans,     \* processes with a reader that a second start has replaced
    pc,          \* where the main thread is
    ev,          \* argument of the __process_event call in progress
    at,          \* index in steps of the step being processed
    iter,        \* the monitors still to call, the dict's size at the start
    joining,     \* the source whose reader the main thread joins
    attempt,     \* j + 1 in Runner.run
    lines, calls,
    performed,   \* history: steps removed by __remove_step in this attempt
    reported,    \* history: a callback called set_fail in this attempt
    cut          \* history: its teardown phase was ended by a failure

phaseVars == <<stage, verdict, reason, steps, data>>
loopVars == <<queue, mainloop>>
timerVars == <<armed, late>>
threadVars == <<reader, opened, procs, orphans>>
local == <<ev, at, iter, joining, monitors>>
budget == <<lines, calls>>
history == <<performed, reported, cut>>
books == <<script, attempt, budget, history>>
vars == <<phaseVars, loopVars, timerVars, threadVars, pc, local, books>>

InCallback == {"executing", "matched", "monitor"}
Running == InCallback \cup {"loop", "matching", "monitors"}
PCs == Running \cup {"ready", "opening", "raised", "cleanup", "closing",
                     "returned", "over", "crashed"}

PartialFcn(S, T) == UNION {[D -> T] : D \in SUBSET S}

TypeOK ==
    /\ script \in Scripts
    /\ stage \in Stages
    /\ verdict \in Verdicts
    /\ reason \in Reasons
    /\ steps \in Seq(StepIds)
    /\ data \in [StepIds -> Seq(SUBSET Lines)]
    /\ queue \in Seq(Items)
    /\ mainloop \in BOOLEAN
    /\ armed \in Timers \cup {NoTimer}
    /\ late \subseteq Timers
    /\ monitors \in PartialFcn(Monitors, Sources)
    /\ reader \in [Sources -> {"none", "reading", "stopping", "dead"}]
    /\ opened \subseteq Devices
    /\ procs \subseteq Processes
    /\ orphans \subseteq Processes
    /\ pc \in PCs
    /\ ev \in Events \cup {NoEvent}
    /\ at \in Nat
    /\ iter \in [todo: SUBSET Monitors, size: Nat]
    /\ joining \in Sources \cup {NoSource}
    /\ attempt \in 1..Attempts
    /\ lines \in 0..MaxLines
    /\ calls \in 0..MaxCalls
    /\ performed \in Seq(StepIds)
    /\ reported \in BOOLEAN
    /\ cut \in BOOLEAN

Init ==
    /\ script \in Scripts
    /\ stage = "NONE" /\ verdict = "NOT_RUN" /\ reason = "none"
    /\ steps = <<>> /\ data = [s \in StepIds |-> Info[s].data]
    /\ queue = <<>> /\ mainloop = FALSE
    /\ armed = NoTimer /\ late = {}
    /\ monitors = << >>
    /\ reader = [s \in Sources |-> "none"] /\ opened = {} /\ procs = {}
    /\ orphans = {}
    /\ pc = "ready" /\ ev = NoEvent /\ at = 0 /\ joining = NoSource
    /\ iter = [todo |-> {}, size |-> 0]
    /\ attempt = 1 /\ lines = 0 /\ calls = 0
    /\ performed = <<>> /\ reported = FALSE /\ cut = FALSE

(***************************************************************************)
(* Phase changes: __next_stage, __set_stage, __fail and __remove_step.     *)
(***************************************************************************)
Now == [attempt |-> attempt, stage |-> stage]

(* Where __next_stage comes to rest: it calls itself again while the phase *)
(* it has entered has no steps.                                            *)
LandTeardown == IF script["TEARDOWN"] = <<>> THEN "DONE" ELSE "TEARDOWN"


LandTest == IF script["TEST"] = <<>> THEN LandTeardown ELSE "TEST"
LandSetup == IF script["SETUP"] = <<>> THEN LandTest ELSE "SETUP"

(* Mutant of Landing: a failed setup is followed by the test phase. *)
MutantLanding(v) ==
    IF stage = "NONE" THEN LandSetup
    ELSE IF stage = "SETUP" THEN LandTest
    ELSE IF stage = "TEST" THEN LandTeardown
    ELSE "DONE"

Landing(v) ==
    IF stage = "NONE" THEN LandSetup
    ELSE IF stage = "SETUP" /\ v # "FAIL" THEN LandTest
    ELSE IF stage \in {"SETUP", "TEST"} THEN LandTeardown
    ELSE "DONE"

Rank == [NONE |-> 0, SETUP |-> 1, TEST |-> 2, TEARDOWN |-> 3, DONE |-> 4]

(* The stages entered on the way, each of which queues one __next_step.    *)
Hops(v, to) ==
    Rank[to] - Rank[stage] - (IF stage = "SETUP" /\ v = "FAIL" THEN 1 ELSE 0)

(* The Timer of the stage entered; __next_stage replaces the one before.   *)

TimerOf(to) ==
    IF to = "DONE" THEN NoTimer ELSE [attempt |-> attempt, stage |-> to]

(* Reaching DONE ends the main loop.  Mutant: it is left before teardown. *)
MutantQuitAt(to) == IF to \in {"TEARDOWN", "DONE"} THEN <<Quit>> ELSE <<>>

QuitAt(to) == IF to = "DONE" THEN <<Quit>> ELSE <<>>

(* __next_stage, called with verdict v and the step list rest, which is    *)
(* asserted to be empty; q is what the queue holds.  Entering DONE queues  *)
(* the quit before the __next_step calls of the stages passed through.     *)
GoNextStage(v, rest, q) ==
    LET to == Landing(v) IN
    /\ stage' = to
    /\ verdict' = IF stage = "NONE" THEN "PASS" ELSE v
    /\ steps' = IF to = "DONE" THEN rest ELSE script[to]
    /\ armed' = TimerOf(to)
    /\ queue' = q \o QuitAt(to) \o [i \in 1..Hops(v, to) |-> NextStep]

(* Mutants of GoFail: the verdict is not set, the steps are not cleared. *)
MutantGoFailVerdict(why, q) == reason' = why /\ GoNextStage(verdict, <<>>, q)
MutantGoFailSteps(why, q) == reason' = why /\ GoNextStage("FAIL", steps, q)

(* __fail *)
GoFail(why, q) == reason' = why /\ GoNextStage("FAIL", <<>>, q)

(* What __remove_step leaves of the steps, and what it queues.  Mutants:   *)
(* the first step goes in place of the one that matched; nothing is queued.*)
MutantWithout(i) == RemoveAt(steps, 1)
Without(i) == RemoveAt(steps, i)

MutantRequeue(q) == q
Requeue(q) == Append(q, NextStep)

(* __remove_step of the step at index i *)
GoRemoveStep(i, q) ==
    LET rest == Without(i) IN
    /\ performed' = Append(performed, steps[i])
    /\ IF rest = <<>>
       THEN GoNextStage(verdict, rest, q)
       ELSE /\ steps' = rest
            /\ queue' = Requeue(q)
            /\ UNCHANGED <<stage, verdict, armed>>

(***************************************************************************)
(* Test.run up to the main loop.                                           *)
(***************************************************************************)
(* start_condition does not hold: run returns, only the reason is set. *)
Skip ==
    /\ pc = "ready" /\ "skip" \in Calls
    /\ reason' = "skipped"
    /\ pc' = "returned"
    /\ UNCHANGED <<stage, verdict, steps, data, loopVars, timerVars, threadVars,
                   local, books>>

Begin ==
    /\ pc = "ready"
    /\ mainloop' = TRUE /\ queue' = <<>>
    /\ performed' = <<>> /\ reported' = FALSE /\ cut' = FALSE
    /\ pc' = "opening"
    /\ UNCHANGED <<script, phaseVars, timerVars, threadVars, local, attempt,
                   budget>>

(* __output_handlers_start: one device opened, its reader started. *)
OpenDevice(d) ==
    /\ pc = "opening" /\ d \notin opened
    /\ opened' = opened \cup {d}
    /\ reader' = [reader EXCEPT ![d] = "reading"]
    /\ UNCHANGED <<phaseVars, loopVars, timerVars, procs, orphans, pc, local,
                   books>>

(* ... or opening it fails: FAIL, and the devices opened so far are closed.*)
(* One whose first read raises is open and has no handler: nobody closes it*)
(* but the next open, so that it makes no difference to what follows.      *)
OpenFails ==
    /\ pc = "opening" /\ "open_fails" \in Calls /\ opened # Devices
    /\ verdict' = "FAIL" /\ reason' = "open"
    /\ pc' = "cleanup"
    /\ UNCHANGED <<stage, steps, data, loopVars, timerVars, threadVars, local,
                   books>>

EnterLoop ==
    /\ pc = "opening" /\ opened = Devices
    /\ procs' = {} /\ monitors' = << >>
    /\ queue' = Append(queue, NextStep)
    /\ pc' = "loop"
    /\ UNCHANGED <<phaseVars, mainloop, timerVars, reader, opened, orphans, ev,
                   at, iter, joining, books>>

(***************************************************************************)
(* Mainloop.run: the callback at the head of the queue.                    *)
(***************************************************************************)
AtHead(k) == pc = "loop" /\ queue # <<>> /\ Head(queue).kind = k

(* __next_step with no steps left *)
RunNextStepEmpty ==
    /\ AtHead("next_step") /\ steps = <<>>
    /\ GoNextStage(verdict, steps, Tail(queue))
    /\ UNCHANGED <<reason, data, mainloop, late, threadVars, pc, local, books>>

(* __next_step in front of a WAIT_FOR: nothing to do *)
RunNextStepWait ==
    /\ AtHead("next_step") /\ steps # <<>>
    /\ Info[Head(steps)].action = "WAIT_FOR"
    /\ queue' = Tail(queue)
    /\ UNCHANGED <<phaseVars, mainloop, timerVars, threadVars, pc, local,
                   books>>

(* __next_step starts a WRITE or an EXECUTE *)
RunNextStepAct ==
    /\ AtHead("next_step") /\ steps # <<>>
    /\ Info[Head(steps)].action # "WAIT_FOR"
    /\ queue' = Tail(queue)
    /\ at' = 1 /\ pc' = "executing"
    /\ UNCHANGED <<phaseVars, mainloop, timerVars, threadVars, ev, iter,
                   joining, monitors, books>>

(* ... and removes the step when the write or the callback returns. *)
StepActed ==
    /\ pc = "executing" /\ joining = NoSource
    /\ GoRemoveStep(1, queue)
    /\ at' = 0 /\ pc' = "loop"
    /\ UNCHANGED <<script, reason, data, mainloop, late, threadVars, ev, iter,
                   joining, monitors, attempt, budget, reported, cut>>

(* History: what a failure leaves of the teardown phase is not performed.  *)
Cut == cut' = IF stage = "TEARDOWN" THEN TRUE ELSE cut

RunFail ==
    /\ AtHead("fail")
    /\ GoFail(Head(queue).reason, Tail(queue)) /\ Cut
    /\ UNCHANGED <<script, data, mainloop, late, threadVars, pc, local, attempt,
                   budget, performed, reported>>

(* Mainloop.__quit: the loop ends, what is queued is forgotten. *)
RunQuit ==
    /\ AtHead("quit")
    /\ queue' = <<>>
    /\ pc' = "cleanup"
    /\ UNCHANGED <<phaseVars, mainloop, timerVars, threadVars, local, books>>

RunEvent ==
    /\ AtHead("event")
    /\ queue' = Tail(queue)
    /\ ev' = Head(queue).event
    /\ at' = 1 /\ pc' = "matching"
    /\ UNCHANGED <<phaseVars, mainloop, timerVars, threadVars, iter, joining,
                   monitors, books>>

(***************************************************************************)
(* __process_event: the WAIT_FOR steps at the front of the list are tried  *)
(* in turn, then the monitors are called.                                  *)
(***************************************************************************)
(* Mutant of Leading: only the first step is looked at. *)
MutantLeading(i) == i = 1 /\ Info[steps[1]].action = "WAIT_FOR"

Leading(i) == \A j \in 1..i : Info[steps[j]].action = "WAIT_FOR"

(* The event stops at step i: it has the event's source, and its data is   *)
(* in the line, or is a message to be tried, or is an exhausted list.      *)
Candidate(i) ==
    /\ i >= at /\ Leading(i)
    /\ Info[steps[i]].source = ev.source
    /\ Info[steps[i]].kind # "msg" /\ data[steps[i]] # <<>> =>
          ev.line \in Head(data[steps[i]])

FirstCandidate(i) ==
    /\ i \in 1..Len(steps) /\ Candidate(i)
    /\ \A j \in 1..(i - 1) : ~Candidate(j)

ToMonitors ==
    /\ pc' = "monitors" /\ at' = 0
    /\ iter' = [todo |-> DOMAIN monitors, size |-> Cardinality(DOMAIN monitors)]

(* What a list step is left with once its first string has been accepted. *)
Consumed(i) ==
    IF Info[steps[i]].kind = "list"
    THEN [data EXCEPT ![steps[i]] = Tail(@)] ELSE data

NoMatch ==
    /\ pc = "matching"
    /\ \A i \in 1..Len(steps) : ~Candidate(i)
    /\ ToMonitors
    /\ UNCHANGED <<phaseVars, loopVars, timerVars, threadVars, ev, joining,
                   monitors, books>>

(* A match of a step without callback removes it; a message may also be    *)
(* incomplete, which ends the search (MatchIncomplete).                    *)
MatchPlain(i) ==
    /\ pc = "matching" /\ FirstCandidate(i)
    /\ ~Info[steps[i]].callback
    /\ Info[steps[i]].kind # "msg" => data[steps[i]] # <<>>
    /\ data' = Consumed(i)
    /\ GoRemoveStep(i, queue)
    /\ ToMonitors
    /\ UNCHANGED <<script, reason, mainloop, late, threadVars, ev, joining,
                   monitors, attempt, budget, reported, cut>>

MatchIncomplete(i) ==
    /\ pc = "matching" /\ FirstCandidate(i)
    /\ Info[steps[i]].kind = "msg"
    /\ ToMonitors
    /\ UNCHANGED <<phaseVars, loopVars, timerVars, threadVars, ev, joining,
                   monitors, books>>

(* steps[0].data[0] of an exhausted list is an IndexError. *)
MatchExhausted(i) ==
    /\ pc = "matching" /\ FirstCandidate(i)
    /\ Info[steps[i]].kind = "list" /\ data[steps[i]] = <<>>
    /\ pc' = "raised"
    /\ UNCHANGED <<phaseVars, loopVars, timerVars, threadVars, local, books>>

MatchCallback(i) ==
    /\ pc = "matching" /\ FirstCandidate(i)
    /\ Info[steps[i]].callback
    /\ Info[steps[i]].kind # "msg" => data[steps[i]] # <<>>
    /\ at' = i /\ pc' = "matched"
    /\ UNCHANGED <<phaseVars, loopVars, timerVars, threadVars, ev, iter,
                   joining, monitors, books>>

(* The callback accepts the match: the step is removed. *)
MatchAccepted ==
    /\ pc = "matched" /\ joining = NoSource
    /\ data' = Consumed(at)
    /\ GoRemoveStep(at, queue)
    /\ ToMonitors
    /\ UNCHANGED <<script, reason, mainloop, late, threadVars, ev, joining,
                   monitors, attempt, budget, reported, cut>>

(* It declines.  A string step stays and the search goes on behind it, a   *)
(* message step stays and ends the search, a list step is removed with its *)
(* data as it was.                                                         *)
MatchDeclined ==
    /\ pc = "matched" /\ joining = NoSource
    /\ \/ /\ Info[steps[at]].kind = "str"
          /\ pc' = "matching" /\ at' = at + 1
          /\ UNCHANGED <<stage, verdict, steps, queue, armed, iter, performed>>
       \/ /\ Info[steps[at]].kind = "msg"
          /\ ToMonitors
          /\ UNCHANGED <<stage, verdict, steps, queue, armed, performed>>
       \/ /\ Info[steps[at]].kind = "list"
          /\ GoRemoveStep(at, queue)
          /\ ToMonitors
    /\ UNCHANGED <<script, reason, data, mainloop, late, threadVars, ev,
                   joining, monitors, attempt, budget, reported, cut>>

CallMonitor(n) ==
    /\ pc = "monitors" /\ n \in iter.todo \cap DOMAIN monitors
    /\ monitors[n] = ev.source
    /\ iter' = [iter EXCEPT !.todo = @ \ {n}]
    /\ pc' = "monitor"
    /\ UNCHANGED <<phaseVars, loopVars, timerVars, threadVars, ev, at, joining,
                   monitors, books>>

(* A dict that changed size while it is iterated over is a RuntimeError. *)
MonitorReturns ==
    /\ pc = "monitor" /\ joining = NoSource
    /\ pc' = IF Cardinality(DOMAIN monitors) = iter.size
             THEN "monitors" ELSE "raised"
    /\ UNCHANGED <<phaseVars, loopVars, timerVars, threadVars, local, books>>

EventDone ==
    /\ pc = "monitors"
    /\ \A n \in iter.todo \cap DOMAIN monitors : monitors[n] # ev.source
    /\ pc' = "loop" /\ ev' = NoEvent
    /\ iter' = [todo |-> {}, size |-> 0]
    /\ UNCHANGED <<phaseVars, loopVars, timerVars, threadVars, at, joining,
                   monitors, books>>

(***************************************************************************)
(* What user code does inside a callback.                                  *)
(***************************************************************************)
UserCode(c) ==
    /\ c \in Calls /\ calls < MaxCalls
    /\ pc \in InCallback /\ joining = NoSource
    /\ pc = "executing" => /\ Info[steps[1]].action = "EXECUTE"
                           /\ Info[steps[1]].callback
    /\ calls' = calls + 1

(* set_fail, also reached through assert_true and assert_equal *)
CallSetFail ==
    /\ UserCode("set_fail")
    /\ queue' = IF mainloop THEN Append(queue, FailItem("reported", Now))
                ELSE queue
    /\ reported' = TRUE
    /\ UNCHANGED <<script, phaseVars, mainloop, timerVars, threadVars, pc,
                   local, attempt, lines, performed, cut>>

CallAddUserEvent(s, l) ==
    /\ UserCode("add_user_event")
    /\ queue' = Append(queue, EventItem(s, l))
    /\ UNCHANGED <<script, phaseVars, mainloop, timerVars, threadVars, pc,
                   local, attempt, lines, history>>

CallStop ==
    /\ UserCode("stop")
    /\ queue' = IF mainloop THEN Append(queue, Quit) ELSE queue
    /\ UNCHANGED <<script, phaseVars, mainloop, timerVars, threadVars, pc,
                   local, attempt, lines, history>>

CallAddMonitor(n, s) ==
    /\ UserCode("add_monitor")
    /\ monitors' = [m \in DOMAIN monitors \cup {n} |->
                       IF m = n THEN s ELSE monitors[m]]
    /\ UNCHANGED <<script, phaseVars, loopVars, timerVars, threadVars, pc, ev,
                   at, iter, joining, attempt, lines, history>>

CallRemoveMonitor(n) ==
    /\ UserCode("remove_monitor") /\ n \in DOMAIN monitors
    /\ monitors' = [m \in DOMAIN monitors \ {n} |-> monitors[m]]
    /\ UNCHANGED <<script, phaseVars, loopVars, timerVars, threadVars, pc, ev,
                   at, iter, joining, attempt, lines, history>>

Alive(s) == reader[s] \in {"reading", "stopping"}

(* A second start replaces the handler of the first in the dict; the thread*)
(* of the first reads on, and nobody has a reference to stop it.           *)
CallStartProcess(p) ==
    /\ UserCode("start_process")
    /\ procs' = procs \cup {p}
    /\ reader' = [reader EXCEPT ![p] = "reading"]
    /\ orphans' = IF Alive(p) THEN orphans \cup {p} ELSE orphans
    /\ UNCHANGED <<script, phaseVars, loopVars, timerVars, opened, pc, local,
                   attempt, lines, history>>

(* OutputHandler.stopit: a reader that has not died sees it after the read *)
(* it is in.  Mutant: it is joined without having been told.               *)
MutantStopReader(s) == UNCHANGED reader

StopReader(s) ==
    reader' = [reader EXCEPT ![s] = IF @ = "reading" THEN "stopping" ELSE @]

(* Thread.join on the reader returns.  Mutant: it is not waited for. *)
MutantJoined == TRUE
Joined == reader[joining] = "dead"

(* stop_process_handler: pop, then ProcessOutputHandler.join *)
CallStopProcess(p) ==
    /\ UserCode("stop_process") /\ p \in procs
    /\ procs' = procs \ {p}
    /\ StopReader(p) /\ joining' = p
    /\ UNCHANGED <<script, phaseVars, loopVars, timerVars, opened, orphans, pc,
                   ev, at, iter, monitors, attempt, lines, history>>

StopProcessReturns ==
    /\ pc \in InCallback /\ joining \in Processes /\ Joined
    /\ joining' = NoSource
    /\ UNCHANGED <<phaseVars, loopVars, timerVars, threadVars, pc, ev, at, iter,
                   monitors, books>>

(* A callback, a write to the device or a message parser raises. *)
CallRaises ==
    /\ "raise" \in Calls
    /\ \/ pc \in InCallback /\ joining = NoSource
       \/ pc = "matching" /\ \E i \in 1..Len(steps) :
             FirstCandidate(i) /\ Info[steps[i]].kind = "msg"
    /\ pc' = "raised"
    /\ UNCHANGED <<phaseVars, loopVars, timerVars, threadVars, local, books>>

(* except Exception in Test.run: __fail, called outside the main loop *)
HandleException ==
    /\ pc = "raised"
    /\ GoFail("exception", queue) /\ Cut
    /\ pc' = "cleanup" /\ ev' = NoEvent /\ at' = 0
    /\ iter' = [todo |-> {}, size |-> 0]
    /\ UNCHANGED <<script, data, mainloop, late, threadVars, joining, monitors,
                   attempt, budget, performed, reported>>

(***************************************************************************)
(* __cleanup and __output_handlers_stop.                                   *)
(***************************************************************************)
Cleanup ==
    /\ pc = "cleanup"
    /\ armed' = NoTimer
    /\ monitors' = << >>
    /\ pc' = "closing"
    /\ UNCHANGED <<phaseVars, loopVars, late, threadVars, ev, at, iter, joining,
                   books>>

StopDevice(d) ==
    /\ pc = "closing" /\ joining = NoSource /\ d \in opened
    /\ StopReader(d) /\ joining' = d
    /\ UNCHANGED <<phaseVars, loopVars, timerVars, opened, procs, orphans, pc,
                   ev, at, iter, monitors, books>>

CloseDevice ==
    /\ pc = "closing" /\ joining \in Devices /\ Joined
    /\ opened' = opened \ {joining}
    /\ joining' = NoSource
    /\ UNCHANGED <<phaseVars, loopVars, timerVars, reader, procs, orphans, pc,
                   ev, at, iter, monitors, books>>

(* A process the test left running: its handler is popped from the dict    *)
(* that is being iterated over, and joined ...                             *)
StopLeftProcess(p) ==
    /\ pc = "closing" /\ joining = NoSource /\ opened = {} /\ p \in procs
    /\ procs' = procs \ {p}
    /\ StopReader(p) /\ joining' = p
    /\ UNCHANGED <<phaseVars, loopVars, timerVars, opened, orphans, pc, ev, at,
                   iter, monitors, books>>

(* ... and the iteration raises RuntimeError, out of run and of the runner.*)
LeftProcessStopped ==
    /\ pc = "closing" /\ joining \in Processes /\ Joined
    /\ joining' = NoSource
    /\ pc' = "crashed"
    /\ UNCHANGED <<phaseVars, loopVars, timerVars, threadVars, ev, at, iter,
                   monitors, books>>

RunReturns ==
    /\ pc = "closing" /\ joining = NoSource /\ opened = {} /\ procs = {}
    /\ mainloop' = FALSE /\ queue' = <<>>
    /\ pc' = "returned"
    /\ UNCHANGED <<phaseVars, timerVars, threadVars, local, books>>

(***************************************************************************)
(* Runner.run: repeat a failed test.                                       *)
(***************************************************************************)
(* Mutant: one attempt too many. *)
MutantMoreAttempts == attempt <= Attempts
MoreAttempts == attempt < Attempts

Repeat ==
    /\ pc = "returned" /\ verdict = "FAIL" /\ MoreAttempts
    /\ stage' = "NONE" /\ reason' = "none"
    /\ attempt' = attempt + 1
    /\ pc' = "ready"
    /\ UNCHANGED <<script, verdict, steps, data, loopVars, timerVars,
                   threadVars, local, budget, history>>

Finish ==
    /\ pc = "returned" /\ (verdict # "FAIL" \/ ~MoreAttempts)
    /\ pc' = "over"
    /\ UNCHANGED <<phaseVars, loopVars, timerVars, threadVars, local, books>>

(***************************************************************************)
(* The other threads.  cancel() does not stop a Timer that has expired but *)
(* not yet called back: it stays in late.                                  *)
(***************************************************************************)
TimerExpires ==
    /\ armed # NoTimer
    /\ late' = late \cup {armed}
    /\ armed' = NoTimer
    /\ UNCHANGED <<phaseVars, loopVars, threadVars, pc, local, books>>

TimerCallsBack(t) ==
    /\ t \in late
    /\ late' = late \ {t}
    /\ queue' = IF mainloop THEN Append(queue, FailItem("timeout", t))
                ELSE queue
    /\ UNCHANGED <<phaseVars, mainloop, armed, threadVars, pc, local, books>>

ReadLine(s, l) ==
    /\ Alive(s) /\ lines < MaxLines
    /\ lines' = lines + 1
    /\ queue' = Append(queue, EventItem(s, l))
    /\ reader' = [reader EXCEPT ![s] = IF @ = "stopping" THEN "dead" ELSE @]
    /\ UNCHANGED <<script, phaseVars, mainloop, timerVars, opened, procs, orphans,
                   pc, local, attempt, calls, history>>

(* Any exception in the reader ends it without telling the test. *)
ReadFails(s) ==
    /\ Alive(s) /\ "read_fails" \in Calls
    /\ reader' = [reader EXCEPT ![s] = "dead"]
    /\ UNCHANGED <<phaseVars, loopVars, timerVars, opened, procs, orphans, pc,
                   local, books>>

ReaderStops(s) ==
    /\ reader[s] = "stopping"
    /\ reader' = [reader EXCEPT ![s] = "dead"]
    /\ UNCHANGED <<phaseVars, loopVars, timerVars, opened, procs, orphans, pc,
                   local, books>>

(* A replaced reader reads from the same process, and queues its lines on  *)
(* the main loop of the test, or of the next attempt.                      *)
OrphanLine(p, l) ==
    /\ p \in orphans /\ mainloop /\ lines < MaxLines
    /\ lines' = lines + 1
    /\ queue' = Append(queue, EventItem(p, l))
    /\ UNCHANGED <<script, phaseVars, mainloop, timerVars, threadVars, pc,
                   local, attempt, calls, history>>

(* Its read raises, as it does when the process has been waited for, or it *)
(* has a line and the test no main loop.                                   *)
OrphanDies(p) ==
    /\ p \in orphans
    /\ "read_fails" \in Calls \/ p \notin procs \/ ~mainloop
    /\ orphans' = orphans \ {p}
    /\ UNCHANGED <<phaseVars, loopVars, timerVars, reader, opened, procs, pc,
                   local, books>>

(***************************************************************************)
Callback ==
    \/ CallSetFail \/ CallStop \/ CallRaises \/ StopProcessReturns
    \/ \E s \in Sources, l \in Lines : CallAddUserEvent(s, l)
    \/ \E n \in Monitors, s \in Sources : CallAddMonitor(n, s)
    \/ \E n \in Monitors : CallRemoveMonitor(n)
    \/ \E p \in Processes : CallStartProcess(p) \/ CallStopProcess(p)

ProcessEvent ==
    \/ NoMatch \/ MatchAccepted \/ MatchDeclined \/ MonitorReturns \/ EventDone
    \/ \E i \in 1..Len(steps) : \/ MatchPlain(i) \/ MatchIncomplete(i)
                                \/ MatchExhausted(i) \/ MatchCallback(i)
    \/ \E n \in Monitors : CallMonitor(n)

MainLoop ==
    \/ RunNextStepEmpty \/ RunNextStepWait \/ RunNextStepAct \/ StepActed
    \/ RunFail \/ RunQuit \/ RunEvent

RunFrame ==
    \/ Skip \/ Begin \/ OpenFails \/ EnterLoop \/ HandleException
    \/ \E d \in Devices : OpenDevice(d) \/ StopDevice(d)
    \/ \E p \in Processes : StopLeftProcess(p)
    \/ Cleanup \/ CloseDevice \/ LeftProcessStopped \/ RunReturns
    \/ Repeat \/ Finish

MainThread == RunFrame \/ MainLoop \/ ProcessEvent \/ Callback

TimerThread == TimerExpires \/ \E t \in late : TimerCallsBack(t)

Reader(s) == \/ ReadFails(s) \/ ReaderStops(s) \/ OrphanDies(s)
             \/ \E l \in Lines : ReadLine(s, l) \/ OrphanLine(s, l)

Terminated == pc \in {"over", "crashed"} /\ UNCHANGED vars

Next == \/ MainThread \/ TimerThread \/ Terminated
        \/ \E s \in Sources : Reader(s)

Spec == Init /\ [][Next]_vars

(***************************************************************************)
(* Fairness: the main thread is never blocked for good (user callbacks     *)
(* return, a read has a timeout of a second, a process is killed after 30),*)
(* a running Timer expires and calls back, a stopped reader sees the stop. *)
(***************************************************************************)
Fairness == /\ WF_vars(MainThread)
            /\ WF_vars(TimerExpires)
            /\ \A t \in Timers : WF_vars(TimerCallsBack(t))
            /\ \A s \in Sources : WF_vars(ReaderStops(s))

FairSpec == Spec /\ Fairness

(***************************************************************************)
(* Properties.                                                             *)
(***************************************************************************)
Flat == script["SETUP"] \o script["TEST"] \o script["TEARDOWN"]

PositionOf(s) == CHOOSE i \in 1..Len(Flat) : Flat[i] = s

PhaseAt(i) == IF i <= Len(script["SETUP"]) THEN "SETUP"
              ELSE IF i <= Len(script["SETUP"]) + Len(script["TEST"])
              THEN "TEST" ELSE "TEARDOWN"

(* Positions i < j lie in one run of WAIT_FOR steps of one phase. *)
SameWait(i, j) ==
    /\ PhaseAt(i) = PhaseAt(j)
    /\ \A k \in i..j : Info[Flat[k]].action = "WAIT_FOR"

(* The steps performed are exactly those of the script, in its order up to *)
(* the order of adjacent WAIT_FOR steps.                                   *)
FollowsScript ==
    /\ Len(performed) = Len(Flat)
    /\ \A s \in ToSet(Flat) : s \in ToSet(performed)
    /\ \A i, j \in 1..Len(performed) :
          i < j => LET p == PositionOf(performed[i])
                       q == PositionOf(performed[j])
                   IN p < q \/ SameWait(q, p)

Performs(list) == ToSet(list) \subseteq ToSet(performed)

Ended == pc \in {"returned", "over"}

(* What the main thread's program counter says of its local variables. *)
LocalsOK ==
    /\ pc = "executing" => at = 1 /\ steps # <<>>
    /\ pc \in {"matching", "matched", "monitors", "monitor"} => ev \in Events
    /\ pc = "matching" => at # 0
    /\ pc = "matched" =>
          /\ at \in 1..Len(steps)
          /\ Info[steps[at]].kind # "msg" => data[steps[at]] # <<>>

(* A test that reached DONE with verdict PASS has performed every step of  *)
(* setup, test and teardown, phase after phase and in order: no failure,   *)
(* timeout, late line or surplus __next_step call makes it skip or repeat  *)
(* one (Test.__next_step, __remove_step, __next_stage).                    *)
PassIsEarned == Ended /\ stage = "DONE" /\ verdict = "PASS" => FollowsScript

(* A failure that was recorded as the test's reason is its verdict: no     *)
(* later phase change turns it back into PASS (Test.__fail, __next_stage). *)
FailureKept ==
    pc \notin {"ready", "opening"} /\ reason \in Reasons \ {"none", "skipped"}
       => verdict = "FAIL"

(* The test phase is only ever entered, and stayed in, while nothing has   *)
(* failed (Test.__next_stage).                                             *)
TestPhaseIsClean == pc \in Running /\ stage = "TEST" => verdict = "PASS"

Queued(k) == \E i \in 1..Len(queue) : queue[i].kind = k

(* While the main loop has nothing queued, the test waits for a line in a  *)
(* phase whose timeout is still to come: it cannot be stuck with a WRITE or*)
(* EXECUTE step that nobody will run, or wait with no timer                *)
(* (Test.__remove_step, __next_step, __next_stage, Mainloop.run).          *)
NeverStuck ==
    pc = "loop" /\ queue = <<>> =>
       /\ stage \in Phases
       /\ steps # <<>> /\ Info[Head(steps)].action = "WAIT_FOR"
       /\ Now \in late \cup {armed}

(* An attempt begins with its own setup, with nothing of an earlier        *)
(* attempt left to do (Test.run, __next_stage, the reset in Runner.run).   *)
AttemptStartsClean == stage = "NONE" => steps = <<>>

(* A failure that user code reports before the test has ended is its       *)
(* verdict (Test.set_fail, Mainloop.quit).                                 *)
ReportedFailureCounts == Ended /\ reported => verdict = "FAIL"

(* run has returned, or a process that the test had left running has made  *)
(* its cleanup raise.                                                      *)
RunLeft == pc \in {"returned", "over", "crashed"}

(* Readers that have a handler are running only while their test has a main*)
(* loop to queue lines on.  None of them is left when run returns; when it *)
(* raises out of its cleanup, only those of processes that the cleanup has *)
(* not come to, for it raises behind the first (__output_handlers_stop).   *)
(* A reader whose handler was replaced is nobody's: it may outlive both.   *)
NoStrayReader ==
    /\ \A s \in Sources : Alive(s) => mainloop
    /\ RunLeft => \A s \in Sources : Alive(s) => pc = "crashed" /\ s \in procs

(* The test case implements the abstract life cycle of TestPhases: its     *)
(* phases come in order, the test phase is left out only after a failure,  *)
(* and FAIL is undone by nothing but the start of another attempt          *)
(* (Test.__next_stage, Test.__fail, the repeat loop of Runner.run).        *)
Abstract == INSTANCE TestPhases
                WITH script <- script, stage <- stage, verdict <- verdict
Lifecycle == Abstract!Spec

(* A line that a plain string step among the leading WAIT_FOR steps waits  *)
(* for is caught by some step, whatever their order, when no message step, *)
(* which ends the search, is in front of it (__process_event).             *)
AnyOrder ==
    [][pc = "matching" /\ pc' = "monitors" /\ performed' = performed =>
          \A i \in 1..Len(steps) :
             /\ \A j \in 1..i : /\ Info[steps[j]].action = "WAIT_FOR"
                                /\ Info[steps[j]].kind # "msg"
             /\ Info[steps[i]].source = ev.source
             /\ Info[steps[i]].kind = "str" /\ ~Info[steps[i]].callback
             => ev.line \notin Head(data[steps[i]])]_vars

(* A phase's timeout fails that phase and no other (Test.__next_stage      *)
(* cancels it when the phase is left).                                     *)
TimeoutHitsItsPhase ==
    AtHead("fail") /\ Head(queue).reason = "timeout" => Head(queue).born = Now

(* A test that was started carries out its teardown, however many failures *)
(* came before: it ends at DONE with every teardown step performed.  The   *)
(* exception is a failure that is applied in the teardown phase, be it its *)
(* own or one that was queued before (Test.run, Test.__next_stage).        *)
TeardownDone ==
    RunLeft /\ reason \notin {"open", "skipped"} =>
        stage = "DONE" /\ (cut \/ Performs(script["TEARDOWN"]))

(* Every test case run ends, whatever the devices print and the callbacks  *)
(* report: it returns, or raises out of its cleanup (Mainloop.run,         *)
(* Test.__stage_timeout_cb, Test.__cleanup).                               *)
RunEnds == <>(pc \in {"over", "crashed"})

=============================================================================

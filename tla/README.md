# A formal model of the Spresense test system

This directory holds TLA+ specifications of the Spresense test system, the
configurations under which TLC checks them, and proofs that TLAPS checks. The
system has three parts. `TestFramework/` runs on the host: it builds firmware,
writes it to a board, runs test cases against the board over a serial line and
reports verdicts; all of its stateful parts but the configuration are modelled.
`TestSoftware/` runs on the board: of its many programs, four pieces with
concurrent state of their own are modelled. `TestScript/` holds the test cases
written against the framework, which are its inputs.

Paths below are relative to `TestFramework/src/` for the framework and to
`TestSoftware/sdk/` for the programs of the board.

## Inventory

| Component | State it keeps | Operations | Interacts with |
|---|---|---|---|
| Test case engine: `api/test.py`, `api/mainloop.py`, `api/output_handler.py` | stage, verdict, reason, the steps still to do, what list and message steps have consumed, monitors, the queue of the main loop, the phase timer, a reader thread per device and process | `run`, `__next_stage`, `__next_step`, `__process_event`, `__remove_step`, `__fail`, `__cleanup`; for user code `set_fail`, `stop`, `add_user_event`, `add_monitor`, `remove_monitor`, `start_process_handler`, `stop_process_handler` | timer and readers queue calls on the main loop; callbacks of the test run inside it |
| Runner: `api/runner.py`, `api/helpers.py` | groups and their tests, verdicts and reasons, the open log, indexes of deselected tests | `run`, `_check_tags_to_run_test`, `print_runner_results` | calls `prepare` of a group and `Test.run`; repeats a failed test on the same object |
| Message device: `api/message_device.py`, `api/nuttshell_device.py` | lines read and not yet handed over | `read`, the template parsers | called by the reader thread; outlives the test |
| Message parser: `api/message.py` | buffer, line count and flag in the storage of a step | `try_message_parse` | called by `__process_event` for each line |
| Builder: `api/utils.py` | the user's SDK tree, copies beside it, the working directory | `build_project`, `buildKernelApp_project`, `backup_file`, `restore_file` | runs make and `tools/config.py`; called by the runner's setup |
| XMODEM: `tools/flash_writer/scripts/xmodem.py` | packet number, error count | `send`, `abort` | the board's updater, over a serial line |
| Flash writer, updater, device: `flash_writer.py`, `api/updater.py`, `api/device.py`, `flash_n_check` of `api/spresense_test_runner.py` | the open port, the child process, what is on the board | the dialogue with the boot loader, `flash`, `check_device_config` | a child process with a time limit; XMODEM |
| Configuration: `api/config.py`, `api/device_manager.py` | the XML tree, the list of devices | verifiers, `get_devices_by_serials` | read when the runner is constructed |
| LTE connection: `lte/mqtt/lte_connection.c` | the session, a named queue for one message | `app_connect_to_lte`, `app_disconnect_from_lte`, the callbacks | callbacks run in a thread of the LTE library; the modem restarts at will |
| MQTT test program: `lte/mqtt/mqtt_main.c`, `mqtt_sub.c` | `g_status`, the last message received, a state for each socket | one run of `mqtt_main` for a command; connect, subscribe, publish, yield, compare, finalize | the LTE connection; a broker that answers late |
| Camera with JPEG decoder: `combination/camera_jpgdec/` | file count, countdown, number of the picture shown, the flag for the end, the still buffer | `camera_jpgdec_main`, `decode_and_show_lcd` | a task that shares these globals with the command and may outlive it |
| Audio player: `combination/combination_player/audio_player.cxx` | the open file and what is left of it, a FIFO, what has been brought up | `player_main` with all it calls | a decoder that empties the FIFO |

What is hard here, and what each component has to get right:

- *Engine.* Three kinds of threads share one queue. A timer may fire as its
  phase ends, a second failure may be queued when the first is applied, the
  request to quit drops what is behind it, an exception leaves the loop for
  good, and a repeated test starts from what the last attempt left. A pass must
  mean that every step ran, a failure must stay, a phase must never wait for
  something that cannot come, and no thread may outlive the run.
- *Runner.* Tests are deselected by index while the list is iterated over, and
  anything may raise anywhere. The report must hold the tests that were
  selected, with verdicts that have a cause.
- *Message device and parser.* Lines arrive one at a time and messages span
  several. Every line must be handed over once and in order, and a message must
  be made of the lines that belong to it, whatever is raised in between.
- *Builder.* It works in the user's own tree with no cleanup on the error path.
  Whatever happens, the user's files must survive.
- *XMODEM.* The sender acts on single bytes over a line that loses and delays
  them, and its packet numbers wrap. What is stored must be the file.
- *Flash writer.* Nothing that goes wrong is reported upwards, the dialogue has
  no time limits, and the process is killed by a guess at its number. Tests
  must not run on the wrong firmware without a cause, and nobody else may read
  the port.
- *LTE connection.* Results of all calls come through one queue with one place,
  from a thread that blocks when it is full, and carry no mark of the call they
  answer. Each wait must get its own answer, and must end.
- *MQTT test program.* The record of the last message outlives a test, and late
  messages meet the next comparison. A success must be about the message that
  was just published, and an error must have a cause.
- *Camera.* Command and task share unprotected globals and each decides from
  them when the other is through. Only complete files may be decoded, pictures
  must appear in order, and the command must learn of the end.
- *Audio player.* Some twenty things are brought up one by one and undone by a
  chain of labels, and the FIFO is emptied while it is filled. The decoder must
  get the file, and a run must give back what it took.

`PROJECT.json` lists the main hazards one by one, at the lines where they bite.

## Modules

| Module | What it is |
|---|---|
| `TestCase` | the engine in full: main thread, timer, readers, user code, repetition |
| `TestPhases` | what a test case promises its author: the life cycle of phases and verdict |
| `MCTestCase` | steps and scripts for TLC |
| `TestCaseProofs` | the theorems on `TestCase`, the refinement of `TestPhases` among them |
| `Runner`, `MCRunner`, `RunnerProofs` | a session of the runner; theorems |
| `MessageDevice`, `MCMessageDevice` | the line buffer, the reader thread and the templates, over several tests |
| `MessageProofs` | the theorems on `MessageDevice` and `MessageParser` |
| `MessageParser`, `MCMessageParser` | the line-by-line message parser against a definition on whole sequences |
| `Workspace`, `WorkspaceProofs` | builds in the user's tree; theorems |
| `Xmodem` | the sender, the serial line and the receiving board |
| `FlashWriter` | composes `Xmodem` with the dialogue, the updater, `Device` and the board's flash: from the start of flashing to the start of the tests |
| `FlashWriterProofs` | the theorems on `FlashWriter` and on the transfer of `Xmodem` in it |
| `LteConnection` | connecting and disconnecting, the callbacks and the modem |
| `MqttTest` | composes `LteConnection` with the test program and a broker |
| `MqttTestProofs` | the theorems on `MqttTest` and on the connection of `LteConnection` in it |
| `CameraJpgdec`, `CameraJpgdecProofs` | the picture command and its decode task; theorems |
| `AudioPlayer`, `AudioPlayerProofs` | the player, its FIFO and the decoder; theorems |

### TestCase

`pc` says where the main thread is. `ready`, `opening`, `loop`, `raised`,
`cleanup`, `closing` and `returned` are the parts of `Test.run`; `executing`,
`matching`, `matched`, `monitors` and `monitor` are points inside a call the main
loop has made where user code runs or another thread may do something that
matters. `stage`, `verdict`, `reason` and `steps` are the attributes of the
test; `queue` is the queue of the main loop and holds what the code puts there:
calls of `__next_step`, `__fail`, `__quit` and `__process_event`. `armed` is the
running timer and `late` the timers that have expired and not yet called back,
which `cancel` no longer reaches.

`GoNextStage`, `GoFail` and `GoRemoveStep` are the private methods of the same
names with everything they call. `__next_stage` calls itself for a phase
without steps: `Landing` gives where it ends up and `Hops` how many
`__next_step` calls it has queued on the way, since each level queues one.

User code (callbacks of steps, monitors) is an arbitrary sequence of the calls
of the API that `Calls` allows, of at most `MaxCalls` calls, and may raise where
`"raise"` is in `Calls`. A start condition that does not hold (`Skip`), the
failure to open a device and the failure of a read are choices of the same kind.

`procs` are the keys of the dictionary of process handlers. A process that is
started again replaces its handler; the reader of the first is then one of the
`orphans`, which nobody joins and which goes on until a read fails. The cleanup
raises behind the first process it has stopped (`crashed`), as it iterates over
the dictionary that stopping changes. `opened` are the devices with an output
handler; one whose first read fails is left open without one (`OpenFails`).

The steps of a script are distinct (`DistinctSteps`), as each call that adds a
step makes an object of its own.

`performed`, `reported` and `cut` are history variables, `cut` of a failure that
was applied in the teardown phase; `born` in a queued failure
records the attempt and the stage it comes from, which in the code is in its
text only.

`Abstract` instantiates `TestPhases` with the engine's script, stage and verdict;
`Lifecycle` is its specification, checked by TLC and proved.

### Runner

One action for each stretch of `TestRunner.run` between two points at which
something may raise. A run of a test is one action here (`RunTest`,
`SkipTest`, `RunRaises`): what happens inside is `TestCase`. `Troubles` says
what may go wrong; `"name"` is a test name that `normalize_string` cannot
take. `last` and `turns` are history: how the last run of a test went and how
many of its runs have returned.

### MessageDevice

A line is its number, the test during which it was printed and its *look*: how
each template would take it (`LookType`). `Parse` tries the templates on the
buffered lines in the order of the code: a message, the wish for more lines, no
match, or an exception nobody handles. `took` and `kept` are history: the lines
handed over so far and the lines the cache held when the test began.

### MessageParser

A line is an open tag, a close tag, both, or other text. `TryMessageParse` is
the method; `EndOf` and `StartAfter` define on the whole sequence of lines
where a message ends, and `ParsedAsDescribed` says that the two agree. The
parse function of the step may raise at any message, having read any number of
lines, and the test may be repeated. The buffer is a `StringIO`: the next line
is written at `pos`, over what is there, and goes over as many characters as it
has (`Tails`), so that a line may be left in part. `left` records that the
function has raised at what the buffer holds. The specification is called
`ParserSpec`, so that one module can reason about it and about `MessageDevice`.

### Workspace

A file is absent, the user's, the test's, a part of the test's or made by make;
the copy beside it likewise. Every step of a build is an action, every command
can fail after or before having had its effect, and every step can be
interrupted before it has had one. The framework judges a command by its stderr
and not by its exit status, so that a failure can end the build (`Raises`) or be
logged as a success (`Unseen`: `tools/config.py` without a word, `make
buildkernel` with `Error 2`, the rebuilding of the release kernel in any case).
`amiss` and `before` are history: what went wrong in this build and in those
before it. What make and `tools/config.py` do to the tree is external.

### Xmodem

The sender is translated from `send`, with `getc` and `putc` as a receive and
an append on two queues. The board is not in this repository: it is the
receiver that the header of `xmodem.py` describes. `Faults` says what may go
wrong: a packet corrupted, an answer garbled, lost or so late that the sender
has given up on it, a poll repeated, a cancellation, checksum mode, a board
that dies. `stray` is history: the line has brought, or will bring, a byte that
answers nothing the sender waits for (a repeated poll, or an answer that comes
after the sender has given up on it).

### FlashWriter

`host` is where `flash_n_check` is, `writer` where the flash writer is, `mode`
what the board runs. `main` of the writer is modelled as the updater calls it
(reset by DTR, no boot setting, one package). A wait of the writer is a guard on
what the board shows; a text that arrives garbled, or a board that is reset in
the dialogue, leaves the writer reading until the time limit of `communicate`.
`image` is what the flash holds: what has been received is in a cache until
`sync`, and a board that loses its power may lose it. `setting` is what differs
from one station to another: whether the test script names applications to
look for, whether the old firmware has them, whether the loader fits, and which
process has the number after the writer's (the child of a packed executable,
another of the user's, somebody else's, or none), which decides what `os.kill`
does. `check_device_config` reads without a time limit: a prompt that a living
writer takes, or that arrives garbled (`LineGarbled`), is missed, and `host`
reads in vain until the board boots again. The board is external.

### LteConnection and MqttTest

`pc` is the place of the task in `app_connect_to_lte` and
`app_disconnect_from_lte`, one action for each call of the library; `cb` is the
callback that runs in the library's thread. Opening the queue by name and
sending to it are two steps of the callback, because the task may unlink the
queue in between. An int read as a pointer is undefined behaviour: any result
may come of it, or a crash. The modem answers in any order, may refuse, and may
restart by itself, whereby it forgets what it was asked. Three histories say
what the program does not know of: `restarted`, that the modem has done so;
`orphaned`, that `lte_finalize` has failed where nobody looks at its result
(lines 658 and 737), and the library runs on without the program; `leaked`, that
a jump to `errout_with_fin` (lines 576 and 723) has left it initialized. Each
ends when the library is next finalized, and so does the record of the waits,
`taken`.

A test of `mqtt_main.c` is a list of sections, each a list of steps; a step that
fails ends its section, and the table says whether the test goes on with the
next section. The broker delivers at its own pace: what is due at a yield may
arrive in it or be left for a later one, and a message of QoS 1 or 2 may be sent
again with its duplicate flag set (`Redeliver`), which every comparison refuses
(`ERROR_DUP`). Messages are drawn from the clock in
seconds, which is why two of them may be equal. `sent`, `mistaken`,
`disturbed` and `stale` are history.

### CameraJpgdec

One action for each stretch of `camera_jpgdec_main` between two accesses to what
the task reads or writes, and the same for `decode_and_show_lcd`. Every call
that can fail has its branch to its label. `loop` is an unsigned number
between 0 and `UINT_MAX`, which the task reads as a signed one: above `INT_MAX`
it is negative. A count of 0 stands for a command without an argument, which
takes `DEFAULT_REPEAT_NUM` pictures. What the task does with a
picture, from opening the file to the LCD, is one step, except that it may fail
or, at a damaged file, end the task (the default error routine of the library
exits). `shown`, `base` and `asked` are history: the frames shown in this
command, the last frame of the commands before, and the count that was asked
for.

### AudioPlayer

`pc` names the call that `player_main` makes next, or the label it is at. Each
call goes well or fails and jumps; `causes` is history and collects the places
that failed. `res`, `mng`, `amp` and `fd` are what has to be given back. The FIFO
holds units of a file, with the number of the opening they belong to, so that a
gap, a repetition or a rest of another file would be seen. Looking at the room
and pushing are separate steps, and the decoder takes elements at any time. The
two player modes of the build are a choice in `Init`.

## Runs

| Run | Instance | What it shows |
|---|---|---|
| `testcase_threads` | one device, one process, four scripts with steps of every kind, one line, two API calls, everything but `skip` | `TypeOK`, `PassIsEarned`, `FailureKept`, `TestPhaseIsClean`, `NeverStuck`, `NoStrayReader`, `AnyOrder` in one attempt, whatever the threads and the user code do |
| `testcase_repeat` | one device, two attempts, three scripts, one line, one API call; user code reports failures and raises nothing | `AttemptStartsClean`, `TeardownDone`, `ReportedFailureCounts`, and `Lifecycle`: the engine implements `TestPhases` |
| `testcase_ends` | one device, one process, two scripts, fair threads | `RunEnds`: every run of a test ends |
| `testcase_v_phase` | one script | `TimeoutHitsItsPhase` is violated |
| `workspace_builds` | 3 builds, 2 failures, every job and every initial tree | `UserFilesSafe`, `RestoredOnSuccess`, `ImageIsTheTests` |
| `runner_session` | three groups (one without its device, one without a prepare function), six tests, include and exclude tags, up to two repetitions | `TestsReported` (`RightTestsRemoved`, `CountsAddUp`, `NoneLeftOut`), `VerdictsAreEarned` (`VerdictHasCause`, `RepeatedEnough`) |
| `messagedevice_lines` | seven looks, four lines, two tests | `TypeOK`, `LinesAsPrinted` (`OnceAndInOrder`, `MessagesAreWhole`, `NothingStale`), `LinesHandedOver` |
| `messageparser_lines` | every descriptor of up to three lines, five lines, three attempts | `ParserTypeOK`, `MessagesAreRight` (`ParsedAsDescribed`, `LeftoverGoesNext`) |
| `flashwriter_update` | 5 packets, 4 sequence numbers, 3 retries, 3 faults of any kind, every setting | `TypeOK`, `TransferIsFaithful` (`StoredInOrder`, `SuccessIsComplete`), `TestsStartRight` (`OldFirmwareHasCause`, `CheckedFirmware`, `PortIsOurs`), `UpdateEnds` (`SendEnds`, `FlashReturns`, `CheckEnds`) |
| `mqtt_session` | two commands out of four tests (quality of service, retain, will, refused connection) and `off`, loops of 2 turns, 1 restart of the modem, 2 failing calls | `TypeOK`, `ConnectionIsTrue` (`OwnAnswers`, `StatusIsTrue`, `SessionIsOurs`, `SocketsClosed`), `VerdictIsJust` (`ComparedWithItsOwn`, `ErrorHasCause`), `NobodyWaitsForEver` (`CommandsEnd`, `CallbackEnds`) |
| `camera_pictures` | two commands with counts 0, 2 or 4 (negative as an int, with `INT_MAX = 3`), file numbers up to 3, 1 failing call | `TypeOK`, `PicturesInOrder` (`WholeFilesRead`, `ShownInOrder`), `CompletionIsTrue`, `FreedTwiceOnlyEarly`, `CommandEnds` (`PicturesTaken`, `ShowEndReached`) |
| `audio_runs` | two runs, two files of size 0, 3 or 9, elements of 2 units, a FIFO of 3 elements, 2 pushes at a time, 2 failing calls | `TypeOK`, `FifoIsFaithful` (`PlayedInOrder`, `FifoNeverFull`), `LeavesNothingBehind`, `StopsAtItsEnd` (`StoppedForCause`, `EndIsHeard`), `RunEnds` |

A property that is a conjunction is followed by its named parts, each of which
has a comment of its own in its module. The type invariant of `Workspace` has
no run because it is proved. Every property of a passing run has a mutant in `PROJECT.json`: a definition of
the model changed the way a slip in the code would change it, under which TLC
finds the property violated. The mutated forms stand before the definitions
they replace.

### Bounds

- *TestCase.* Two API calls are enough for two failures to be in the queue
  together, for an event queued behind a quit, for a monitor that removes
  itself and for a process that is started and left. One line read and one
  event queued by user code meet two steps that wait, in either order. Timers
  are not bounded: each attempt has one for each phase, and any of them may be
  late. Two attempts show all that one attempt leaves to the next.
- *Xmodem and FlashWriter.* The numbers wrap in the course of the file
  (`N >= SeqMod`), and there are as many faults as retries, so that giving up
  happens. `Retry < SeqMod` is 32 and 256 in the code, and it matters: were
  there fewer numbers than retries, a sender that runs ahead of the board could
  lap it, and `StoredInOrder` fails.
- *Workspace.* The third build is the first that can find the copies of two
  earlier failures.
- *MessageDevice.* The shortest listing has three lines; the fourth comes
  before, inside or after it, or in the next test.
- *MessageParser.* Five lines hold two messages of two lines, a message whose
  close tag comes late, or a message of three lines and what two attempts make
  of it when the parsing function raises in both.
- *Runner.* The deselected tests are the first and the third of four, so that
  removing them in the wrong order removes others.
- *MqttTest.* Two commands are enough for one test to meet what another left.
  One restart of the modem can take the place of any answer. Two failing calls
  are what it takes to leave a connection by `errout` and to have `lte_finalize`
  fail there. One repeat of each message is enough for the flag to reach every
  comparison that message can reach.
  The four tests that are run have every kind of step between them, except the
  comparison of the wildcard tests that no message came; the table
  `mqtttest_site` has the others too, which are longer lists of the same steps
  and can be named in `Tests`; the theorems are about all of them.
- *CameraJpgdec.* With file numbers up to 3 and counts up to 4 the numbers wrap
  inside a command; the second command finds what the first left: a flag, a
  freed buffer, a task.
- *AudioPlayer.* A file of 9 units is longer than the FIFO (6) and ends with a
  part of an element, one of 3 is shorter than the first push, one of 0 ends at
  once. Two failures reach a failing close followed by another file.

### Conditions

Where the code keeps a promise only under a condition, the property says so and
the runs include the case that is excepted: `SuccessIsComplete` speaks of
transfers without stray bytes, `UserFilesSafe` and `RestoredOnSuccess` of
builds after none that ended in an exception, whatever has failed unseen,
`RestoredOnSuccess` and `ImageIsTheTests` with each unseen failure named that
the kernel or the configuration can be wrong after, `OwnAnswers` and
`SessionIsOurs` of the time until the modem restarts by itself or a
`lte_finalize` behind an error fails, and again once the library has been
finalized, `StatusIsTrue` of a library that no failed `lte_set_report_restart`
or `lte_finalize` has left initialized, `CallbackEnds` of one restart at most
and a library that was not left running, `WholeFilesRead` and `ShownInOrder` of file numbers that
have not started again and of a command without a task left by an earlier one,
`PlayedInOrder` and `FifoNeverFull` of files that could be closed,
`LeavesNothingBehind` of runs that return 0, with the four leaks the code has
named in it, `ParsedAsDescribed` of buffers at which no parse function has
raised, `NothingStale` of lines outside the inherited cache, `LinesHandedOver`
of lines that no unfinished listing holds, `AnyOrder` of steps with no message
step in front, `TeardownDone` of a teardown in which no failure is applied,
`NoStrayReader` of readers that have a handler and, in a run whose cleanup
raises, of those it has come to. `AttemptStartsClean`, `TeardownDone` and
`ReportedFailureCounts` are checked for user code that neither raises nor ends
the loop itself; the section on disagreements says what happens otherwise.

### Fairness

- *TestCase.* Weak fairness of the main thread: user callbacks are taken to
  return, a read of a port has a timeout of a second, `join` waits for a reader
  that has been told to stop. Weak fairness of the running timer and of each
  expired timer: `threading.Timer` fires. Weak fairness of a reader that has
  been told to stop. Nothing is assumed of the board: it may stay silent.
- *FlashWriter.* Weak fairness of the two host processes (`getc` and `putc`
  return within their timeouts, `communicate` has a time limit) and of a board
  that has power. None of the waits of the dialogue is assumed to be met.
- *MqttTest.* Weak fairness of the program, of the library's thread and of a
  modem that has not forgotten a request.
- *CameraJpgdec.* Weak fairness of the command, of each task and of the camera:
  NuttX gives tasks of one priority their time slices.
- *AudioPlayer.* Weak fairness of the task, the clock and the decoder.
- In these four no call is obliged to fail: fairness is of the steps that leave
  the count of faults alone.
- *MessageDevice.* Weak fairness of the reader thread and of closing a device
  that is to be closed.

## Proofs

The theorems hold for every value of the constants that the assumptions allow.
Most assumptions say of what kind a constant is. These say more, each because
the code makes it so:

- `ConstantsAssumption`: a string step has one string and monitors are finitely
  many. `SentinelAssumption`: no device is a process. `DistinctSteps`: no step
  is twice in a script.
- `AudioConstants`: `ElementNum > 1`, as a FIFO of one element would be full
  before the first push has ended.
- `CameraConstants`: the default count is one that is not negative as an int.
- `XmodemAssumption`: `Retry < SeqMod`. With more retries than packet numbers a
  late answer could be taken for that of a packet a whole round later.
- `TestsAssumption`: the tests that are run are in the table.
- `RunnerAssumption`: a test is in one group and there once.

A few theorems have a hypothesis of their own, which the property or the
statement names: that user code does not stop the loop itself (`TeardownAlways`,
`StartsClean`, `NeverStuckAgain`, `PassEarnedAgain`), nor adds a monitor (`ReportsCount`), or that
nothing has been raised. What happens otherwise is among the disagreements.

`TestCaseProofs`:

- `TypeCorrect`: `TypeOK` with `LocalsOK`, which ties the locals of the main
  thread to `pc`: without it the removal of a step could be out of range.
- `ReadersJoined`: `NoStrayReader`, from `ReaderInv`: a device's reader is alive
  only while the device is open, a process's only while it is registered or
  being joined, and outside `run` there is neither, nor a main loop, unless
  `run` was left by its cleanup raising.
- `TestPhaseClean`: `TestPhaseIsClean` in every attempt, from `VerdictInv`: in
  the main loop the verdict is PASS in the setup and the test phase. It also
  has to say that every attempt begins in the stage NONE, because a repeated
  test starts with the verdict FAIL.
- `FirstAttemptNeverStuck`, `NeverStuckAgain`: `NeverStuck`, from
  `ProgressInv`: a step that the loop must start is being executed or a
  `__next_step` is queued for it, a phase has its timer, armed or late, or a
  failure in the queue, and in the stage DONE a quit is queued. The first
  attempt needs no hypothesis; a later one begins without steps only under
  those of `StartsClean`.
- `FirstAttemptFailureKept`: `FailureKept` while `attempt = 1`, from `FirstInv`:
  before the first `__next_stage` nothing exists that could fail the test
  (`Untouched`), so that no failure is recorded in the stage NONE, where it
  would be undone. In a later attempt it is not an invariant (see below).
- `TeardownAlways`: `TeardownDone` of runs that no exception has ended, from
  `EndInv`: a quit is queued only in the stage DONE, and outside the loop the
  stage is DONE unless the start failed or an exception came; and from
  `TearInv`: each step of the teardown is performed or still to come, until a
  failure is applied there.
- `StartsClean`: `AttemptStartsClean`, from `NothingLeft`: in the stages NONE and
  DONE there are no steps.
- `ReportsCount`: `ReportedFailureCounts`, from `ReportInv`: after a report
  the verdict is FAIL or a `__fail` is in the queue with no quit before it
  (`FailAhead`).
- `CaughtInAnyOrder`: the action property `AnyOrder`.
- `PassEarned`, `PassEarnedAgain`: `PassIsEarned`, from `PassInv`: while the
  verdict is PASS, the script up to the present phase is the steps performed
  and those that remain, each in one of the two (`Accounted`), a step that
  remains being ahead only of performed ones that waited along with it. While a
  line is matched no step that has been passed over waits for it
  (`PassedOver`). The first attempt needs no hypothesis; a later one
  begins clean only under those of `StartsClean`.
- `Refinement`: `Spec => Lifecycle`. Every action that changes stage or verdict
  is mapped to an action of `TestPhases`, the others leave its variables alone.

`WorkspaceProofs`:

- `TreeTypeCorrect`: `TypeOK`.
- `UserFilesKept`: `UserFilesSafe`, from `SafeInv`. In a build that goes on a
  file of the user is in its place until its backup, and in its copy from there
  until it is restored (`InPlace`); `OnItsPath` says which steps a job comes
  through, so that a restore is never met without its backup. A build that has
  failed has lost nothing; the next one may.
- `TreeRestored`, `ImageFromTheTest`: `RestoredOnSuccess` and `ImageIsTheTests`,
  from `SafeInv`, `KernelInv` (whose kernel is in the tree at each step, and which
  failure nobody saw if it is another's), `ImageInv` (the configuration from
  `tools/config.py` to the image) and `OrderInv`: as long as no build has ended
  in an exception the flags of what is copied are right for the step the build
  is at (`Orderly`).

`FlashWriterProofs`, also of the transfer in `Xmodem`:

- `UpdateTypeCorrect`: `TypeOK`.
- `FileArrives`: `TransferIsFaithful`, from `TransferInv`. What the board has
  stored are the packets of the file from the first on (`StoredInOrder`). The
  board is at most one packet ahead of the sender (`InOrder`) and behind by no
  more than the errors counted (`Ahead`), so that with `Retry < SeqMod` the number
  a packet has modulo `SeqMod` tells it from all others in the line (`Numbered`).
  `Accounted` counts the answers and packets on their way against the errors.
  For the success it takes `LockStep`: without stray bytes there is one request
  or one answer on the way (`OneAtATime`), and an answer that says the packet is
  stored is true (`AckIsTrue`).
- `TestsOnTheFirmware`: `TestsStartRight`, from `FlashInv`: what has
  become of the writer when the device goes on (`HostInv`), which image the
  board has when the transfer is complete and which one it runs (`Installed`),
  what a success means for the flash (`Flashed`), and `CheckedFirmware`.

`MqttTestProofs`, also of `LteConnection`:

- `MqttTypeCorrect`: `TypeOK`, with `TestInvariant`, which test runs and that its
  place is in the table, for every test of `mqtttest_site` (`TableIsGood`), and
  `FlagsInvariant`, that the flags are flags.
- `ConnectionKnown`: `ConnectionIsTrue`, from two invariants. `ConnectionInvariant`
  says where the program is, what the queue of one place can hold and what the
  library and the modem are at then, so that while nothing has come between
  (`Quiet`) there is one answer on its way at most (`OneAnswer`), and to the call
  that waits. It keeps the histories apart, so that what one failure has spoilt
  is all that is given up, and only until the library is finalized.
  `SocketsInvariant` says that the program knows of every socket that is open,
  and has closed them all between the tests.
- `VerdictJust`: `VerdictIsJust`, for all tests of `mqtttest_site` and any
  `Loop`. A test is a list of steps without state of its own, so the proof says
  beside each step what is known before it, in a *note*: which of the three
  connections are up, the subscriber's filters, what is due on its socket
  (nothing, the message published, the retained one), what the last message is,
  and how far the message drawn last has got (`drawn`, `sent`, `passed`).
  `Outline` is the list of notes of each test.
  - *The outlines are sound* (`EverySound`). `Needs` says what a step has to
    know, `Succeeds` whether it is to succeed, `Leads` what the note after it
    may say. For each test every step leads to the next one and the last turn of
    a loop to the section behind it, by `EachSound` for any number of turns;
    the error tests go on from the step that fails, where `count` finds how many
    went before.
  - *Notes are true.* A note means something weak (`Weak`), that holds whatever
    is disturbed: the message drawn last is newer than all others in sockets,
    broker and record (`Older`), or the only one with its value (`Told`), apart from
    its own repeats. It
    gives `ComparedWithItsOwn`. And it means something strong (`Strong`) as long
    as nothing has been disturbed (`Calm`): the very contents of the sockets and
    of the record, and the signs of the results. It gives `ErrorHasCause`, as at
    the end the result is what the test expects (`DoneInv`). Each action is
    followed through both (`StepWeakly`, `StepStrongly`).
  - The inductive invariant is `VInv` with the three invariants above: beside
    the notes, where messages can be and that values do not lie ahead of the
    clock (`WorldInv`), that between tests nothing in the world is newer than
    the next draw (`FreshInv`), and that the tests without a connection never
    open one (`ClosedInv`). TLC found its parts to hold for all tests of the
    table, with loops of one and of two turns, before it was proved.

`CameraJpgdecProofs`:

- `CameraTypeCorrect`: `TypeOK`.
- `FreedOnce`: `FreedTwiceOnlyEarly`, from `HeapInv`: the buffer is the
  command's own from its allocation to its end.
- `ShownAsTaken`, `CompletionBelieved`: `PicturesInOrder` and the action property
  `CompletionIsTrue`, from `TaskInv`: which task exists before and after its
  creation (`NotCreatedYet`), and for a command that no earlier task disturbs
  (`Alone`), where the picture numbers of camera, files and task are to each
  other (`Ordered`) and what remains to be shown (`Complete`).

`AudioPlayerProofs`:

- `PlayerTypeCorrect`: `TypeOK`.
- `NothingLeftBehind`: `LeavesNothingBehind`, from `HeldInv`: what is held, label
  by label. It speaks of runs before which none returned 1, and names each place
  whose failure leaves something behind in a run that returns 0.
- `FifoCarriesTheFile`: `FifoIsFaithful`, from `FifoInv`: unless a close has
  failed, what has been decoded and what is in the FIFO are the file up to the
  place it has been read to, and the FIFO has room for the elements that are
  about to be pushed (`Carried`).
- `StoppedAtItsEnd`: the action property `StopsAtItsEnd`.

`RunnerProofs`:

- `SessionTypeCorrect`: `SessionTypeOK`, by which `self.tests[i]` and
  `self.logs[i]` are read at indexes that exist.
- `VerdictsEarned`, `ReportIsRight`: `VerdictsAreEarned` and `TestsReported`, from
  `SessionInv`: the groups ahead are as they were given (`AheadUntouched`), those
  behind are settled (`BehindSettled`), the verdicts of the current one go with
  the place in it (`InTurn`). The removal of tests and the summary are folds.
  The prover cannot do induction over data by the library's theorems, so each
  fold is taken apart into its steps, and a statement about every input is
  proved of the first step at which it would fail, which exists because every
  non-empty set of numbers has a least one. `RemovalInv` and `Summed` carry the
  results along the session.

`MessageProofs`, of `MessageDevice` and `MessageParser`:

- `DeviceTypeCorrect`: `TypeOK`.
- `ToldAsPrinted`: `LinesAsPrinted`, from `LinesInv`: the lines in messages, those in
  the buffer and those in the port follow each other in the order printed
  (`Ordered`), each message is whole and one that opens a listing is followed by
  the rest of it (`Together`), and what is older than the test is in the
  inherited cache (`Fresh`).
- `ParserTypeCorrect`: `ParserTypeOK`.
- `MessagesAsDescribed`: `MessagesAreRight`, from `ParserInv`. Unless it was left
  over, what the buffer holds and what has been given away are runs of the lines
  seen that begin with an open tag (`Runs`), the messages given away are those
  between the first open tag behind the one before and the line the count ends
  at (`Described`), and the buffer begins at the first open tag behind the last
  message while `line_count` says how many lines are still to come (`Current`).
  A buffer that was left over is complete with any line (`Leftover`), which is
  why nothing is collected on top of it; otherwise the position is at the end
  and a write appends (`WrittenIs`).

Every safety invariant and every action property that a run finds to hold is
also proved, the refinement of `TestPhases` among them (`FailureKept` for
the first attempt). Only model-checked:

- The liveness properties (`RunEnds` of `TestCase` and of `AudioPlayer`,
  `SendEnds`, `FlashReturns`, `CheckEnds`, `CommandsEnd`, `CallbackEnds`,
  `ShowEndReached`, `PicturesTaken`, `LinesHandedOver`): they need fairness, of
  which the prover knows nothing.
- `TimeoutHitsItsPhase`, which the code violates.

## Disagreements between the code and its comments

One has a run that shows it (`findings` in `PROJECT.json`):

- `api/test.py:226`: a timer that has expired when its phase ends fails the phase
  after it, against lines 80-81 (`TimeoutHitsItsPhase`).

The others were met while modelling; the models do what the code does, and the
condition in a property names the case.

- `api/test.py:252`: a late timeout that is applied in the stage NONE of the
  next attempt is recorded, and the verdict becomes PASS in the same call;
  line 179 says "Set test case result to fail". `FailureKept` is therefore
  checked and proved for the first attempt.
- `api/test.py:190`: a failure that is applied in the teardown phase cuts it
  short, also one that was reported before it; lines 78-79 say that teardown
  reverses the setup (`cut` in `TeardownDone`).
- `api/test.py:430`: the cleanup deletes from the dictionary it iterates over, so
  that the handlers behind the first are not cleared, against line 429
  (`"crashed"` in `NoStrayReader`).
- `api/message.py:240`: a parse function that raises leaves its buffer, and the
  next line, in the next attempt at the test, is written over it and passed on
  with it, against lines 27-29 (`LeftoverGoesNext`).
- `lte_connection.c:380`: the message of `app_restart_cb` may end any wait, also
  the one for the session, which reads its int as a pointer; lines 645-647 say
  that the notification comes from `app_activate_pdn_cb` (`restarted` in
  `OwnAnswers`).
- `api/test.py:502`: after an exception of user code no teardown step is run;
  lines 78-79 say that teardown reverses the setup.
- `xmodem.py:310`: a stray byte makes `send` return True for a file the board
  has not got in full (lines 218-219): the condition `~stray` of
  `SuccessIsComplete`.
- `api/utils.py:129`: a build after an interrupted one backs up over the user's
  configuration and reports it restored (line 265).
- `api/updater.py:46`: when no process has the number after the writer's,
  or one of another user has it, `os.kill` raises, `api/device.py:109` catches
  that as an `IOError`, and `terminate` is not reached. The writer lives on and may take the prompt that
  `check_device_config` waits for: `LeftAlive` in `PortIsOurs` and `CheckEnds`.
- `api/device.py:157`: the check after flashing has no time limit, so that one
  garbled prompt keeps the session from ever going on: `PromptMissed` in
  `CheckEnds`.
- `api/runner.py:225`: the steps an exception has left in `self.steps` are run
  before the setup of the next attempt (`test.py:237`, `runner.py:224`).
- `api/mainloop.py:42`: a failure queued behind the request to quit is lost
  (`test.py:193`).
- `api/test.py:355`: a message step ends the search, although line 336 says
  that waiting steps are caught in any order.
- `api/test.py:367`: a list step is removed at its first string; line 368 is
  about a step that is still active.
- `api/test.py:450`: a process that is started while its reader runs gets a
  second one, and the first is never told to stop (line 429).
- `xmodem.py:317`: errors are counted over the file, and lines 223-224 speak of
  one packet; `xmodem.py:500`: checksum mode raises `TypeError` in Python 3.
- `api/utils.py:569`: the outcome of rebuilding the release kernel is not
  looked at, and line 570 logs success (`"rebuild"` in `RestoredOnSuccess` and
  `ImageIsTheTests`).
- `api/utils.py:484`: a kernel that was not built is logged as built (line 496)
  unless a line on stderr has `error` in small letters; `:318`: a configuration
  that failed without a word is logged as done (line 321).
- `api/runner.py:200`: `prepare` is called for each test; `test.py:616` calls it
  the setup function of the group.
- `api/helpers.py:31`: `normalize_string` raises `TypeError` for a name like
  the one of the example at `test.py:129`.
- `api/nuttshell_device.py:9`: a bare prompt raises `IndexError` out of `read`,
  of which `message_device.py:143` says that it returns.
- `api/message.py:230`: without a close tag the open line counts as one of the
  lines; lines 27-29 say so, lines 53-54 say otherwise.
- `lte_connection.c:657`: the result of `lte_finalize` at `errout_with_lte_fin`
  is not looked at. When it fails the library stays up, and what it still has to
  say meets the next connection: the condition `orphaned`.
- `lte_connection.c:576` and `:723`: the jump to `errout_with_fin` leaves the
  library initialized when `lte_set_report_restart` or `lte_finalize` fails: the
  condition `leaked` of `StatusIsTrue`.
- `camera_jpgdec_main.c:485`: a task that has counted the last file before the
  countdown is over never sets `lcd_show_end` (the condition in `ShowEndReached`); line 236: when there is
  no memory for the buffer, `ret` is still 0 and the failure passes for success.
- `audio_player.cxx:1348`: when power-on fails, the jump goes past
  `app_freq_release`, and the frequency lock stays taken.
- `audio_player.cxx:1181`, `:973` and `:982`: the result of closing the file is
  dropped; a run may return 0 with the file still open (`"close"` in
  `LeavesNothingBehind`).

## Not modelled

Of the framework: the XML side of `config.py`, the device manager, loggers, the
argument parser, the host scripts for mounting, `XMODEM.recv` and the command
line of `xmodem.py`, which the framework does not call, `save_files` and
`delete_files` of the flash writer, and the text processing of `parse_line` and
`parse_section`: input, output and formatting without state that two actors
share. Interleavings inside `queue.Queue`, `threading.Timer` and `Thread.join` are
taken to be atomic, as Python's library makes them.

Of the board's programs: most of `TestSoftware/`, some 199,000 lines in 866
files, of which the modelled programs are about 4,800. The rest is of three
kinds. Near copies of the SDK's samples: the other audio players, recorders and
recognizers have the structure of `AudioPlayer`, and the AWS IoT, LwM2M and
WebSocket programs carry the same `lte_connection.c`. Vendored programs (iperf3,
cJSON, the mbedTLS and LwM2M samples, the test of the operating system). And
sequential programs that call a driver and print what it returned, with no state
beyond the call. `TestScript/` holds inputs.

## Plan

1. *Composition* of `MessageDevice` and `MessageParser` with the engine: one
   event per message, storage that outlives an attempt.
2. *Device manager and configuration.* Which device a test gets, and what the
   verifiers rewrite.
3. *More programs of the board*: the recorder and the recognizer, whose callbacks
   share queues with a task, and the programs for several cores.

---------------------------- MODULE CameraJpgdec ----------------------------
(***************************************************************************)
(* camera_jpgdec: the command takes pictures and stores them in numbered   *)
(* files; a task it creates decodes the files and shows them on the LCD.   *)
(* The two share unprotected globals: the number of the last file written, *)
(* the countdown `loop', the number of the next file to show, and the flag *)
(* lcd_show_end.  The globals, and a task nobody deleted, outlive the      *)
(* command.  The video driver, the file system, the task list and the JPEG *)
(* library are external.                                                   *)
(***************************************************************************)
EXTENDS Integers, Sequences

CONSTANTS Counts,        \* the values of option -c
          INT_MAX,       \* bound: of an int (2^31 - 1); `loop' is unsigned
          DEFAULT_REPEAT_NUM,  \* bound: the value without the option (65535)
          FileLimit,     \* bound: the file number that wraps (100000)
          MaxCommands,   \* bound: commands typed
          MaxFaults      \* bound: calls that fail

UINT_MAX == 2 * INT_MAX + 1

ASSUME CameraConstants == /\ INT_MAX \in Nat /\ DEFAULT_REPEAT_NUM \in 0 .. INT_MAX
                          /\ Counts \subseteq 0 .. UINT_MAX
                          /\ FileLimit \in Nat \ {0, 1, 2}
                          /\ MaxCommands \in Nat /\ MaxFaults \in Nat

VARIABLES pc,                     \* where the command is
          loop, camera_main_file_count, show_lcd_task_running, pid,
          buffers_still,          \* NULL, what malloc gave, or freed
          lcd_show_count, lcd_show_end, lcd_show_filename,
          tasks,                  \* where each decode task is
          video,                  \* the driver's state
          buf,                    \* the one still buffer: who has it, its frame
          frames,                 \* frames captured so far
          files,                  \* the frame each file holds
          writing,                \* the file open for writing, or 0
          exitcode, commands, faults,
          asked, base, shown, doubleFree, early, wrapped, others  \* history

ownVars == <<loop, show_lcd_task_running, pid>>
heapVars == <<buffers_still, doubleFree, early>>
runVars == <<exitcode, commands, asked, base, others>>
diskVars == <<camera_main_file_count, files, writing, wrapped>>
driverVars == <<video, buf, frames>>
taskVars == <<lcd_show_count, lcd_show_end, lcd_show_filename, tasks, shown>>
vars == <<pc, ownVars, heapVars, runVars, diskVars, driverVars, taskVars,
          faults>>

STILL_BUFNUM == 1
Tasks == 1 .. MaxCommands
NoTask == 0                          \* pid before task_create set it
Absent == 0                          \* no such file
Torn == -1                           \* a file not written to its end
FileNumbers == 1 .. FileLimit
Off == [init |-> FALSE, open |-> FALSE, streaming |-> FALSE, taking |-> FALSE]
NoBuffer == [owner |-> "none", frame |-> 0]

Init ==
    /\ pc = "idle" /\ loop = DEFAULT_REPEAT_NUM /\ camera_main_file_count = 0
    /\ show_lcd_task_running = FALSE /\ pid = NoTask
    /\ buffers_still = "NULL"
    /\ lcd_show_count = 1 /\ lcd_show_end = FALSE /\ lcd_show_filename = 0
    /\ tasks = [t \in Tasks |-> "none"]
    /\ video = Off /\ buf = NoBuffer /\ frames = 0
    /\ files = [n \in FileNumbers |-> Absent] /\ writing = 0
    /\ exitcode = "none" /\ commands = 0 /\ faults = 0
    /\ asked = 0 /\ base = 0 /\ shown = <<>> /\ doubleFree = FALSE
    /\ early = FALSE /\ wrapped = FALSE /\ others = FALSE

Alive == {t \in Tasks : tasks[t] \notin {"none", "gone"}}

(* A call of the outside fails; how often is bounded. *)
Fault == faults < MaxFaults /\ faults' = faults + 1

(* (int)loop < 0 *)
LoopNegative == loop > INT_MAX

-----------------------------------------------------------------------------
(* The command. *)

(* The globals a command sets again; lcd_show_end is not among them. *)
ResetGlobals ==
    camera_main_file_count' = 0 /\ show_lcd_task_running' = FALSE

(* The globals are set again before the options are read; an option nobody
   knows ends the command there. *)
camera_jpgdec_main ==
    /\ pc = "idle" /\ commands < MaxCommands
    /\ commands' = commands + 1 /\ ResetGlobals
    /\ pid' = NoTask /\ exitcode' = "ERROR"
    /\ base' = frames /\ wrapped' = FALSE /\ others' = (Alive # {})
    /\ shown' = <<>>
    /\ \/ loop' \in Counts \cup {DEFAULT_REPEAT_NUM} /\ pc' = "video_initialize"
       \/ loop' = DEFAULT_REPEAT_NUM /\ pc' = "idle"
    /\ asked' = loop'
    /\ UNCHANGED <<heapVars, files, writing, driverVars, lcd_show_count,
                   lcd_show_end, lcd_show_filename, tasks, faults>>

video_initialize ==
    /\ pc = "video_initialize"
    /\ \/ video' = [video EXCEPT !.init = TRUE] /\ pc' = "open"
          /\ UNCHANGED faults
       \/ Fault /\ pc' = "idle" /\ UNCHANGED video
    /\ UNCHANGED <<ownVars, heapVars, runVars, diskVars, buf, frames, taskVars>>

MutantOpenLabel ==
    /\ pc = "open"
    /\ \/ video' = [video EXCEPT !.open = TRUE] /\ pc' = "prepare"
          /\ UNCHANGED faults
       \/ Fault /\ pc' = "err_buffer" /\ UNCHANGED video
    /\ UNCHANGED <<ownVars, heapVars, runVars, diskVars, buf, frames, taskVars>>

open ==
    /\ pc = "open"
    /\ \/ video' = [video EXCEPT !.open = TRUE] /\ pc' = "prepare"
          /\ UNCHANGED faults
       \/ Fault /\ pc' = "err_video_init" /\ UNCHANGED video
    /\ UNCHANGED <<ownVars, heapVars, runVars, diskVars, buf, frames, taskVars>>

(* Running out of memory is reported and then taken for success: `ret' still
   holds the result of the ioctl before. *)
camera_prepare ==
    /\ pc = "prepare"
    /\ \/ /\ buffers_still' = "allocated"
          /\ buf' = [buf EXCEPT !.owner = "driver"]
          /\ video' = [video EXCEPT !.streaming = TRUE]
          /\ pc' = "takepict_start" /\ UNCHANGED <<early, faults>>
       \/ /\ Fault                         \* REQBUFS or S_FMT
          /\ early' = TRUE /\ pc' = "err_buffer"
          /\ UNCHANGED <<buffers_still, buf, video>>
       \/ /\ Fault                         \* malloc or memalign
          /\ buffers_still' \in {"NULL", "allocated"}
          /\ pc' = "takepict_start" /\ UNCHANGED <<early, buf, video>>
       \/ /\ Fault                         \* QBUF or STREAMON
          /\ buffers_still' = "allocated"
          /\ buf' \in {buf, [buf EXCEPT !.owner = "driver"]}
          /\ pc' = "err_buffer" /\ UNCHANGED <<early, video>>
    /\ UNCHANGED <<ownVars, doubleFree, runVars, diskVars, frames, taskVars>>

(* A failure is printed only. *)
TAKEPICT_START ==
    /\ pc = "takepict_start" /\ pc' = "while"
    /\ \/ video' = [video EXCEPT !.taking = TRUE] /\ UNCHANGED faults
       \/ Fault /\ UNCHANGED video
    /\ UNCHANGED <<ownVars, heapVars, runVars, diskVars, buf, frames, taskVars>>

MutantSignedLoop ==
    /\ pc = "while"
    /\ pc' = IF loop > 0 THEN "dqbuf" ELSE "takepict_stop"
    /\ loop' = IF loop > 0 THEN loop - 1 ELSE 0
    /\ UNCHANGED <<show_lcd_task_running, pid, heapVars, runVars, diskVars,
                   driverVars, taskVars, faults>>

(* while (loop-- > 0): the unsigned loop is decremented when it ends, too. *)
WhileLoop ==
    /\ pc = "while"
    /\ pc' = IF loop > 0 THEN "dqbuf" ELSE "takepict_stop"
    /\ loop' = (loop - 1) % (UINT_MAX + 1)
    /\ UNCHANGED <<show_lcd_task_running, pid, heapVars, runVars, diskVars,
                   driverVars, taskVars, faults>>

(* DQBUF waits for a filled buffer; a driver that does not stream may refuse. *)
DQBUF ==
    /\ pc = "dqbuf"
    /\ \/ /\ buf.owner = "filled" /\ buf' = [buf EXCEPT !.owner = "command"]
          /\ pc' = "fopen" /\ UNCHANGED faults
       \/ pc' = "err_buffer" /\ UNCHANGED buf
          /\ \/ Fault
             \/ ~video.streaming /\ UNCHANGED faults
    /\ UNCHANGED <<ownVars, heapVars, runVars, diskVars, video, frames, taskVars>>

MutantWraps == camera_main_file_count >= FileLimit

(* write_file up to fopen, which empties the file. *)
Wraps == camera_main_file_count + 1 >= FileLimit

TmpCount == IF Wraps THEN 1 ELSE camera_main_file_count + 1

write_file_open ==
    /\ pc = "fopen"
    /\ camera_main_file_count' = IF Wraps THEN 1 ELSE camera_main_file_count
    /\ wrapped' = (wrapped \/ Wraps)
    /\ \/ /\ writing' = TmpCount /\ files' = [files EXCEPT ![TmpCount] = Torn]
          /\ pc' = "fwrite" /\ UNCHANGED faults
       \/ Fault /\ pc' = "err_buffer" /\ UNCHANGED <<writing, files>>
    /\ UNCHANGED <<ownVars, heapVars, runVars, driverVars, taskVars>>

(* The rest of write_file: a short fwrite is printed only. *)
write_file_close ==
    /\ pc = "fwrite"
    /\ \/ files' = [files EXCEPT ![writing] = buf.frame] /\ UNCHANGED faults
       \/ Fault /\ UNCHANGED files
    /\ camera_main_file_count' = camera_main_file_count + 1
    /\ writing' = 0 /\ pc' = "qbuf"
    /\ UNCHANGED <<ownVars, heapVars, runVars, wrapped, driverVars, taskVars>>

QBUF ==
    /\ pc = "qbuf"
    /\ \/ buf' = [buf EXCEPT !.owner = "driver"] /\ pc' = "create"
          /\ UNCHANGED faults
       \/ Fault /\ pc' = "err_buffer" /\ UNCHANGED buf
    /\ UNCHANGED <<ownVars, heapVars, runVars, diskVars, video, frames, taskVars>>

(* The task is created once, after the first picture; a failure leaves pid
   with an error and the flag set. *)
task_create ==
    /\ pc = "create" /\ pc' = "while"
    /\ show_lcd_task_running' = TRUE
    /\ \/ show_lcd_task_running /\ UNCHANGED <<tasks, pid, faults>>
       \/ /\ ~show_lcd_task_running
          /\ tasks' = [tasks EXCEPT ![commands] = "created"]
          /\ pid' = commands /\ UNCHANGED faults
       \/ ~show_lcd_task_running /\ Fault /\ UNCHANGED <<tasks, pid>>
    /\ UNCHANGED <<loop, heapVars, runVars, diskVars, driverVars, lcd_show_count,
                   lcd_show_end, lcd_show_filename, shown>>

TAKEPICT_STOP ==
    /\ pc = "takepict_stop" /\ pc' = "wait_end"
    /\ \/ video' = [video EXCEPT !.taking = FALSE] /\ UNCHANGED faults
       \/ Fault /\ UNCHANGED video
    /\ UNCHANGED <<ownVars, heapVars, runVars, diskVars, buf, frames, taskVars>>

WaitShowEnd ==
    /\ pc = "wait_end" /\ lcd_show_end /\ pc' = "delete"
    /\ UNCHANGED <<ownVars, heapVars, runVars, diskVars, driverVars, taskVars,
                   faults>>

(* task_delete(pid).  Without a task of its own, pid is whatever the stack
   held: no task, or one that lives. *)
task_delete ==
    /\ pc = "delete" /\ pc' = "err_buffer" /\ exitcode' = "OK"
    /\ \E t \in IF pid = NoTask THEN Alive \cup {NoTask} ELSE {pid} :
           tasks' = [u \in Tasks |-> IF u = t THEN "gone" ELSE tasks[u]]
    /\ UNCHANGED <<ownVars, heapVars, commands, asked, base, others, diskVars,
                   driverVars, lcd_show_count, lcd_show_end,
                   lcd_show_filename, shown, faults>>

(* close, which ends the stream, and free_buffer, which leaves buffers_still
   as it is. *)
errout_with_buffer ==
    /\ pc = "err_buffer" /\ pc' = "err_video_init"
    /\ video' = [Off EXCEPT !.init = video.init] /\ buf' = NoBuffer
    /\ doubleFree' = (doubleFree \/ buffers_still = "freed")
    /\ buffers_still' = IF buffers_still = "NULL" THEN "NULL" ELSE "freed"
    /\ UNCHANGED <<ownVars, early, runVars, diskVars, frames, taskVars, faults>>

errout_with_video_init ==
    /\ pc = "err_video_init" /\ pc' = "idle" /\ video' = Off
    /\ UNCHANGED <<ownVars, heapVars, runVars, diskVars, buf, frames, taskVars,
                   faults>>

MainStep ==
    \/ video_initialize \/ open \/ camera_prepare \/ TAKEPICT_START
    \/ WhileLoop \/ DQBUF \/ write_file_open \/ write_file_close \/ QBUF
    \/ task_create \/ TAKEPICT_STOP \/ WaitShowEnd \/ task_delete
    \/ errout_with_buffer \/ errout_with_video_init

-----------------------------------------------------------------------------
(* External: the driver fills the buffer it has been given. *)
Capture ==
    /\ video.taking /\ video.streaming /\ buf.owner = "driver"
    /\ buf' = [owner |-> "filled", frame |-> frames + 1]
    /\ frames' = frames + 1
    /\ UNCHANGED <<pc, ownVars, heapVars, runVars, diskVars, video, taskVars,
                   faults>>

-----------------------------------------------------------------------------
(* The decode task, decode_and_show_lcd. *)

CommandKeeps == UNCHANGED <<pc, ownVars, heapVars, runVars, diskVars,
                            driverVars>>

ShowBegins(t) ==
    /\ tasks[t] = "created"
    /\ lcd_show_count' = 1 /\ lcd_show_end' = FALSE
    /\ tasks' = [tasks EXCEPT ![t] = "sleep"]
    /\ CommandKeeps /\ UNCHANGED <<lcd_show_filename, shown, faults>>

MutantLooksAhead(t) ==
    /\ tasks[t] = "sleep" /\ lcd_show_count <= camera_main_file_count + 1
    /\ tasks' = [tasks EXCEPT ![t] = "decode"]
    /\ lcd_show_filename' = lcd_show_count
    /\ CommandKeeps /\ UNCHANGED <<lcd_show_count, lcd_show_end, shown, faults>>

(* After its sleep the task looks for a file it has not shown; it skips when
   there is none. *)
ShowLooks(t) ==
    /\ tasks[t] = "sleep" /\ lcd_show_count <= camera_main_file_count
    /\ tasks' = [tasks EXCEPT ![t] = "decode"]
    /\ lcd_show_filename' = lcd_show_count
    /\ CommandKeeps /\ UNCHANGED <<lcd_show_count, lcd_show_end, shown, faults>>

(* jpeg_decode: a file that cannot be opened is passed over.  The library's
   default error routine ends the task: a damaged file may do that. *)
jpeg_decode(t) ==
    /\ tasks[t] = "decode"
    /\ \/ shown' = Append(shown, files[lcd_show_filename])
          /\ tasks' = [tasks EXCEPT ![t] = "check"] /\ UNCHANGED faults
       \/ Fault /\ tasks' = [tasks EXCEPT ![t] = "check"] /\ UNCHANGED shown
       \/ /\ files[lcd_show_filename] = Torn
          /\ tasks' = [tasks EXCEPT ![t] = "gone"] /\ UNCHANGED <<shown, faults>>
    /\ CommandKeeps /\ UNCHANGED <<lcd_show_count, lcd_show_end, lcd_show_filename>>

MutantLastShown == LoopNegative

LastShown == LoopNegative /\ lcd_show_count >= camera_main_file_count

ShowChecks(t) ==
    /\ tasks[t] = "check"
    /\ \/ LastShown /\ lcd_show_end' = TRUE
          /\ tasks' = [tasks EXCEPT ![t] = "gone"]
       \/ ~LastShown /\ tasks' = [tasks EXCEPT ![t] = "increment"]
          /\ UNCHANGED lcd_show_end
    /\ CommandKeeps /\ UNCHANGED <<lcd_show_count, lcd_show_filename, shown, faults>>

ShowCounts(t) ==
    /\ tasks[t] = "increment" /\ tasks' = [tasks EXCEPT ![t] = "sleep"]
    /\ lcd_show_count' = lcd_show_count + 1
    /\ CommandKeeps /\ UNCHANGED <<lcd_show_end, lcd_show_filename, shown, faults>>

TaskStep(t) == ShowBegins(t) \/ ShowLooks(t) \/ jpeg_decode(t)
               \/ ShowChecks(t) \/ ShowCounts(t)

Next == camera_jpgdec_main \/ MainStep \/ Capture
        \/ \E t \in Tasks : TaskStep(t)

Spec == Init /\ [][Next]_vars

(* NuttX runs the command and its tasks with the same priority and time
   slices, and a streaming camera delivers frames: each gets its turns.  No
   call is ever obliged to fail. *)
FairSpec == /\ Spec /\ WF_vars(MainStep /\ faults' = faults)
            /\ WF_vars(Capture)
            /\ \A t \in Tasks : WF_vars(TaskStep(t) /\ faults' = faults)

-----------------------------------------------------------------------------
(* Type correctness: file and picture numbers stay in the range the wrap
   leaves them, and the unsigned countdown in its width. *)
TypeOK ==
    /\ loop \in 0 .. UINT_MAX
    /\ camera_main_file_count \in 0 .. FileLimit - 1
    /\ lcd_show_filename \in 0 .. FileLimit - 1
    /\ writing \in 0 .. FileLimit - 1
    /\ files \in [FileNumbers -> {Absent, Torn} \cup 1 .. frames]
    /\ buffers_still \in {"NULL", "allocated", "freed"}
    /\ tasks \in [Tasks -> {"none", "created", "sleep", "decode", "check",
                            "increment", "gone"}]
    /\ buf.owner \in {"none", "driver", "filled", "command"}

(* This command's task has the globals to itself, and the file numbers have
   not started again at 1. *)
Undisturbed == ~others /\ ~wrapped

(* A file is never decoded while the command writes it: the count goes up
   only after fclose.  Two things break it: a task an earlier failed command
   left behind, and the file numbers starting again. *)
WholeFilesRead ==
    \A t \in Tasks : tasks[t] = "decode" /\ Undisturbed =>
                     lcd_show_filename # writing

(* What is shown are pictures this command took, each once, in the order in
   which they were taken: no file of an earlier command, no file that was not
   written to its end unless a write failed. *)
ShownInOrder ==
    Undisturbed =>
        /\ \A i \in 1 .. Len(shown) :
               shown[i] > base \/ (shown[i] = Torn /\ faults > 0)
        /\ \A i, j \in 1 .. Len(shown) :
               i < j /\ shown[i] # Torn /\ shown[j] # Torn =>
                   shown[i] < shown[j]

(* The task shows complete pictures of this command, in order: the shared
   counts tell it neither too early nor twice of a file. *)
PicturesInOrder == WholeFilesRead /\ ShownInOrder

(* The last file has been through the task, and, when no call has failed, so
   has every picture. *)
AllShown == /\ lcd_show_count = camera_main_file_count
            /\ faults = 0 => Len(shown) = camera_main_file_count

(* The flag that ends the wait is that of an earlier command: this command's
   task has not cleared it, because it has not run yet, could not be created,
   or was never asked for as there was no picture. *)
FlagIsOld == commands > 1 /\ (pid = NoTask \/ tasks[pid] = "created")

(* The command stops waiting for lcd_show_end, and reports completion, only
   after the last picture has been through the task.  Exactly two things make
   it report too early: a flag left set by an earlier command, and a count
   that is negative as an int, with which the task finishes as soon as it has
   caught up. *)
CompletionIsTrue ==
    [][pc = "wait_end" /\ pc' = "delete" /\ Undisturbed
       /\ asked <= INT_MAX => AllShown \/ FlagIsOld]_vars

(* free_buffer leaves buffers_still pointing at what it freed.  It is freed a
   second time only when VIDIOC_REQBUFS or VIDIOC_S_FMT failed, before the
   pointer was set again. *)
FreedTwiceOnlyEarly == doubleFree => early

(* Once all pictures are taken the command ends, provided the task still has
   a file to look at and none is damaged.  When the task has counted past the
   last file before `loop' went negative, or a damaged file has ended it,
   nothing sets lcd_show_end any more and the command waits for ever. *)
ShowEndReached ==
    (/\ pc = "wait_end" /\ pid # NoTask /\ Undisturbed
     /\ \A n \in FileNumbers : files[n] # Torn
     /\ tasks[pid] # "increment"
     /\ tasks[pid] = "created" \/ lcd_show_count <= camera_main_file_count)
        ~> pc = "idle"

(* Without a failing call all pictures are taken: the buffer always goes back
   to the driver. *)
PicturesTaken == (pc = "while" /\ faults = 0)
                     ~> (pc = "wait_end" \/ faults > 0)

(* The command takes its pictures and, unless the end was lost, comes to its
   own end. *)
CommandEnds == PicturesTaken /\ ShowEndReached
=============================================================================

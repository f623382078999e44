------------------------- MODULE CameraJpgdecProofs -------------------------
(***************************************************************************)
(* Proofs about CameraJpgdec, for any number of commands, pictures and     *)
(* failing calls: the types, the single free of the still buffer, what the *)
(* decode task shows, and when the command may believe that it has.        *)
(***************************************************************************)
EXTENDS CameraJpgdec, SequenceTheorems, TLAPS

(***************************************************************************)
(* The type invariant.                                                     *)
(***************************************************************************)
(* The while loop of the command, and what follows camera_prepare. *)
LoopPlaces == {"while", "dqbuf", "fopen", "fwrite", "qbuf", "create"}
PreparedPlaces ==
    LoopPlaces \cup {"takepict_start", "takepict_stop", "wait_end", "delete",
                     "err_buffer"}
WaitPlaces == LoopPlaces \cup {"takepict_stop", "wait_end"}
Places == PreparedPlaces \cup
    {"idle", "video_initialize", "open", "prepare", "err_video_init"}

TaskPlaces == {"none", "created", "sleep", "decode", "check", "increment",
               "gone"}

(* The command's counters, the file it writes, and the files there are. *)
DiskType ==
    /\ pc \in Places
    /\ loop \in 0 .. UINT_MAX
    /\ camera_main_file_count \in 0 .. FileLimit - 1
    /\ files \in [FileNumbers -> {Absent, Torn} \cup 1 .. frames]
    /\ IF pc = "fwrite"
       THEN writing \in 1 .. FileLimit - 1
            /\ camera_main_file_count + 1 \in 1 .. FileLimit - 1
       ELSE writing = 0
    /\ frames \in Nat /\ base \in 0 .. frames

(* The buffer has a frame while it is with the command. *)
BufferType ==
    /\ buf \in [owner: {"none", "driver", "filled", "command"}, frame: 0 .. frames]
    /\ buf.owner \in {"filled", "command"} => buf.frame # 0
    /\ pc \in {"fopen", "fwrite", "qbuf"} => buf.owner = "command"
    /\ pc \notin PreparedPlaces => buf = NoBuffer
    /\ buffers_still \in {"NULL", "allocated", "freed"}

(* Each command has a task of its own number, the later ones none yet. *)
TaskType ==
    /\ commands \in 0 .. MaxCommands /\ faults \in Nat
    /\ pc # "idle" => commands # 0
    /\ pid \in 0 .. commands
    /\ tasks \in [Tasks -> TaskPlaces]
    /\ \A t \in Tasks : t > commands => tasks[t] = "none"
    /\ lcd_show_count \in Nat \ {0}
    /\ lcd_show_filename \in 0 .. FileLimit - 1
    /\ \A t \in Tasks : tasks[t] = "decode" => lcd_show_filename # 0
    /\ shown \in Seq(Int)

TypeInv == DiskType /\ BufferType /\ TaskType

(* The constants, one by one. *)
LEMMA Constants ==
    /\ INT_MAX \in Nat /\ UINT_MAX \in Nat /\ INT_MAX <= UINT_MAX
    /\ Counts \cup {DEFAULT_REPEAT_NUM} \subseteq 0 .. UINT_MAX
    /\ DEFAULT_REPEAT_NUM \in 0 .. INT_MAX
    /\ FileLimit \in Nat /\ FileLimit > 2
    /\ MaxCommands \in Nat
  BY CameraConstants DEF UINT_MAX

(* The steps of the command that leave the disk and its counters alone. *)
LEMMA OtherDisk ==
    ASSUME [Next]_vars, ~camera_jpgdec_main, ~WhileLoop, ~write_file_open,
           ~write_file_close, ~Capture
    PROVE  /\ UNCHANGED <<loop, camera_main_file_count, files, writing,
                          wrapped, frames, base, asked, commands, others>>
           /\ pc' = pc \/ (pc # "fwrite" /\ pc' \in Places \ {"fwrite"})
  BY DEF Next, MainStep, vars, video_initialize, open, camera_prepare,
         TAKEPICT_START, DQBUF, QBUF, task_create, TAKEPICT_STOP,
         WaitShowEnd, task_delete, errout_with_buffer,
         errout_with_video_init, TaskStep, ShowBegins, ShowLooks,
         jpeg_decode, ShowChecks, ShowCounts, CommandKeeps, ownVars, runVars,
         diskVars, driverVars, Places, PreparedPlaces, LoopPlaces

(* Every step keeps the types of the counters and the files. *)
LEMMA NextDisk == DiskType /\ BufferType /\ [Next]_vars => DiskType'
<1> SUFFICES ASSUME DiskType, BufferType, [Next]_vars PROVE DiskType'
  OBVIOUS
<1> USE Constants DEF DiskType, Places, PreparedPlaces, LoopPlaces
<1>1. CASE camera_jpgdec_main
  BY <1>1 DEF camera_jpgdec_main, ResetGlobals, driverVars
<1>2. CASE WhileLoop
  <2>1. loop' \in 0 .. UINT_MAX
    <3>1. loop - 1 \in Int /\ UINT_MAX + 1 \in Nat \ {0}
      OBVIOUS
    <3>2. loop' = (loop - 1) % (UINT_MAX + 1)
      BY <1>2 DEF WhileLoop
    <3> QED
      BY <3>1, <3>2
  <2>2. /\ UNCHANGED <<camera_main_file_count, files, writing, frames, base>>
        /\ pc = "while" /\ pc' \in {"dqbuf", "takepict_stop"}
    BY <1>2 DEF WhileLoop, diskVars, driverVars, runVars
  <2> QED
    BY <2>1, <2>2
<1>3. CASE write_file_open
  <2>1. TmpCount \in 1 .. FileLimit - 1
    BY DEF TmpCount, Wraps
  <2>2. /\ UNCHANGED <<loop, frames, base>> /\ pc = "fopen"
        /\ camera_main_file_count' = IF Wraps THEN 1 ELSE camera_main_file_count
        /\ \/ writing' = TmpCount /\ files' = [files EXCEPT ![TmpCount] = Torn]
              /\ pc' = "fwrite"
           \/ pc' = "err_buffer" /\ UNCHANGED <<writing, files>>
    BY <1>3 DEF write_file_open, ownVars, driverVars, runVars
  <2>3. /\ camera_main_file_count' \in 0 .. FileLimit - 1
        /\ camera_main_file_count' + 1 \in 1 .. FileLimit - 1
    BY <2>2 DEF Wraps
  <2>4. files' \in [FileNumbers -> {Absent, Torn} \cup 1 .. frames]
    BY <2>2
  <2> QED
    BY <2>1, <2>2, <2>3, <2>4
<1>4. CASE write_file_close
  <2>1. /\ UNCHANGED <<loop, frames, base>> /\ pc = "fwrite" /\ pc' = "qbuf"
        /\ files' \in {files, [files EXCEPT ![writing] = buf.frame]}
        /\ camera_main_file_count' = camera_main_file_count + 1
        /\ writing' = 0
    BY <1>4 DEF write_file_close, ownVars, driverVars, runVars
  <2>2. buf.frame \in 1 .. frames
    BY <2>1 DEF BufferType
  <2>3. files' \in [FileNumbers -> {Absent, Torn} \cup 1 .. frames]
    BY <2>1, <2>2
  <2> QED
    BY <2>1, <2>3
<1>5. CASE Capture
  <2>1. /\ UNCHANGED <<pc, loop, base, camera_main_file_count, files, writing>>
        /\ frames' = frames + 1
    BY <1>5 DEF Capture, ownVars, runVars, diskVars
  <2>2. files' \in [FileNumbers -> {Absent, Torn} \cup 1 .. frames']
    BY <2>1
  <2> QED
    BY <2>1, <2>2
<1>6. CASE ~camera_jpgdec_main /\ ~WhileLoop /\ ~write_file_open
           /\ ~write_file_close /\ ~Capture
  <2>1. /\ UNCHANGED <<loop, camera_main_file_count, files, writing, frames,
                       base>>
        /\ pc' = pc \/ (pc # "fwrite" /\ pc' \in Places \ {"fwrite"})
    BY <1>6, OtherDisk
  <2> QED
    BY <2>1
<1> QED
  BY <1>1, <1>2, <1>3, <1>4, <1>5, <1>6

(* Every step keeps the buffer where the command believes it. *)
LEMMA NextBuffer == DiskType /\ BufferType /\ [Next]_vars => BufferType'
<1> SUFFICES ASSUME DiskType, BufferType, [Next]_vars PROVE BufferType'
  OBVIOUS
<1> USE DEF BufferType, PreparedPlaces, LoopPlaces, heapVars, driverVars
<1>1. frames \in Nat
  BY DEF DiskType
<1>2. CASE camera_jpgdec_main
  BY <1>2 DEF camera_jpgdec_main
<1>3. CASE camera_prepare
  BY <1>1, <1>3 DEF camera_prepare, NoBuffer
<1>4. CASE DQBUF \/ QBUF
  BY <1>1, <1>4 DEF DQBUF, QBUF
<1>5. CASE errout_with_buffer
  BY <1>1, <1>5 DEF errout_with_buffer, NoBuffer
<1>6. CASE Capture
  <2>1. /\ buf.owner = "driver" /\ frames' = frames + 1
        /\ buf' = [owner |-> "filled", frame |-> frames + 1]
        /\ UNCHANGED <<pc, buffers_still>>
    BY <1>6 DEF Capture
  <2> QED
    BY <1>1, <2>1 DEF NoBuffer
<1>7. CASE video_initialize \/ open \/ TAKEPICT_START \/ WhileLoop
           \/ write_file_open \/ write_file_close \/ task_create
           \/ TAKEPICT_STOP \/ WaitShowEnd \/ task_delete
           \/ errout_with_video_init
  BY <1>7
  DEF video_initialize, open, TAKEPICT_START, WhileLoop, write_file_open,
      write_file_close, task_create, TAKEPICT_STOP, WaitShowEnd, task_delete,
      errout_with_video_init
<1>8. CASE (\E t \in Tasks : TaskStep(t)) \/ UNCHANGED vars
  <2>1. UNCHANGED <<pc, buf, frames, buffers_still>>
    BY <1>8
    DEF TaskStep, ShowBegins, ShowLooks, jpeg_decode, ShowChecks, ShowCounts,
        CommandKeeps, vars
  <2> QED
    BY <2>1
<1> QED
  BY <1>2, <1>3, <1>4, <1>5, <1>6, <1>7, <1>8 DEF Next, MainStep

(* The steps that create, delete and move no task. *)
LEMMA OtherTasks ==
    ASSUME [Next]_vars, ~camera_jpgdec_main, ~task_create, ~task_delete,
           ~(\E t \in Tasks : TaskStep(t))
    PROVE  /\ UNCHANGED <<commands, tasks, lcd_show_count, lcd_show_end,
                          lcd_show_filename, shown, pid,
                          show_lcd_task_running>>
           /\ pc' = pc \/ pc # "idle"
           /\ faults' \in {faults, faults + 1}
  BY DEF Next, MainStep, vars, video_initialize, open, camera_prepare,
         TAKEPICT_START, WhileLoop, DQBUF, write_file_open,
         write_file_close, QBUF, TAKEPICT_STOP, WaitShowEnd,
         errout_with_buffer, errout_with_video_init, Capture, Fault,
         taskVars, runVars, ownVars

(* Every step keeps the types of the tasks and what they show. *)
LEMMA NextTask == DiskType /\ TaskType /\ [Next]_vars => TaskType'
<1> SUFFICES ASSUME DiskType, TaskType, [Next]_vars PROVE TaskType'
  OBVIOUS
<1> USE Constants DEF TaskType, TaskPlaces, Tasks
<1>1. CASE camera_jpgdec_main
  <2>1. /\ commands' = commands + 1 /\ commands < MaxCommands
        /\ UNCHANGED <<faults, tasks, lcd_show_count, lcd_show_filename>>
    BY <1>1 DEF camera_jpgdec_main
  <2>3. pid' = 0
    BY <1>1 DEF camera_jpgdec_main, NoTask
  <2>2. shown' \in Seq(Int)
    BY <1>1, EmptySeq DEF camera_jpgdec_main
  <2> QED
    BY <2>1, <2>2, <2>3
<1>2. CASE task_create
  <2>1. /\ UNCHANGED <<commands, lcd_show_count, lcd_show_filename, shown>>
        /\ pid' \in {pid, commands}
        /\ pc = "create" /\ faults' \in {faults, faults + 1}
        /\ tasks' \in {tasks, [tasks EXCEPT ![commands] = "created"]}
    BY <1>2 DEF task_create, runVars, Fault
  <2> QED
    BY <2>1
<1>3. CASE task_delete
  <2>1. /\ UNCHANGED <<commands, faults, lcd_show_count, lcd_show_filename,
                       shown, pid>>
        /\ pc = "delete" /\ pc' = "err_buffer"
    BY <1>3 DEF task_delete, ownVars
  <2>2. PICK t \in (IF pid = NoTask THEN Alive \cup {NoTask} ELSE {pid}) :
            tasks' = [u \in Tasks |-> IF u = t THEN "gone" ELSE tasks[u]]
    BY <1>3 DEF task_delete
  <2>3. t \in 0 .. commands
    BY <2>2 DEF Alive, NoTask
  <2>4. /\ tasks' \in [Tasks -> TaskPlaces]
        /\ \A u \in Tasks : tasks'[u] = IF u = t THEN "gone" ELSE tasks[u]
    BY <2>2
  <2>5. \A u \in Tasks : u > commands => tasks'[u] = "none"
    BY <2>3, <2>4
  <2>6. \A u \in Tasks : tasks'[u] = "decode" => lcd_show_filename # 0
    BY <2>4
  <2> QED
    BY <2>1, <2>4, <2>5, <2>6
<1>4. ASSUME NEW t \in Tasks, TaskStep(t) PROVE TaskType'
  <2>1. UNCHANGED <<pc, commands, pid>> /\ faults' \in {faults, faults + 1}
    BY <1>4
    DEF TaskStep, ShowBegins, ShowLooks, jpeg_decode, ShowChecks, ShowCounts,
        CommandKeeps, runVars, ownVars, Fault
  <2>2. t <= commands
    BY <1>4
    DEF TaskStep, ShowBegins, ShowLooks, jpeg_decode, ShowChecks, ShowCounts
  <2>3. CASE ShowBegins(t)
    BY <2>1, <2>2, <2>3 DEF ShowBegins
  <2>4. CASE ShowLooks(t)
    BY <2>1, <2>2, <2>4 DEF ShowLooks, DiskType
  <2>5. CASE jpeg_decode(t)
    <3>1. lcd_show_filename \in FileNumbers
      BY <2>5 DEF jpeg_decode, FileNumbers
    <3>2. files[lcd_show_filename] \in Int
      BY <3>1 DEF DiskType, Absent, Torn
    <3>3. Append(shown, files[lcd_show_filename]) \in Seq(Int)
      BY <3>2, AppendProperties
    <3>4. /\ shown' \in {shown, Append(shown, files[lcd_show_filename])}
          /\ tasks' \in {[tasks EXCEPT ![t] = "check"],
                         [tasks EXCEPT ![t] = "gone"]}
          /\ UNCHANGED <<lcd_show_count, lcd_show_filename>>
      BY <2>5 DEF jpeg_decode
    <3>5. shown' \in Seq(Int)
      BY <3>3, <3>4
    <3> QED
      BY <2>1, <2>2, <3>4, <3>5
  <2>6. CASE ShowChecks(t)
    BY <2>1, <2>2, <2>6 DEF ShowChecks
  <2>7. CASE ShowCounts(t)
    BY <2>1, <2>2, <2>7 DEF ShowCounts
  <2> QED
    BY <1>4, <2>3, <2>4, <2>5, <2>6, <2>7 DEF TaskStep
<1>5. CASE /\ ~camera_jpgdec_main /\ ~task_create /\ ~task_delete
           /\ ~(\E t \in Tasks : TaskStep(t))
  BY <1>5, OtherTasks
<1> QED
  BY <1>1, <1>2, <1>3, <1>4, <1>5

(* The types hold before the first command. *)
LEMMA InitType == Init => TypeInv
<1> SUFFICES ASSUME Init PROVE TypeInv
  OBVIOUS
<1>1. DiskType
  BY Constants DEF Init, DiskType, Places, FileNumbers
<1>2. BufferType
  BY DEF Init, BufferType, NoBuffer, PreparedPlaces, LoopPlaces
<1>3. TaskType
  BY Constants, EmptySeq DEF Init, TaskType, TaskPlaces, Tasks, NoTask
<1> QED
  BY <1>1, <1>2, <1>3 DEF TypeInv

(* The types hold in every state. *)
LEMMA TypeInvariant == Spec => []TypeInv
<1>1. TypeInv /\ [Next]_vars => TypeInv'
  BY NextDisk, NextBuffer, NextTask DEF TypeInv
<1> QED
  BY <1>1, InitType, PTL DEF Spec

(* File and picture numbers stay in the range the wrap leaves them, for    *)
(* every limit from three files on, and the countdown in its width         *)
(* (write_file and the while loop of camera_jpgdec_main).                  *)
THEOREM CameraTypeCorrect == Spec => []TypeOK
<1>1. TypeInv => TypeOK
  BY Constants DEF TypeInv, DiskType, BufferType, TaskType, TaskPlaces, TypeOK
<1> QED
  BY <1>1, TypeInvariant, PTL

(***************************************************************************)
(* The still buffer is freed once.                                         *)
(***************************************************************************)
HeapInv ==
    ~early => /\ ~doubleFree
              /\ pc \in PreparedPlaces => buffers_still # "freed"

(* camera_prepare sets the pointer before anything can free it again,      *)
(* unless REQBUFS or S_FMT has failed.                                     *)
LEMMA NextHeap == HeapInv /\ [Next]_vars => HeapInv'
<1> SUFFICES ASSUME HeapInv, [Next]_vars PROVE HeapInv'
  OBVIOUS
<1> USE DEF HeapInv, PreparedPlaces, LoopPlaces, heapVars
<1>1. CASE camera_prepare
  BY <1>1 DEF camera_prepare
<1>2. CASE errout_with_buffer
  BY <1>2 DEF errout_with_buffer
<1>3. CASE MainStep /\ ~camera_prepare /\ ~errout_with_buffer
  BY <1>3
  DEF MainStep, video_initialize, open, TAKEPICT_START, WhileLoop, DQBUF,
      write_file_open, write_file_close, QBUF, task_create, TAKEPICT_STOP,
      WaitShowEnd, task_delete, errout_with_video_init
<1>4. CASE camera_jpgdec_main
  BY <1>4 DEF camera_jpgdec_main
<1>5. CASE Capture \/ (\E t \in Tasks : TaskStep(t)) \/ UNCHANGED vars
  BY <1>5
  DEF Capture, TaskStep, ShowBegins, ShowLooks, jpeg_decode, ShowChecks,
      ShowCounts, CommandKeeps, vars
<1> QED
  BY <1>1, <1>2, <1>3, <1>4, <1>5 DEF Next

(* However many commands are typed and calls fail, the still buffer is     *)
(* freed a second time only after VIDIOC_REQBUFS or VIDIOC_S_FMT has       *)
(* failed (free_buffer and camera_prepare).                                *)
THEOREM FreedOnce == Spec => []FreedTwiceOnlyEarly
<1>1. Init => HeapInv
  BY DEF Init, HeapInv, PreparedPlaces, LoopPlaces
<1>2. HeapInv /\ [Next]_vars => HeapInv'
  BY NextHeap
<1>3. HeapInv => FreedTwiceOnlyEarly
  BY DEF HeapInv, FreedTwiceOnlyEarly
<1> QED
  BY <1>1, <1>2, <1>3, PTL DEF Spec

(***************************************************************************)
(* The command and its only task.                                          *)
(***************************************************************************)
Begun == commands # 0 /\ tasks[commands] \notin {"none", "created"}

(* The task of this command is the only one, it is created once, and a     *)
(* picture has been taken before.                                          *)
Alone ==
    /\ \A t \in Tasks : t # commands => tasks[t] \in {"none", "gone"}
    /\ pid = IF commands # 0 /\ tasks[commands] # "none" THEN commands ELSE NoTask
    /\ pid # NoTask => show_lcd_task_running
    /\ show_lcd_task_running /\ pid = NoTask => faults > 0
    /\ pc \in (LoopPlaces \ {"qbuf", "create"}) \cup {"takepict_stop", "wait_end"}
          /\ camera_main_file_count > 0 => show_lcd_task_running
    /\ pc = "fwrite" => writing = camera_main_file_count + 1
    /\ pc \in {"video_initialize", "open", "prepare", "takepict_start"} =>
          camera_main_file_count = 0 /\ pid = NoTask
    /\ ~Begun => shown = <<>>
    /\ Begun /\ tasks[commands] \in {"decode", "check", "increment"} =>
          lcd_show_count <= camera_main_file_count
    /\ Begun /\ tasks[commands] = "decode" => lcd_show_filename = lcd_show_count

(* The files the task has not shown yet. *)
NextToShow ==
    IF Begun /\ tasks[commands] \notin {"sleep", "decode"}
    THEN lcd_show_count + 1 ELSE lcd_show_count

(* The buffer holds a frame that is in no file yet. *)
NewFrame == buf.owner \in {"filled", "command"} /\ pc \notin {"qbuf", "err_buffer"}

(* The files hold this command's frames in the order of their numbers. *)
Stored ==
    /\ \A n \in 1 .. camera_main_file_count :
          files[n] > base \/ (files[n] = Torn /\ faults > 0)
    /\ \A m, n \in 1 .. camera_main_file_count :
          m < n /\ files[m] # Torn /\ files[n] # Torn => files[m] < files[n]

(* A new frame is later than all that were stored and shown. *)
Fresh ==
    NewFrame =>
        /\ base < buf.frame
        /\ \A n \in 1 .. camera_main_file_count : files[n] < buf.frame
        /\ \A k \in 1 .. Len(shown) : shown[k] < buf.frame

(* What was shown is in order, and older than what is still to be shown. *)
Shown ==
    /\ \A k \in 1 .. Len(shown) :
          shown[k] > base \/ (shown[k] = Torn /\ faults > 0)
    /\ \A k \in 1 .. Len(shown) : shown[k] <= frames
    /\ \A k, l \in 1 .. Len(shown) :
          k < l /\ shown[k] # Torn /\ shown[l] # Torn => shown[k] < shown[l]
ToCome ==
    Begun => \A k \in 1 .. Len(shown), n \in 1 .. camera_main_file_count :
        n >= NextToShow /\ shown[k] # Torn /\ files[n] # Torn =>
            shown[k] < files[n]

TornNow == pc = "fwrite" => files[writing] = Torn

(* The files, the buffer and the screen agree on the order. *)
Ordered == Stored /\ Fresh /\ Shown /\ ToCome /\ TornNow

(* A count that is not negative as an int goes negative at the end of the  *)
(* loop and not before.                                                    *)
LoopEnded ==
    asked <= INT_MAX =>
        /\ loop > INT_MAX => pc \notin LoopPlaces \cup {"takepict_start"}
        /\ pc \in {"video_initialize", "open", "prepare"} => loop <= INT_MAX

(* Without a failure the task has shown every file up to its count. *)
NoneSkipped ==
    faults = 0 /\ Begun =>
        /\ tasks[commands] \in {"sleep", "decode"} =>
              Len(shown) = lcd_show_count - 1
        /\ tasks[commands] \in {"check", "increment"} =>
              Len(shown) = lcd_show_count

(* The task has set the flag after the loop and at the last file. *)
EndIsTrue ==
    asked <= INT_MAX /\ Begun /\ lcd_show_end /\ pc \in WaitPlaces =>
        /\ loop > INT_MAX /\ tasks[commands] = "gone"
        /\ lcd_show_count = camera_main_file_count
        /\ faults = 0 => Len(shown) = camera_main_file_count

Complete == LoopEnded /\ NoneSkipped /\ EndIsTrue

(* The task of this command comes with show_lcd_task_running. *)
NotCreatedYet ==
    ~show_lcd_task_running =>
        pid = NoTask /\ (commands # 0 => tasks[commands] = "none")

(* Before the first task has run the flag is as it was initialized. *)
FirstFlag == commands <= 1 /\ ~Begun => ~lcd_show_end

(* The inductive invariant behind PicturesInOrder and CompletionIsTrue. *)
TaskInv == NotCreatedYet /\ FirstFlag
           /\ (Undisturbed => Alone /\ Ordered /\ Complete)

(* Only a new command makes a disturbed run undisturbed. *)
LEMMA StaysDisturbed ==
    ASSUME [Next]_vars, ~camera_jpgdec_main, Undisturbed'
    PROVE  Undisturbed /\ (write_file_open => ~Wraps)
<1>1. CASE write_file_open
  <2>1. wrapped' = (wrapped \/ Wraps) /\ others' = others
    BY <1>1 DEF write_file_open, runVars
  <2> QED
    BY <2>1, Zenon DEF Undisturbed
<1>2. CASE ~write_file_open
  <2>1. UNCHANGED <<others, wrapped>>
    BY <1>2
    DEF Next, MainStep, vars, video_initialize, open, camera_prepare,
        TAKEPICT_START, WhileLoop, DQBUF, write_file_close, QBUF,
        task_create, TAKEPICT_STOP, WaitShowEnd, task_delete,
        errout_with_buffer, errout_with_video_init, Capture, TaskStep,
        ShowBegins, ShowLooks, jpeg_decode, ShowChecks, ShowCounts,
        CommandKeeps, runVars, diskVars
  <2> QED
    BY <1>2, <2>1 DEF Undisturbed
<1> QED
  BY <1>1, <1>2

(* In an undisturbed run the task that moves is the command's own. *)
LEMMA OwnTask ==
    ASSUME TypeInv, Alone, NEW t \in Tasks, TaskStep(t)
    PROVE  t = commands /\ commands # 0 /\ commands \in Tasks /\ pid = commands
<1>1. tasks[t] \notin {"none", "gone"}
  BY DEF TaskStep, ShowBegins, ShowLooks, jpeg_decode, ShowChecks, ShowCounts
<1> QED
  BY <1>1, Constants DEF Alone, Tasks, TypeInv, TaskType

(* A new command that finds no task starts from nothing. *)
LEMMA FreshStart ==
    ASSUME TypeInv, camera_jpgdec_main, Undisturbed'
    PROVE  /\ commands' = commands + 1 /\ commands' \in Tasks
           /\ tasks' = tasks /\ \A t \in Tasks : tasks[t] \in {"none", "gone"}
           /\ tasks'[commands'] = "none" /\ ~Begun'
           /\ camera_main_file_count' = 0 /\ pid' = NoTask
           /\ show_lcd_task_running' = FALSE /\ shown' = <<>>
           /\ writing' = writing /\ buf' = NoBuffer
           /\ pc' \in {"video_initialize", "idle"} /\ asked' = loop'
<1>1. commands \in Nat /\ commands < MaxCommands /\ commands' = commands + 1
  BY Constants DEF camera_jpgdec_main, TypeInv, TaskType
<1>2. commands' \in Tasks
  BY <1>1, Constants DEF Tasks
<1>3. others' = (Alive # {}) /\ ~others'
  BY Zenon DEF camera_jpgdec_main, Undisturbed
<1>4. Alive = {}
  BY <1>3, Zenon
<1>5. \A t \in Tasks : tasks[t] \in {"none", "gone"}
  BY <1>4 DEF Alive
<1>6. tasks' = tasks
  BY DEF camera_jpgdec_main
<1>7. tasks'[commands'] = "none"
  BY <1>1, <1>2, <1>6 DEF TypeInv, TaskType
<1>8. /\ camera_main_file_count' = 0 /\ pid' = NoTask
      /\ show_lcd_task_running' = FALSE /\ shown' = <<>>
      /\ writing' = writing /\ buf' = NoBuffer
      /\ pc' \in {"video_initialize", "idle"} /\ asked' = loop'
  BY DEF camera_jpgdec_main, ResetGlobals, driverVars, TypeInv, BufferType,
         PreparedPlaces, LoopPlaces
<1> QED
  BY <1>1, <1>2, <1>5, <1>6, <1>7, <1>8 DEF Begun

(* What task_delete deletes: the command's own task, if there is one. *)
LEMMA DeletesOwn ==
    ASSUME TypeInv, Alone, task_delete
    PROVE  /\ tasks' \in [Tasks -> TaskPlaces]
           /\ \A u \in Tasks :
                 tasks'[u] = IF u = pid THEN "gone" ELSE tasks[u]
<1>1. PICK t \in (IF pid = NoTask THEN Alive \cup {NoTask} ELSE {pid}) :
          tasks' = [u \in Tasks |-> IF u = t THEN "gone" ELSE tasks[u]]
  BY DEF task_delete
<1>2. t = pid
  <2>1. CASE pid = NoTask
    <3>1. pc = "delete" /\ commands # 0 /\ commands \in Tasks
      BY Constants DEF task_delete, TypeInv, TaskType, Tasks
    <3>2. tasks[commands] = "none"
      BY <2>1, <3>1 DEF Alone, NoTask
    <3>3. Alive = {}
      BY <3>2 DEF Alive, Alone
    <3> QED
      BY <1>1, <2>1, <3>3
  <2> QED
    BY <1>1, <2>1
<1> QED
  BY <1>1, <1>2 DEF TypeInv, TaskType, TaskPlaces

(* The task of a command stays its only one. *)
LEMMA NextAlone ==
    TypeInv /\ (Undisturbed => Alone) /\ [Next]_vars => (Undisturbed => Alone)'
<1> SUFFICES ASSUME TypeInv, Undisturbed => Alone, [Next]_vars, Undisturbed'
             PROVE  Alone'
  OBVIOUS
<1>t. /\ camera_main_file_count \in Nat /\ commands \in Nat /\ faults \in Nat
      /\ commands <= MaxCommands /\ MaxCommands \in Nat
      /\ lcd_show_count \in Nat \ {0} /\ tasks \in [Tasks -> TaskPlaces]
  BY Constants DEF TypeInv, DiskType, TaskType
<1>1. CASE camera_jpgdec_main
  <2>1. writing' = 0 /\ pc' \in {"video_initialize", "idle"}
        /\ writing' = writing
    BY <1>1, FreshStart DEF TypeInv, DiskType, camera_jpgdec_main
  <2> QED
    BY <1>1, <1>t, <2>1, FreshStart DEF Alone, LoopPlaces
<1>2. CASE ~camera_jpgdec_main
  <2>1. Alone /\ (write_file_open => ~Wraps)
    BY <1>2, StaysDisturbed
  <2>2. CASE write_file_open
    <3>1. /\ UNCHANGED <<camera_main_file_count, commands, tasks, pid, shown,
                         show_lcd_task_running, lcd_show_count,
                         lcd_show_filename>>
          /\ faults' \in {faults, faults + 1} /\ pc = "fopen"
          /\ pc' = "err_buffer"
             \/ (pc' = "fwrite" /\ writing' = camera_main_file_count + 1)
      BY <2>1, <2>2
      DEF write_file_open, TmpCount, ownVars, runVars, taskVars, Fault
    <3> QED
      BY <1>t, <2>1, <3>1 DEF Alone, LoopPlaces, Begun
  <2>3. CASE write_file_close
    <3>1. /\ UNCHANGED <<commands, tasks, pid, shown, show_lcd_task_running,
                         lcd_show_count, lcd_show_filename>>
          /\ camera_main_file_count' = camera_main_file_count + 1
          /\ faults' \in {faults, faults + 1} /\ pc = "fwrite" /\ pc' = "qbuf"
      BY <2>3 DEF write_file_close, ownVars, runVars, taskVars, Fault
    <3> QED
      BY <1>t, <2>1, <3>1 DEF Alone, LoopPlaces, Begun
  <2>4. CASE task_create
    <3>1. /\ UNCHANGED <<camera_main_file_count, commands, shown,
                         lcd_show_count, lcd_show_filename>>
          /\ pc = "create" /\ pc' = "while" /\ show_lcd_task_running' = TRUE
          /\ \/ show_lcd_task_running /\ UNCHANGED <<tasks, pid, faults>>
             \/ /\ ~show_lcd_task_running
                /\ tasks' = [tasks EXCEPT ![commands] = "created"]
                /\ pid' = commands /\ UNCHANGED faults
             \/ /\ ~show_lcd_task_running /\ UNCHANGED <<tasks, pid>>
                /\ faults' = faults + 1
      BY <2>4 DEF task_create, runVars, diskVars, Fault
    <3>2. commands \in Tasks /\ commands # 0
      BY <1>t, <3>1 DEF Tasks, TypeInv, TaskType
    <3>3. CASE show_lcd_task_running /\ UNCHANGED <<tasks, pid, faults>>
      BY <2>1, <3>1, <3>3 DEF Alone, LoopPlaces, Begun
    <3>4. CASE /\ ~show_lcd_task_running
               /\ tasks' = [tasks EXCEPT ![commands] = "created"]
               /\ pid' = commands /\ UNCHANGED faults
      <4>1. tasks[commands] = "none"
        BY <2>1, <3>2, <3>4 DEF Alone, NoTask
      <4>2. ~Begun /\ ~Begun' /\ shown' = <<>>
        BY <1>t, <2>1, <3>1, <3>2, <3>4, <4>1 DEF Alone, Begun
      <4>3. \A t \in Tasks : t # commands => tasks'[t] \in {"none", "gone"}
        BY <1>t, <2>1, <3>2, <3>4 DEF Alone
      <4>4. tasks'[commands] = "created"
        BY <1>t, <3>2, <3>4
      <4> QED
        BY <3>1, <3>2, <3>4, <4>2, <4>3, <4>4 DEF Alone, NoTask
    <3>5. CASE /\ ~show_lcd_task_running /\ UNCHANGED <<tasks, pid>>
               /\ faults' = faults + 1
      BY <1>t, <2>1, <3>1, <3>5 DEF Alone, Begun
    <3> QED
      BY <3>1, <3>3, <3>4, <3>5
  <2>5. CASE task_delete
    <3>1. /\ UNCHANGED <<camera_main_file_count, commands, shown, pid, faults,
                         show_lcd_task_running, lcd_show_count,
                         lcd_show_filename>>
          /\ pc = "delete" /\ pc' = "err_buffer"
      BY <2>5 DEF task_delete, diskVars, ownVars
    <3>2. \A u \in Tasks : tasks'[u] = IF u = pid THEN "gone" ELSE tasks[u]
      BY <2>1, <2>5, DeletesOwn
    <3>3. commands \in Tasks /\ commands # 0
      BY <1>t, <3>1 DEF Tasks, TypeInv, TaskType
    <3> QED
      BY <2>1, <3>1, <3>2, <3>3 DEF Alone, LoopPlaces, Begun, NoTask
  <2>6. ASSUME NEW t \in Tasks, TaskStep(t) PROVE Alone'
    <3>1. t = commands /\ commands # 0 /\ commands \in Tasks /\ pid = commands
      BY <2>1, <2>6, OwnTask
    <3>2. /\ UNCHANGED <<pc, camera_main_file_count, writing, commands, pid,
                         show_lcd_task_running>>
          /\ faults' \in {faults, faults + 1}
      BY <2>6
      DEF TaskStep, ShowBegins, ShowLooks, jpeg_decode, ShowChecks,
          ShowCounts, CommandKeeps, ownVars, runVars, diskVars, Fault
    <3>3. CASE ShowBegins(t)
      BY <1>t, <2>1, <3>1, <3>2, <3>3 DEF ShowBegins, Alone, Begun
    <3>4. CASE ShowLooks(t)
      BY <1>t, <2>1, <3>1, <3>2, <3>4 DEF ShowLooks, Alone, Begun
    <3>5. CASE jpeg_decode(t)
      BY <1>t, <2>1, <3>1, <3>2, <3>5 DEF jpeg_decode, Alone, Begun
    <3>6. CASE ShowChecks(t)
      BY <1>t, <2>1, <3>1, <3>2, <3>6 DEF ShowChecks, Alone, Begun
    <3>7. CASE ShowCounts(t)
      BY <1>t, <2>1, <3>1, <3>2, <3>7 DEF ShowCounts, Alone, Begun
    <3> QED
      BY <2>6, <3>3, <3>4, <3>5, <3>6, <3>7 DEF TaskStep
  <2>7. CASE /\ ~write_file_open /\ ~write_file_close /\ ~task_create
             /\ ~task_delete /\ ~(\E t \in Tasks : TaskStep(t))
    <3>1. /\ UNCHANGED <<camera_main_file_count, writing, commands, tasks, pid,
                         show_lcd_task_running, shown, lcd_show_count,
                         lcd_show_filename>>
          /\ faults' \in {faults, faults + 1}
          /\ pc' # "fwrite" \/ pc' = pc
          /\ pc' \in (LoopPlaces \ {"qbuf", "create"})
                     \cup {"takepict_stop", "wait_end"} =>
                pc \in (LoopPlaces \ {"qbuf", "create"})
                      \cup {"takepict_start", "takepict_stop", "wait_end"}
          /\ pc' \in {"video_initialize", "open", "prepare", "takepict_start"}
             => pc \in {"video_initialize", "open", "prepare",
                        "takepict_start"}
      BY <1>2, <2>7
      DEF Next, MainStep, vars, video_initialize, open, camera_prepare,
          TAKEPICT_START, WhileLoop, DQBUF, QBUF, TAKEPICT_STOP, WaitShowEnd,
          errout_with_buffer, errout_with_video_init, Capture, Fault,
          LoopPlaces, ownVars, runVars, diskVars, taskVars
    <3> QED
      BY <1>t, <2>1, <3>1 DEF Alone, Begun
  <2> QED
    BY <2>2, <2>3, <2>4, <2>5, <2>6, <2>7
<1> QED
  BY <1>1, <1>2

(* The picture the task appends to what it has shown. *)
LEMMA Appended ==
    ASSUME NEW q \in Seq(Int), NEW x \in Int
    PROVE  /\ Append(q, x) \in Seq(Int) /\ Len(Append(q, x)) = Len(q) + 1
           /\ Len(q) \in Nat
           /\ \A k \in 1 .. Len(q) : Append(q, x)[k] = q[k]
           /\ Append(q, x)[Len(q) + 1] = x
<1>1. Len(q) \in Nat
  BY LenProperties
<1>2. /\ Append(q, x) \in Seq(Int) /\ Len(Append(q, x)) = Len(q) + 1
      /\ \A k \in 1 .. Len(q) : Append(q, x)[k] = q[k]
      /\ Append(q, x)[Len(q) + 1] = x
  BY AppendProperties
<1> QED
  BY <1>1, <1>2

(* The parts of Ordered survive what does not touch them. *)
LEMMA KeepsStored ==
    ASSUME Stored, UNCHANGED <<camera_main_file_count, base>>, faults \in Nat,
           faults' \in {faults, faults + 1},
           \A n \in 1 .. camera_main_file_count : files'[n] = files[n]
    PROVE  Stored'
  BY DEF Stored, Torn

(* What keeps the files, or adds none, keeps Fresh. *)
LEMMA KeepsFresh ==
    ASSUME Fresh, UNCHANGED <<camera_main_file_count, base, shown>>,
           NewFrame' => NewFrame /\ buf'.frame = buf.frame,
           \A n \in 1 .. camera_main_file_count : files'[n] = files[n]
    PROVE  Fresh'
  BY DEF Fresh

(* What shows nothing keeps Shown. *)
LEMMA KeepsShown ==
    ASSUME Shown, UNCHANGED <<shown, base, frames>>, faults \in Nat,
           faults' \in {faults, faults + 1}
    PROVE  Shown'
  BY DEF Shown, Torn

(* What changes no file still to be shown keeps ToCome. *)
LEMMA KeepsToCome ==
    ASSUME ToCome, UNCHANGED <<shown, camera_main_file_count>>,
           Begun' => Begun, NextToShow \in Nat, NextToShow' \in Nat,
           NextToShow <= NextToShow',
           \A n \in 1 .. camera_main_file_count : files'[n] = files[n]
    PROVE  ToCome'
<1> SUFFICES ASSUME Begun', NEW k \in 1 .. Len(shown'),
                    NEW n \in 1 .. camera_main_file_count',
                    n >= NextToShow', shown'[k] # Torn, files'[n] # Torn
             PROVE  shown'[k] < files'[n]
  BY DEF ToCome, Torn
<1>1. n >= NextToShow
  OBVIOUS
<1> QED
  BY <1>1 DEF ToCome

(* What was written and shown stays in the order in which it was taken. *)
LEMMA NextOrdered ==
    /\ TypeInv /\ [Next]_vars
    /\ Undisturbed => Alone /\ Ordered
    => (Undisturbed => Ordered)'
<1> SUFFICES ASSUME TypeInv, [Next]_vars, Undisturbed',
                    Undisturbed => Alone /\ Ordered
             PROVE  Ordered'
  OBVIOUS
<1> DEFINE cnt == camera_main_file_count
<1>t. /\ cnt \in Nat /\ cnt < FileLimit /\ FileLimit \in Nat
      /\ commands \in Nat /\ faults \in Nat /\ frames \in Nat
      /\ base \in Nat /\ base <= frames /\ lcd_show_count \in Nat \ {0}
      /\ files \in [FileNumbers -> {Absent, Torn} \cup 1 .. frames]
      /\ buf.frame \in Nat /\ buf.frame <= frames /\ shown \in Seq(Int)
      /\ tasks \in [Tasks -> TaskPlaces]
  BY Constants DEF TypeInv, DiskType, TaskType, BufferType
<1>l. Len(shown) \in Nat /\ \A k \in 1 .. Len(shown) : shown[k] \in Int
  BY <1>t, LenProperties, ElementOfSeq
<1>f. /\ 1 .. cnt \subseteq FileNumbers /\ cnt + 1 \in FileNumbers
      /\ \A n \in FileNumbers : files[n] \in Int /\ files[n] <= frames
  <2>1. \A n \in FileNumbers : files[n] \in {Absent, Torn} \cup 1 .. frames
    BY <1>t
  <2>2. \A x \in {Absent, Torn} \cup 1 .. frames : x \in Int /\ x <= frames
    BY <1>t DEF Absent, Torn
  <2>3. 1 .. cnt \subseteq FileNumbers /\ cnt + 1 \in FileNumbers
    BY <1>t DEF FileNumbers
  <2> QED
    BY <2>1, <2>2, <2>3
<1>n. NextToShow \in Nat
  BY <1>t DEF NextToShow
<1>1. CASE camera_jpgdec_main
  <2>1. /\ cnt' = 0 /\ shown' = <<>> /\ buf' = NoBuffer /\ pc' # "fwrite"
    BY <1>1, FreshStart
  <2>2. Len(shown') = 0
    BY <2>1, EmptySeq, Zenon
  <2>3. 1 .. cnt' = {} /\ 1 .. Len(shown') = {}
    BY <2>1, <2>2
  <2>4. ~NewFrame'
    BY <2>1 DEF NewFrame, NoBuffer
  <2>5. Stored' /\ Fresh' /\ TornNow'
    BY <2>1, <2>3, <2>4 DEF Stored, Fresh, TornNow
  <2>6. Shown' /\ ToCome'
    BY <2>3 DEF Shown, ToCome
  <2> QED
    BY <2>5, <2>6 DEF Ordered
<1>2. CASE ~camera_jpgdec_main
  <2>1. /\ Alone /\ Stored /\ Fresh /\ Shown /\ ToCome /\ TornNow
        /\ write_file_open => ~Wraps
    BY <1>2, StaysDisturbed DEF Ordered
  <2> SUFFICES Stored' /\ Fresh' /\ Shown' /\ ToCome' /\ TornNow'
    BY DEF Ordered
  <2>2. CASE write_file_open
    <3>1. /\ UNCHANGED <<cnt, commands, tasks, shown, lcd_show_count, base,
                         buf, frames>>
          /\ faults' \in {faults, faults + 1} /\ pc = "fopen"
          /\ \/ pc' = "err_buffer" /\ files' = files
             \/ /\ pc' = "fwrite" /\ files' = [files EXCEPT ![cnt + 1] = Torn]
                /\ writing' = cnt + 1
      BY <2>1, <2>2
      DEF write_file_open, TmpCount, runVars, taskVars, driverVars, Fault
    <3>2. \A n \in 1 .. cnt : files'[n] = files[n]
      BY <1>t, <1>f, <3>1
    <3>3. NewFrame' => NewFrame
      BY <3>1 DEF NewFrame
    <3>4. Begun' = Begun /\ NextToShow' = NextToShow
      BY <3>1 DEF Begun, NextToShow
    <3>5. Stored' /\ Fresh' /\ Shown'
      BY <1>t, <2>1, <3>1, <3>2, <3>3, KeepsStored, KeepsFresh, KeepsShown
    <3>6. ToCome'
      BY <1>n, <2>1, <3>1, <3>2, <3>4, KeepsToCome
    <3>7. TornNow'
      BY <1>t, <1>f, <3>1 DEF TornNow
    <3> QED
      BY <3>5, <3>6, <3>7
  <2>3. CASE write_file_close
    <3>1. /\ UNCHANGED <<commands, tasks, shown, lcd_show_count, base, buf,
                         frames>>
          /\ pc = "fwrite" /\ pc' = "qbuf" /\ cnt' = cnt + 1
          /\ \/ files' = [files EXCEPT ![writing] = buf.frame]
                /\ faults' = faults
             \/ faults' = faults + 1 /\ files' = files
      BY <2>3 DEF write_file_close, runVars, taskVars, driverVars, Fault
    <3>2. writing = cnt + 1
      BY <2>1, <3>1 DEF Alone
    <3>3. ~NewFrame' /\ NewFrame
      BY <3>1 DEF NewFrame, TypeInv, BufferType
    <3>4. \A n \in 1 .. cnt : files'[n] = files[n]
      BY <1>t, <1>f, <3>1, <3>2
    <3>5. \/ files'[cnt + 1] = buf.frame
          \/ files'[cnt + 1] = Torn /\ faults' > 0
      BY <1>t, <1>f, <2>1, <3>1, <3>2 DEF TornNow
    <3>6. \A n \in 1 .. cnt + 1 : n \in 1 .. cnt \/ n = cnt + 1
      BY <1>t
    <3>7. /\ base < buf.frame /\ \A n \in 1 .. cnt : files[n] < buf.frame
          /\ \A k \in 1 .. Len(shown) : shown[k] < buf.frame
      BY <2>1, <3>3 DEF Fresh
    <3>8. faults' \in {faults, faults + 1}
      BY <3>1
    <3>9. Stored'
      <4>1. ASSUME NEW n \in 1 .. cnt + 1
            PROVE  files'[n] > base \/ (files'[n] = Torn /\ faults' > 0)
        <5>1. CASE n \in 1 .. cnt
          BY <1>t, <2>1, <3>4, <3>8, <5>1 DEF Stored
        <5>2. CASE n = cnt + 1
          BY <1>t, <3>5, <3>7, <5>2
        <5> QED
          BY <3>6, <5>1, <5>2
      <4>2. ASSUME NEW m \in 1 .. cnt + 1, NEW n \in 1 .. cnt + 1, m < n,
                   files'[m] # Torn, files'[n] # Torn
            PROVE  files'[m] < files'[n]
        <5>1. m \in 1 .. cnt
          BY <1>t, <4>2
        <5>2. CASE n \in 1 .. cnt
          BY <2>1, <3>4, <4>2, <5>1, <5>2 DEF Stored
        <5>3. CASE n = cnt + 1
          BY <3>4, <3>5, <3>7, <4>2, <5>1, <5>3
        <5> QED
          BY <3>6, <5>2, <5>3
      <4> QED
        BY <3>1, <4>1, <4>2 DEF Stored
    <3>10. Fresh' /\ TornNow' /\ Shown'
      BY <1>t, <2>1, <3>1, <3>3, <3>8, KeepsShown DEF Fresh, TornNow
    <3>11. ToCome'
      <4> SUFFICES ASSUME Begun', NEW k \in 1 .. Len(shown),
                          NEW n \in 1 .. cnt + 1, n >= NextToShow',
                          shown[k] # Torn, files'[n] # Torn
                   PROVE  shown[k] < files'[n]
        BY <3>1 DEF ToCome
      <4>1. Begun /\ NextToShow' = NextToShow
        BY <3>1 DEF Begun, NextToShow
      <4>2. CASE n \in 1 .. cnt
        BY <2>1, <3>4, <4>1, <4>2 DEF ToCome
      <4>3. CASE n = cnt + 1
        BY <3>5, <3>7, <4>3
      <4> QED
        BY <3>6, <4>2, <4>3
    <3> QED
      BY <3>9, <3>10, <3>11
  <2>4. CASE Capture
    <3>1. /\ UNCHANGED <<pc, cnt, files, commands, tasks, shown, faults,
                         lcd_show_count, base, writing>>
          /\ buf' = [owner |-> "filled", frame |-> frames + 1]
          /\ frames' = frames + 1
      BY <2>4 DEF Capture, runVars, diskVars, taskVars
    <3>2. buf'.frame = frames + 1
      BY <3>1
    <3>3. Begun' = Begun /\ NextToShow' = NextToShow
      BY <3>1 DEF Begun, NextToShow
    <3>4. Stored' /\ ToCome' /\ TornNow'
      BY <1>t, <1>n, <2>1, <3>1, <3>3, KeepsStored, KeepsToCome DEF TornNow
    <3>5. Fresh'
      <4>1. \A n \in 1 .. cnt : files[n] < frames + 1
        BY <1>t, <1>f
      <4>2. \A k \in 1 .. Len(shown) : shown[k] < frames + 1
        BY <1>t, <1>l, <2>1 DEF Shown
      <4> QED
        BY <1>t, <3>1, <3>2, <4>1, <4>2 DEF Fresh
    <3>6. Shown'
      <4>1. \A k \in 1 .. Len(shown) : shown[k] <= frames + 1
        BY <1>t, <1>l, <2>1 DEF Shown
      <4> QED
        BY <2>1, <3>1, <4>1 DEF Shown
    <3> QED
      BY <3>4, <3>5, <3>6
  <2>5. CASE task_create \/ task_delete
    <3>1. /\ UNCHANGED <<cnt, files, commands, shown, lcd_show_count, base,
                         buf, frames, writing>>
          /\ faults' \in {faults, faults + 1} /\ pc' # "fwrite"
          /\ NewFrame' => NewFrame
      BY <2>5
      DEF task_create, task_delete, runVars, diskVars, driverVars, Fault,
          NewFrame
    <3>2. commands \in Tasks /\ commands # 0
      BY <1>t, <2>5, Constants
      DEF task_create, task_delete, Tasks, TypeInv, TaskType
    <3>3. Stored' /\ Fresh' /\ Shown' /\ TornNow'
      BY <1>t, <2>1, <3>1, KeepsStored, KeepsFresh, KeepsShown DEF TornNow
    <3>4. ToCome'
      <4>1. \/ tasks'[commands] = tasks[commands]
            \/ tasks'[commands] = "gone" \/ ~Begun
        <5>1. CASE task_create
          BY <2>1, <3>2, <5>1 DEF task_create, Alone, Begun, NoTask
        <5>2. CASE task_delete
          BY <2>1, <3>2, <5>2, DeletesOwn
        <5> QED
          BY <2>5, <5>1, <5>2
      <4>2. CASE Begun
        <5>1. NextToShow <= NextToShow' /\ NextToShow' \in Nat
          BY <1>t, <3>1, <3>2, <4>1, <4>2 DEF NextToShow, Begun
        <5> QED
          BY <1>n, <2>1, <3>1, <4>2, <5>1, KeepsToCome
      <4>3. CASE ~Begun
        <5>1. shown = <<>>
          BY <2>1, <4>3 DEF Alone
        <5>2. Len(shown) = 0
          BY <5>1, EmptySeq, Zenon
        <5>3. 1 .. Len(shown') = {}
          BY <3>1, <5>2
        <5> QED
          BY <5>3 DEF ToCome
      <4> QED
        BY <4>2, <4>3
    <3> QED
      BY <3>3, <3>4
  <2>6. ASSUME NEW t \in Tasks, TaskStep(t)
        PROVE  Stored' /\ Fresh' /\ Shown' /\ ToCome' /\ TornNow'
    <3>1. t = commands /\ commands # 0 /\ commands \in Tasks
      BY <2>1, <2>6, OwnTask
    <3>2. /\ UNCHANGED <<pc, cnt, files, commands, base, buf, frames, writing>>
          /\ faults' \in {faults, faults + 1}
      BY <2>6
      DEF TaskStep, ShowBegins, ShowLooks, jpeg_decode, ShowChecks,
          ShowCounts, CommandKeeps, runVars, diskVars, driverVars, Fault
    <3>3. (NewFrame' <=> NewFrame) /\ Stored' /\ TornNow'
      BY <1>t, <2>1, <3>2, KeepsStored DEF NewFrame, TornNow
    <3>4. ASSUME shown' = shown PROVE Fresh' /\ Shown'
      BY <1>t, <2>1, <3>2, <3>3, <3>4, KeepsFresh, KeepsShown
    <3>5. CASE ShowBegins(t)
      <4>1. shown = <<>> /\ shown' = shown
        BY <2>1, <3>1, <3>5 DEF ShowBegins, Alone, Begun
      <4>2. Len(shown') = 0
        BY <4>1, EmptySeq, Zenon
      <4>3. 1 .. Len(shown') = {}
        BY <4>2
      <4>4. ToCome'
        BY <4>3 DEF ToCome
      <4> QED
        BY <3>3, <3>4, <4>1, <4>4
    <3>6. CASE jpeg_decode(t)
      <4>1. /\ Begun /\ Begun' /\ NextToShow = lcd_show_count
            /\ lcd_show_filename = lcd_show_count /\ lcd_show_count <= cnt
            /\ lcd_show_count' = lcd_show_count
            /\ NextToShow' = lcd_show_count + 1
        BY <1>t, <2>1, <3>1, <3>2, <3>6
        DEF jpeg_decode, Begun, NextToShow, Alone
      <4>2. CASE shown' = shown
        <5>1. ToCome'
          BY <1>t, <2>1, <3>2, <4>1, <4>2, KeepsToCome
        <5> QED
          BY <3>3, <3>4, <4>2, <5>1
      <4>3. CASE shown' = Append(shown, files[lcd_show_filename])
        <5> DEFINE x == files[lcd_show_count]
        <5>1. /\ x \in Int /\ x <= frames /\ lcd_show_count \in 1 .. cnt
              /\ x > base \/ (x = Torn /\ faults > 0)
          <6>1. lcd_show_count \in 1 .. cnt
            BY <1>t, <4>1
          <6> QED
            BY <1>f, <2>1, <6>1 DEF Stored
        <5>2. /\ Len(shown') = Len(shown) + 1
              /\ \A k \in 1 .. Len(shown) : shown'[k] = shown[k]
              /\ shown'[Len(shown) + 1] = x
          BY <1>t, <4>1, <4>3, <5>1, Appended
        <5>3. \A k \in 1 .. Len(shown) :
                 shown[k] # Torn /\ x # Torn => shown[k] < x
          BY <1>t, <2>1, <4>1, <5>1 DEF ToCome
        <5>4. \A n \in 1 .. cnt :
                 n > lcd_show_count /\ x # Torn /\ files[n] # Torn =>
                     x < files[n]
          BY <2>1, <5>1 DEF Stored
        <5>5. NewFrame => x < buf.frame
          BY <2>1, <5>1 DEF Fresh
        <5> HIDE DEF x
        <5>6. \A k \in 1 .. Len(shown) + 1 :
                 k \in 1 .. Len(shown) \/ k = Len(shown) + 1
          BY <1>l
        <5>7. ASSUME NEW k \in 1 .. Len(shown')
              PROVE  /\ shown'[k] > base \/ (shown'[k] = Torn /\ faults' > 0)
                     /\ shown'[k] <= frames
                     /\ NewFrame => shown'[k] < buf.frame
                     /\ \A n \in 1 .. cnt :
                           n >= lcd_show_count + 1 /\ shown'[k] # Torn
                           /\ files[n] # Torn => shown'[k] < files[n]
          <6>1. CASE k \in 1 .. Len(shown)
            <7>1. shown'[k] = shown[k]
              BY <5>2, <6>1
            <7>2. \A n \in 1 .. cnt : n >= lcd_show_count + 1 =>
                                      n >= NextToShow
              BY <1>t, <4>1
            <7>3. \A n \in 1 .. cnt :
                     n >= lcd_show_count + 1 /\ shown[k] # Torn
                     /\ files[n] # Torn => shown[k] < files[n]
              BY <2>1, <4>1, <6>1, <7>2 DEF ToCome
            <7>4. /\ shown[k] > base \/ (shown[k] = Torn /\ faults' > 0)
                  /\ shown[k] <= frames
              BY <1>t, <2>1, <3>2, <6>1 DEF Shown
            <7>5. NewFrame => shown[k] < buf.frame
              BY <2>1, <6>1 DEF Fresh
            <7> QED
              BY <7>1, <7>3, <7>4, <7>5
          <6>2. CASE k = Len(shown) + 1
            <7>1. shown'[k] = x
              BY <5>2, <6>2
            <7>2. \A n \in 1 .. cnt : n >= lcd_show_count + 1 =>
                                      n > lcd_show_count
              BY <1>t
            <7>3. x > base \/ (x = Torn /\ faults' > 0)
              BY <1>t, <3>2, <5>1
            <7> QED
              BY <5>1, <5>4, <5>5, <7>1, <7>2, <7>3
          <6> QED
            BY <5>2, <5>6, <6>1, <6>2
        <5>8. ASSUME NEW k \in 1 .. Len(shown'), NEW l \in 1 .. Len(shown'),
                     k < l, shown'[k] # Torn, shown'[l] # Torn
              PROVE  shown'[k] < shown'[l]
          <6>1. k \in 1 .. Len(shown)
            BY <1>l, <5>2, <5>8
          <6>2. CASE l \in 1 .. Len(shown)
            BY <2>1, <5>2, <5>8, <6>1, <6>2 DEF Shown
          <6>3. CASE l = Len(shown) + 1
            BY <5>2, <5>3, <5>8, <6>1, <6>3
          <6> QED
            BY <5>2, <5>6, <6>2, <6>3
        <5>9. Shown'
          BY <3>2, <5>7, <5>8 DEF Shown
        <5>10. Fresh'
          BY <2>1, <3>2, <3>3, <5>7 DEF Fresh
        <5>11. ToCome'
          BY <3>2, <4>1, <5>7 DEF ToCome
        <5> QED
          BY <3>3, <5>9, <5>10, <5>11
      <4> QED
        BY <3>6, <4>2, <4>3 DEF jpeg_decode
    <3>7. CASE ShowLooks(t) \/ ShowChecks(t) \/ ShowCounts(t)
      <4>1. /\ shown' = shown /\ Begun /\ Begun'
            /\ NextToShow' = NextToShow
        BY <1>t, <3>1, <3>2, <3>7
        DEF ShowLooks, ShowChecks, ShowCounts, Begun, NextToShow
      <4>2. ToCome'
        BY <1>n, <2>1, <3>2, <4>1, KeepsToCome
      <4> QED
        BY <3>3, <3>4, <4>1, <4>2
    <3> QED
      BY <2>6, <3>5, <3>6, <3>7 DEF TaskStep
  <2>7. CASE /\ ~write_file_open /\ ~write_file_close /\ ~Capture
             /\ ~task_create /\ ~task_delete
             /\ ~(\E t \in Tasks : TaskStep(t))
    <3>1. /\ UNCHANGED <<cnt, files, commands, tasks, shown, lcd_show_count,
                         base, frames, writing>>
          /\ faults' \in {faults, faults + 1}
          /\ pc' = "fwrite" => pc = "fwrite"
      BY <1>2, <2>7
      DEF Next, MainStep, vars, video_initialize, open, camera_prepare,
          TAKEPICT_START, WhileLoop, DQBUF, QBUF, TAKEPICT_STOP, WaitShowEnd,
          errout_with_buffer, errout_with_video_init, Fault,
          runVars, diskVars, taskVars, driverVars
    <3>2. NewFrame' => NewFrame /\ buf'.frame = buf.frame
      BY <1>2, <2>7
      DEF Next, MainStep, vars, video_initialize, open, camera_prepare,
          TAKEPICT_START, WhileLoop, DQBUF, QBUF, TAKEPICT_STOP, WaitShowEnd,
          errout_with_buffer, errout_with_video_init, driverVars, NewFrame,
          NoBuffer, TypeInv, BufferType
    <3>3. Begun' = Begun /\ NextToShow' = NextToShow
      BY <3>1 DEF Begun, NextToShow
    <3>4. Stored' /\ Fresh' /\ Shown'
      BY <1>t, <2>1, <3>1, <3>2, KeepsStored, KeepsFresh, KeepsShown
    <3>5. ToCome' /\ TornNow'
      BY <1>n, <2>1, <3>1, <3>3, KeepsToCome DEF TornNow
    <3> QED
      BY <3>4, <3>5
  <2> QED
    BY <2>2, <2>3, <2>4, <2>5, <2>6, <2>7
<1> QED
  BY <1>1, <1>2

(* The countdown goes negative when the loop ends. *)
LEMMA NextLoopEnded ==
    DiskType /\ LoopEnded /\ [Next]_vars => LoopEnded'
<1> SUFFICES ASSUME DiskType, LoopEnded, [Next]_vars PROVE LoopEnded'
  OBVIOUS
<1> USE Constants DEF LoopEnded, LoopPlaces, DiskType
<1>1. CASE camera_jpgdec_main
  BY <1>1 DEF camera_jpgdec_main
<1>2. CASE WhileLoop
  <2>1. /\ pc = "while" /\ asked' = asked
        /\ pc' = IF loop > 0 THEN "dqbuf" ELSE "takepict_stop"
        /\ loop' = (loop - 1) % (UINT_MAX + 1)
    BY <1>2 DEF WhileLoop, runVars
  <2>2. CASE loop > 0
    <3>1. loop' = loop - 1
      BY <2>1, <2>2
    <3> QED
      BY <2>1, <2>2, <3>1
  <2>3. CASE loop = 0
    BY <2>1, <2>3
  <2> QED
    BY <2>2, <2>3
<1>3. CASE ~camera_jpgdec_main /\ ~WhileLoop
  <2>1. /\ UNCHANGED <<loop, asked>>
        /\ pc' \in LoopPlaces \cup {"takepict_start"} =>
              pc \in LoopPlaces \cup {"takepict_start", "prepare"}
        /\ pc' \in {"video_initialize", "open", "prepare"} =>
              pc \in {"video_initialize", "open", "prepare"}
    BY <1>3
    DEF Next, MainStep, vars, video_initialize, open, camera_prepare,
        TAKEPICT_START, DQBUF, write_file_open, write_file_close, QBUF,
        task_create, TAKEPICT_STOP, WaitShowEnd, task_delete,
        errout_with_buffer, errout_with_video_init, Capture, TaskStep,
        ShowBegins, ShowLooks, jpeg_decode, ShowChecks, ShowCounts,
        CommandKeeps, ownVars, runVars
  <2> QED
    BY <2>1
<1> QED
  BY <1>1, <1>2, <1>3

(* The task counts what it shows. *)
LEMMA NextNoneSkipped ==
    /\ TypeInv /\ [Next]_vars
    /\ Undisturbed => Alone /\ Ordered /\ NoneSkipped
    => (Undisturbed => NoneSkipped)'
<1> SUFFICES ASSUME TypeInv, [Next]_vars, Undisturbed',
                    Undisturbed => Alone /\ Ordered /\ NoneSkipped
             PROVE  NoneSkipped'
  OBVIOUS
<1>t. /\ commands \in Nat /\ faults \in Nat /\ commands <= MaxCommands
      /\ lcd_show_count \in Nat \ {0} /\ shown \in Seq(Int)
      /\ tasks \in [Tasks -> TaskPlaces] /\ MaxCommands \in Nat
      /\ camera_main_file_count \in 0 .. FileLimit - 1 /\ FileLimit \in Nat
      /\ files \in [FileNumbers -> {Absent, Torn} \cup 1 .. frames]
      /\ frames \in Nat
  BY Constants DEF TypeInv, DiskType, TaskType
<1>1. CASE camera_jpgdec_main
  BY <1>1, FreshStart DEF NoneSkipped
<1>2. CASE ~camera_jpgdec_main
  <2>1. Alone /\ Ordered /\ NoneSkipped
    BY <1>2, StaysDisturbed
  <2>2. CASE task_create \/ task_delete
    <3>1. /\ UNCHANGED <<commands, shown, lcd_show_count>>
          /\ faults' \in {faults, faults + 1} /\ pc \in {"create", "delete"}
      BY <2>2 DEF task_create, task_delete, runVars, Fault
    <3>2. commands \in Tasks
      BY <1>t, <3>1 DEF Tasks, TypeInv, TaskType
    <3>3. tasks'[commands] \in {tasks[commands], "created", "gone"}
      <4>1. CASE task_create
        BY <1>t, <3>2, <4>1 DEF task_create
      <4>2. CASE task_delete
        BY <2>1, <3>2, <4>2, DeletesOwn
      <4> QED
        BY <2>2, <4>1, <4>2
    <3> QED
      BY <1>t, <2>1, <3>1, <3>3 DEF NoneSkipped, Begun
  <2>3. ASSUME NEW t \in Tasks, TaskStep(t) PROVE NoneSkipped'
    <3>1. t = commands /\ commands # 0 /\ commands \in Tasks
      BY <2>1, <2>3, OwnTask
    <3>2. UNCHANGED commands /\ faults' \in {faults, faults + 1}
      BY <2>3
      DEF TaskStep, ShowBegins, ShowLooks, jpeg_decode, ShowChecks,
          ShowCounts, CommandKeeps, runVars, Fault
    <3>3. CASE ShowBegins(t)
      <4>1. shown = <<>> /\ shown' = shown
        BY <2>1, <3>1, <3>3 DEF ShowBegins, Alone, Begun
      <4>2. Len(shown') = 0
        BY <4>1, EmptySeq, Zenon
      <4>3. lcd_show_count' = 1 /\ tasks'[commands] = "sleep"
        BY <1>t, <3>1, <3>3 DEF ShowBegins
      <4> QED
        BY <3>2, <4>2, <4>3 DEF NoneSkipped
    <3>4. CASE jpeg_decode(t)
      <4> SUFFICES ASSUME faults' = 0 PROVE NoneSkipped'
        BY DEF NoneSkipped
      <4>1. faults = 0 /\ ~Fault /\ Begun /\ tasks[commands] = "decode"
        BY <1>t, <3>1, <3>2, <3>4 DEF Fault, jpeg_decode, Begun
      <4>2. lcd_show_filename \in 1 .. camera_main_file_count
        BY <1>t, <2>1, <4>1 DEF Alone
      <4>3. files[lcd_show_filename] # Torn
        BY <2>1, <4>1, <4>2 DEF Ordered, Stored, Torn, TypeInv, DiskType
      <4>4. /\ shown' = Append(shown, files[lcd_show_filename])
            /\ tasks' = [tasks EXCEPT ![t] = "check"]
            /\ lcd_show_count' = lcd_show_count
        BY <3>4, <4>1, <4>3 DEF jpeg_decode
      <4>5. files[lcd_show_filename] \in Int
        <5>1. lcd_show_filename \in FileNumbers
          BY <1>t, <4>2 DEF FileNumbers
        <5> QED
          BY <1>t, <5>1 DEF Absent, Torn
      <4>6. Len(shown') = Len(shown) + 1 /\ Len(shown) \in Nat
        BY <1>t, <4>4, <4>5, Appended
      <4>7. Len(shown) = lcd_show_count - 1
        BY <2>1, <4>1 DEF NoneSkipped
      <4>8. tasks'[commands] = "check"
        BY <1>t, <3>1, <4>4
      <4> QED
        BY <1>t, <3>2, <4>4, <4>6, <4>7, <4>8 DEF NoneSkipped
    <3>5. CASE ShowLooks(t) \/ ShowChecks(t)
      <4>1. /\ UNCHANGED <<shown, lcd_show_count>>
            /\ \/ tasks[commands] = "sleep" /\ tasks'[commands] = "decode"
               \/ tasks[commands] = "check"
                  /\ tasks'[commands] \in {"increment", "gone"}
        BY <1>t, <3>1, <3>5 DEF ShowLooks, ShowChecks
      <4> QED
        BY <1>t, <2>1, <3>1, <3>2, <4>1 DEF NoneSkipped, Begun
    <3>6. CASE ShowCounts(t)
      <4>1. /\ shown' = shown /\ lcd_show_count' = lcd_show_count + 1
            /\ tasks[commands] = "increment" /\ tasks'[commands] = "sleep"
        BY <1>t, <3>1, <3>6 DEF ShowCounts
      <4> QED
        BY <1>t, <2>1, <3>1, <3>2, <4>1 DEF NoneSkipped, Begun
    <3> QED
      BY <2>3, <3>3, <3>4, <3>5, <3>6 DEF TaskStep
  <2>4. CASE /\ ~task_create /\ ~task_delete
             /\ ~(\E t \in Tasks : TaskStep(t))
    <3>1. /\ UNCHANGED <<commands, tasks, lcd_show_count, shown>>
          /\ faults' \in {faults, faults + 1}
      BY <1>2, <2>4, OtherTasks
    <3> QED
      BY <1>t, <2>1, <3>1 DEF NoneSkipped, Begun
  <2> QED
    BY <2>2, <2>3, <2>4
<1> QED
  BY <1>1, <1>2

(* The flag is set at the last file, and neither changes afterwards. *)
LEMMA NextEndIsTrue ==
    /\ TypeInv /\ [Next]_vars
    /\ Undisturbed => Alone /\ Complete
    => (Undisturbed => EndIsTrue)'
<1> SUFFICES ASSUME TypeInv, [Next]_vars, Undisturbed',
                    Undisturbed => Alone /\ Complete
             PROVE  EndIsTrue'
  OBVIOUS
<1>t. /\ commands \in Nat /\ faults \in Nat /\ commands <= MaxCommands
      /\ lcd_show_count \in Nat \ {0} /\ camera_main_file_count \in Nat
      /\ tasks \in [Tasks -> TaskPlaces] /\ MaxCommands \in Nat
  BY Constants DEF TypeInv, DiskType, TaskType
<1>1. CASE camera_jpgdec_main
  BY <1>1, FreshStart DEF EndIsTrue
<1>2. CASE ~camera_jpgdec_main
  <2>1. Alone /\ LoopEnded /\ NoneSkipped /\ EndIsTrue
    BY <1>2, StaysDisturbed DEF Complete
  <2>2. CASE task_create
    <3>1. /\ UNCHANGED <<commands, shown, lcd_show_count, lcd_show_end, loop,
                         asked, camera_main_file_count>>
          /\ faults' \in {faults, faults + 1}
          /\ pc = "create" /\ pc' = "while"
      BY <2>2 DEF task_create, runVars, diskVars, Fault
    <3>2. commands \in Tasks
      BY <1>t, <3>1 DEF Tasks, TypeInv, TaskType
    <3>3. tasks'[commands] \in {tasks[commands], "created"}
      BY <1>t, <2>2, <3>2 DEF task_create
    <3> QED
      BY <2>1, <3>1, <3>3
      DEF EndIsTrue, LoopEnded, Begun, WaitPlaces, LoopPlaces
  <2>3. CASE task_delete
    BY <2>3 DEF task_delete, EndIsTrue, WaitPlaces, LoopPlaces
  <2>4. ASSUME NEW t \in Tasks, TaskStep(t) PROVE EndIsTrue'
    <3>1. t = commands /\ commands # 0 /\ commands \in Tasks
      BY <2>1, <2>4, OwnTask
    <3>2. UNCHANGED <<pc, commands, asked, loop, camera_main_file_count>>
          /\ faults' \in {faults, faults + 1}
      BY <2>4
      DEF TaskStep, ShowBegins, ShowLooks, jpeg_decode, ShowChecks,
          ShowCounts, CommandKeeps, runVars, ownVars, diskVars, Fault
    <3>3. CASE ShowBegins(t)
      BY <3>3 DEF ShowBegins, EndIsTrue
    <3>4. CASE ShowLooks(t) \/ jpeg_decode(t) \/ ShowCounts(t)
      <4>1. Begun /\ tasks[commands] # "gone" /\ lcd_show_end' = lcd_show_end
        BY <3>1, <3>4 DEF ShowLooks, jpeg_decode, ShowCounts, Begun
      <4> QED
        BY <2>1, <3>2, <4>1 DEF EndIsTrue
    <3>5. CASE ShowChecks(t)
      <4>1. /\ tasks[commands] = "check" /\ Begun
            /\ UNCHANGED <<shown, lcd_show_count, faults>>
        BY <3>1, <3>5 DEF ShowChecks, Begun
      <4>2. CASE LastShown /\ tasks' = [tasks EXCEPT ![t] = "gone"]
        <5>1. tasks'[commands] = "gone"
          BY <1>t, <3>1, <4>2
        <5>2. lcd_show_count = camera_main_file_count /\ loop > INT_MAX
          BY <1>t, <2>1, <4>1, <4>2 DEF LastShown, LoopNegative, Alone
        <5>3. faults = 0 => Len(shown) = lcd_show_count
          BY <2>1, <4>1 DEF NoneSkipped
        <5> QED
          BY <3>2, <4>1, <5>1, <5>2, <5>3 DEF EndIsTrue
      <4>3. CASE UNCHANGED lcd_show_end
        BY <2>1, <3>2, <4>1, <4>3 DEF EndIsTrue
      <4> QED
        BY <3>5, <4>2, <4>3 DEF ShowChecks
    <3> QED
      BY <2>4, <3>3, <3>4, <3>5 DEF TaskStep
  <2>5. CASE /\ ~task_create /\ ~task_delete
             /\ ~(\E t \in Tasks : TaskStep(t))
    <3>1. /\ UNCHANGED <<commands, tasks, lcd_show_count, shown, lcd_show_end>>
          /\ faults' \in {faults, faults + 1}
      BY <1>2, <2>5, OtherTasks
    <3>2. /\ asked' = asked
          /\ pc' \in WaitPlaces => pc \in WaitPlaces \cup {"takepict_start"}
          /\ \/ UNCHANGED <<loop, camera_main_file_count>>
             \/ pc \in LoopPlaces
      BY <1>2, <2>5
      DEF Next, MainStep, vars, video_initialize, open, camera_prepare,
          TAKEPICT_START, WhileLoop, DQBUF, write_file_open,
          write_file_close, QBUF, TAKEPICT_STOP, WaitShowEnd,
          errout_with_buffer, errout_with_video_init, Capture, ownVars,
          runVars, diskVars, WaitPlaces, LoopPlaces
    <3>3. pc = "takepict_start" => ~Begun
      BY <1>t, <2>1 DEF Alone, Begun, NoTask
    <3> SUFFICES ASSUME asked' <= INT_MAX, Begun', lcd_show_end',
                        pc' \in WaitPlaces
                 PROVE  /\ loop' > INT_MAX /\ tasks'[commands'] = "gone"
                        /\ lcd_show_count' = camera_main_file_count'
                        /\ faults' = 0 => Len(shown') = camera_main_file_count'
      BY DEF EndIsTrue
    <3>4. asked <= INT_MAX /\ Begun /\ lcd_show_end /\ pc \in WaitPlaces
      BY <3>1, <3>2, <3>3 DEF Begun
    <3>5. /\ loop > INT_MAX /\ tasks[commands] = "gone"
          /\ lcd_show_count = camera_main_file_count
          /\ faults = 0 => Len(shown) = camera_main_file_count
      BY <2>1, <3>4 DEF EndIsTrue
    <3>6. pc \notin LoopPlaces
      BY <2>1, <3>4, <3>5 DEF LoopEnded
    <3> QED
      BY <1>t, <3>1, <3>2, <3>5, <3>6
  <2> QED
    BY <2>2, <2>3, <2>4, <2>5
<1> QED
  BY <1>1, <1>2

(* A task that was not created is neither deleted nor run. *)
LEMMA NextNotCreated ==
    TypeInv /\ NotCreatedYet /\ [Next]_vars => NotCreatedYet'
<1> SUFFICES ASSUME TypeInv, NotCreatedYet, [Next]_vars,
                    ~show_lcd_task_running'
             PROVE  /\ pid' = NoTask
                    /\ commands' # 0 => tasks'[commands'] = "none"
  BY DEF NotCreatedYet
<1>t. /\ commands \in Nat /\ commands <= MaxCommands /\ MaxCommands \in Nat
      /\ tasks \in [Tasks -> TaskPlaces] /\ Tasks = 1 .. MaxCommands
      /\ \A t \in Tasks : t > commands => tasks[t] = "none"
  BY Constants DEF TypeInv, TaskType, Tasks
<1>1. CASE camera_jpgdec_main
  BY <1>1, <1>t DEF camera_jpgdec_main
<1>2. CASE task_create
  BY <1>2 DEF task_create
<1>3. CASE task_delete
  <2>1. UNCHANGED <<commands, pid, show_lcd_task_running>>
    BY <1>3 DEF task_delete, ownVars
  <2>2. pid = NoTask /\ (commands # 0 => tasks[commands] = "none")
    BY <2>1 DEF NotCreatedYet
  <2>3. PICK t \in Alive \cup {NoTask} :
            tasks' = [u \in Tasks |-> IF u = t THEN "gone" ELSE tasks[u]]
    BY <1>3, <2>2 DEF task_delete
  <2> QED
    BY <1>t, <2>1, <2>2, <2>3 DEF Alive, NoTask
<1>4. ASSUME NEW t \in Tasks, TaskStep(t)
      PROVE  /\ pid' = NoTask
             /\ commands' # 0 => tasks'[commands'] = "none"
  <2>1. /\ UNCHANGED <<commands, pid, show_lcd_task_running>>
        /\ tasks[t] # "none"
        /\ \A u \in Tasks : u # t => tasks'[u] = tasks[u]
    BY <1>4, <1>t
    DEF TaskStep, ShowBegins, ShowLooks, jpeg_decode, ShowChecks, ShowCounts,
        CommandKeeps, runVars, ownVars
  <2> QED
    BY <1>t, <2>1 DEF NotCreatedYet
<1>5. CASE /\ ~camera_jpgdec_main /\ ~task_create /\ ~task_delete
           /\ ~(\E t \in Tasks : TaskStep(t))
  BY <1>5, OtherTasks DEF NotCreatedYet
<1> QED
  BY <1>1, <1>2, <1>3, <1>4, <1>5

(* Only a task that has run sets the flag. *)
LEMMA NextFirstFlag ==
    TypeInv /\ NotCreatedYet /\ FirstFlag /\ [Next]_vars => FirstFlag'
<1> SUFFICES ASSUME TypeInv, NotCreatedYet, FirstFlag, [Next]_vars,
                     commands' <= 1, ~Begun'
             PROVE  ~lcd_show_end'
  BY DEF FirstFlag
<1>t. /\ commands \in Nat /\ commands <= MaxCommands /\ MaxCommands \in Nat
      /\ tasks \in [Tasks -> TaskPlaces] /\ Tasks = 1 .. MaxCommands
      /\ \A t \in Tasks : t > commands => tasks[t] = "none"
  BY Constants DEF TypeInv, TaskType, Tasks
<1>1. CASE camera_jpgdec_main
  BY <1>1, <1>t DEF camera_jpgdec_main, FirstFlag, Begun
<1>2. CASE task_create \/ task_delete
  <2>1. UNCHANGED <<commands, lcd_show_end>> /\ pc \in {"create", "delete"}
    BY <1>2 DEF task_create, task_delete, runVars
  <2>2. CASE ~Begun
    BY <2>1, <2>2 DEF FirstFlag
  <2>3. CASE Begun /\ task_delete
    <3>1. commands \in Tasks
      BY <1>t, <2>3 DEF Begun
    <3>2. tasks'[commands] \in {tasks[commands], "gone"}
      BY <2>3, <3>1 DEF task_delete
    <3> QED
      BY <2>1, <2>3, <3>2 DEF Begun
  <2>4. CASE Begun /\ task_create
    <3>1. show_lcd_task_running
      BY <2>4 DEF NotCreatedYet, Begun
    <3>2. tasks' = tasks
      BY <2>4, <3>1 DEF task_create
    <3> QED
      BY <2>1, <2>4, <3>2 DEF Begun
  <2> QED
    BY <1>2, <2>2, <2>3, <2>4
<1>3. ASSUME NEW t \in Tasks, TaskStep(t) PROVE ~lcd_show_end'
  <2>1. commands' = commands /\ tasks[t] # "none"
    BY <1>3
    DEF TaskStep, ShowBegins, ShowLooks, jpeg_decode, ShowChecks, ShowCounts,
        CommandKeeps, runVars
  <2>2. t = commands /\ commands # 0
    BY <1>t, <2>1
  <2>3. CASE ShowBegins(t)
    BY <2>3 DEF ShowBegins
  <2>4. CASE ~ShowBegins(t)
    <3>1. tasks'[commands] \notin {"none", "created"}
      BY <1>3, <1>t, <2>2, <2>4
      DEF TaskStep, ShowLooks, jpeg_decode, ShowChecks, ShowCounts
    <3> QED
      BY <2>1, <2>2, <3>1 DEF Begun
  <2> QED
    BY <2>3, <2>4
<1>4. CASE /\ ~camera_jpgdec_main /\ ~task_create /\ ~task_delete
           /\ ~(\E t \in Tasks : TaskStep(t))
  BY <1>4, OtherTasks DEF FirstFlag, Begun
<1> QED
  BY <1>1, <1>2, <1>3, <1>4

(* The invariant holds before the first command. *)
LEMMA InitTask == Init => TaskInv
<1> SUFFICES ASSUME Init PROVE TaskInv
  OBVIOUS
<1>1. /\ commands = 0 /\ ~Begun /\ ~lcd_show_end /\ shown = <<>>
      /\ camera_main_file_count = 0 /\ pid = NoTask /\ pc = "idle"
      /\ show_lcd_task_running = FALSE /\ buf = NoBuffer
      /\ \A t \in Tasks : tasks[t] = "none"
  BY DEF Init, Begun
<1>2. Len(shown) = 0
  BY <1>1, EmptySeq, Zenon
<1>3. 1 .. camera_main_file_count = {} /\ 1 .. Len(shown) = {}
  BY <1>1, <1>2
<1>4. Alone
  BY <1>1 DEF Alone, LoopPlaces
<1>5. Ordered
  BY <1>1, <1>3
  DEF Ordered, Stored, Fresh, Shown, ToCome, TornNow, NewFrame, NoBuffer
<1>6. Complete
  BY <1>1 DEF Complete, LoopEnded, NoneSkipped, EndIsTrue, LoopPlaces
<1> QED
  BY <1>1, <1>4, <1>5, <1>6 DEF TaskInv, FirstFlag, NotCreatedYet

(* The invariant holds in every state. *)
LEMMA TaskInvariant == Spec => [](TypeInv /\ TaskInv)
<1>1. TypeInv /\ TaskInv /\ [Next]_vars => TaskInv'
  <2> SUFFICES ASSUME TypeInv, TaskInv, [Next]_vars PROVE TaskInv'
    OBVIOUS
  <2>1. NotCreatedYet' /\ FirstFlag'
    BY NextNotCreated, NextFirstFlag DEF TaskInv
  <2>2. ASSUME Undisturbed' PROVE Alone' /\ Ordered' /\ Complete'
    <3>1. Alone' /\ Ordered'
      BY <2>2, NextAlone, NextOrdered DEF TaskInv
    <3>2. NoneSkipped' /\ EndIsTrue'
      BY <2>2, NextNoneSkipped, NextEndIsTrue DEF TaskInv, Complete
    <3>3. LoopEnded'
      <4>1. CASE camera_jpgdec_main
        BY <4>1, Constants
        DEF camera_jpgdec_main, LoopEnded, LoopPlaces, TypeInv, DiskType
      <4>2. CASE ~camera_jpgdec_main
        BY <2>2, <4>2, StaysDisturbed, NextLoopEnded
        DEF TaskInv, Complete, TypeInv
      <4> QED
        BY <4>1, <4>2
    <3> QED
      BY <3>1, <3>2, <3>3 DEF Complete
  <2> QED
    BY <2>1, <2>2 DEF TaskInv
<1> QED
  BY <1>1, InitTask, TypeInvariant, PTL DEF Spec

(* The task shows complete pictures of its own command in the order in     *)
(* which they were taken, for any number of pictures, commands and failing *)
(* calls, unless another task lives or the file numbers have wrapped       *)
(* (write_file, decode_and_show_lcd and the counts they share).            *)
THEOREM ShownAsTaken == Spec => []PicturesInOrder
<1>1. TypeInv /\ TaskInv => PicturesInOrder
  <2> SUFFICES ASSUME TypeInv, Undisturbed, Alone, Ordered
               PROVE  PicturesInOrder
    BY DEF TaskInv, PicturesInOrder, WholeFilesRead, ShownInOrder
  <2>1. WholeFilesRead
    <3> SUFFICES ASSUME NEW t \in Tasks, tasks[t] = "decode"
                 PROVE  lcd_show_filename # writing
      BY DEF WholeFilesRead
    <3>1. t = commands /\ commands # 0
      BY Constants DEF Alone, Tasks
    <3>2. lcd_show_filename = lcd_show_count
          /\ lcd_show_count <= camera_main_file_count
      BY <3>1 DEF Alone, Begun
    <3>3. CASE pc = "fwrite"
      BY <3>2, <3>3 DEF Alone, TypeInv, DiskType, TaskType
    <3>4. CASE pc # "fwrite"
      BY <3>2, <3>4 DEF TypeInv, DiskType, TaskType
    <3> QED
      BY <3>3, <3>4
  <2>2. ShownInOrder
    BY DEF Ordered, Shown, ShownInOrder
  <2> QED
    BY <2>1, <2>2 DEF PicturesInOrder
<1> QED
  BY <1>1, TaskInvariant, PTL

(* When the command stops waiting for lcd_show_end, the last picture has   *)
(* been through the task, but for the cases CompletionIsTrue names (the    *)
(* flag of decode_and_show_lcd and the wait in camera_jpgdec_main).        *)
THEOREM CompletionBelieved == Spec => CompletionIsTrue
<1>1. TypeInv /\ TaskInv /\ [Next]_vars =>
        [pc = "wait_end" /\ pc' = "delete" /\ Undisturbed
         /\ asked <= INT_MAX => AllShown \/ FlagIsOld]_vars
  <2> SUFFICES ASSUME TypeInv, TaskInv, Next, pc = "wait_end", pc' = "delete",
                      Undisturbed, asked <= INT_MAX
               PROVE  AllShown \/ FlagIsOld
    OBVIOUS
  <2>1. lcd_show_end
    BY DEF Next, MainStep, camera_jpgdec_main, video_initialize, open,
           camera_prepare, TAKEPICT_START, WhileLoop, DQBUF,
           write_file_open, write_file_close, QBUF, task_create,
           TAKEPICT_STOP, WaitShowEnd, task_delete, errout_with_buffer,
           errout_with_video_init, Capture, TaskStep, ShowBegins, ShowLooks,
           jpeg_decode, ShowChecks, ShowCounts, CommandKeeps
  <2>2. Alone /\ EndIsTrue /\ FirstFlag
    BY DEF TaskInv, Complete
  <2>3. commands \in Nat /\ commands # 0 /\ camera_main_file_count \in Nat
        /\ faults \in Nat
    BY Constants DEF TypeInv, TaskType, DiskType
  <2>4. CASE Begun
    BY <2>1, <2>2, <2>4 DEF EndIsTrue, WaitPlaces, AllShown
  <2>5. CASE ~Begun
    <3>1. commands > 1
      BY <2>1, <2>2, <2>3, <2>5 DEF FirstFlag
    <3>2. pid = NoTask \/ tasks[pid] = "created"
      BY <2>2, <2>3, <2>5 DEF Alone, Begun
    <3> QED
      BY <3>1, <3>2 DEF FlagIsOld
  <2> QED
    BY <2>4, <2>5
<1> QED
  BY <1>1, TaskInvariant, PTL DEF Spec, CompletionIsTrue
=============================================================================

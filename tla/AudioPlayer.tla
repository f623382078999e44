---------------------------- MODULE AudioPlayer -----------------------------
(***************************************************************************)
(* The audio player of the combination test (audio_player.cxx, built with  *)
(* a playlist and its own memory libraries; the players under sdk/audio    *)
(* have the same structure).  A task runs player_main again and again.     *)
(* player_main brings the audio subsystem up, plays files and takes it     *)
(* down, with one label per thing to undo.  While a file plays, the task   *)
(* fills a FIFO with elements read from the file and the decoder, in the   *)
(* DSP, empties it.  The audio subsystem, the FIFO library, the amplifier, *)
(* the playlist and the file system are external.  Sizes are counted in    *)
(* units that divide an element.                                           *)
(***************************************************************************)
EXTENDS Integers, Sequences, FiniteSets

CONSTANTS Sizes,        \* the sizes of the files
          ElementSize,  \* bound: FIFO_ELEMENT_SIZE (3840 bytes)
          ElementNum,   \* bound: FIFO_ELEMENT_NUM (10)
          PushMax,      \* bound: PLAYER_FIFO_PUSH_NUM_MAX (5)
          FileNum,      \* bound: PLAYER_PLAY_FILE_NUM (5)
          PlayTime,     \* bound: PLAYER_PLAY_TIME (10 s)
          MaxRuns,      \* bound: runs of player_main
          MaxFaults     \* bound: calls that fail

ASSUME AudioConstants ==
    /\ Sizes \subseteq Nat
    /\ {ElementSize, ElementNum, PushMax, FileNum} \subseteq Nat \ {0}
    /\ ElementNum > 1            \* app_first_push_simple_fifo pushes some
    /\ {PlayTime, MaxRuns, MaxFaults} \subseteq Nat

VARIABLES hires_mode,      \* the player mode of the build
          pc, i, clk_mode,
          track,           \* the file that was opened: its size, its mode
          size,            \* s_player_info.file.size: what is left to push
          fd, pos,         \* the file's descriptor and its position
          fifo,            \* what the FIFO holds: <<file, offset>> each
          push,            \* elements the running loop still has to push
          time,            \* seconds since app_play_process started
          mng,             \* the audio manager
          amp,             \* the external amplifier
          res,             \* what player_main has to give back
          exit, runs, faults,
          played, opened, causes, full       \* history

fileVars == <<track, size, fd, pos, fifo, opened, full>>
upVars == <<mng, amp, res>>
loopVars == <<i, clk_mode, hires_mode>>
playVars == <<push, time, played>>
vars == <<pc, loopVars, fileVars, playVars, upVars, exit, runs, faults, causes>>

FIFO_QUEUE_SIZE == ElementSize * ElementNum
Features == {"manager", "player", "mixer", "renderer"}
Nothing == [libraries |-> FALSE, audio |-> {}, dir |-> FALSE, lock |-> FALSE,
            playlist |-> FALSE]
NoTrack == [size |-> 0, hires |-> FALSE]

Init ==
    /\ hires_mode \in BOOLEAN
    /\ pc = "returned" /\ i = 0 /\ clk_mode = "none"
    /\ track = NoTrack /\ size = 0 /\ fd = "closed" /\ pos = 0 /\ fifo = <<>>
    /\ push = 0 /\ time = 0 /\ mng = "off" /\ amp = "mute" /\ res = Nothing
    /\ exit = 0 /\ runs = 0 /\ faults = 0
    /\ played = <<>> /\ opened = 0 /\ causes = {} /\ full = FALSE

(* A call goes well and the program goes on, or it fails and the program
   jumps; why it jumped is remembered. *)
Ok(to) == pc' = to /\ UNCHANGED <<faults, causes>>
Fails(to) == /\ faults < MaxFaults /\ faults' = faults + 1
             /\ causes' = causes \cup {pc} /\ pc' = to

(* return 1: whatever is held stays held. *)
Return1 == /\ Fails("returned") /\ exit' = 1
           /\ UNCHANGED <<loopVars, fileVars, playVars, upVars, runs>>

Keeps(at) == pc = at /\ UNCHANGED <<exit, runs>>

-----------------------------------------------------------------------------
(* Bringing the subsystem up. *)

player_main ==
    /\ pc = "returned" /\ runs < MaxRuns
    /\ runs' = runs + 1 /\ clk_mode' = "none" /\ i' = 0
    /\ Ok("init_libraries")
    /\ UNCHANGED <<hires_mode, fileVars, playVars, upVars, exit>>

(* Libraries a failed run left initialized may refuse a second time. *)
app_init_libraries ==
    \/ /\ Keeps("init_libraries") /\ Ok("create")
       /\ res' = [res EXCEPT !.libraries = TRUE]
       /\ UNCHANGED <<loopVars, fileVars, playVars, mng, amp>>
    \/ pc = "init_libraries" /\ Return1
    \/ /\ pc = "init_libraries" /\ res.libraries
       /\ Ok("returned") /\ exit' = 1
       /\ UNCHANGED <<loopVars, fileVars, playVars, upVars, runs>>

(* The manager first, then the player, the mixer and the renderer, each of
   which may fail.  What has been made by then is not deleted. *)
app_create_audio_sub_system ==
    /\ Keeps("create") /\ mng' = "off"
    /\ \/ Ok("open_dir") /\ res' = [res EXCEPT !.audio = Features]
       \/ /\ Fails("finalize")
          /\ \E made \in {{"manager"}, {"manager", "player"},
                          {"manager", "player", "mixer"}} :
                 res' = [res EXCEPT !.audio = @ \cup made]
    /\ UNCHANGED <<loopVars, fileVars, playVars, amp>>

app_open_contents_dir ==
    /\ Keeps("open_dir")
    /\ \/ Ok("power_on") /\ res' = [res EXCEPT !.dir = TRUE, !.lock = TRUE]
       \/ Fails("deact") /\ UNCHANGED res
    /\ UNCHANGED <<loopVars, fileVars, playVars, mng, amp>>

(* A failure jumps behind the release of the frequency lock. *)
app_power_on ==
    /\ Keeps("power_on")
    /\ \/ Ok("open_playlist") /\ mng' = "ready"
       \/ Fails("close_dir") /\ UNCHANGED mng
    /\ UNCHANGED <<loopVars, fileVars, playVars, amp, res>>

(* A playlist that is still open is an error, and the way out closes it. *)
app_open_playlist ==
    /\ Keeps("open_playlist")
    /\ \/ ~res.playlist /\ Ok("init_fifo")
       \/ ~res.playlist /\ Fails("errout_ready")
       \/ /\ res.playlist /\ pc' = "errout_ready"
          /\ causes' = causes \cup {"open_playlist"} /\ UNCHANGED faults
    /\ res' = [res EXCEPT !.playlist = TRUE]
    /\ UNCHANGED <<loopVars, fileVars, playVars, mng, amp>>

app_init_simple_fifo ==
    /\ Keeps("init_fifo")
    /\ \/ Ok("output_select") /\ fifo' = <<>>
       \/ Fails("errout_ready") /\ UNCHANGED fifo
    /\ UNCHANGED <<loopVars, track, size, fd, pos, opened, full,
                   playVars, upVars>>

MutantOutputSelectLabel ==
    /\ Keeps("output_select")
    /\ Ok("next_file") \/ Fails("close_dir")
    /\ UNCHANGED <<loopVars, fileVars, playVars, upVars>>

app_init_output_select ==
    /\ Keeps("output_select")
    /\ Ok("next_file") \/ Fails("errout_ready")
    /\ UNCHANGED <<loopVars, fileVars, playVars, upVars>>

BringUp == app_init_libraries \/ app_create_audio_sub_system
           \/ app_open_contents_dir \/ app_power_on \/ app_open_playlist
           \/ app_init_simple_fifo \/ app_init_output_select

-----------------------------------------------------------------------------
(* The FIFO. *)

Vacant == FIFO_QUEUE_SIZE - Len(fifo)

MutantPush ==
    LET n == IF track.size - pos < ElementSize THEN track.size - pos
                                               ELSE ElementSize
    IN  /\ pos' = pos + n
        /\ \/ n # 0 /\ n <= Vacant
              /\ fifo' = fifo \o [k \in 1 .. n |-> <<opened, pos + k>>]
              /\ size' = size - ElementSize /\ UNCHANGED full
           \/ (n = 0 \/ n > Vacant) /\ full' = (full \/ n # 0)
              /\ UNCHANGED <<fifo, size>>

(* read, which moves the descriptor on, then Offer, then the account of what
   is left.  An Offer of nothing is refused or ends the file: the loops stop
   either way. *)
app_push_simple_fifo ==
    LET n == IF track.size - pos < ElementSize THEN track.size - pos
                                               ELSE ElementSize
    IN  /\ pos' = pos + n
        /\ \/ n # 0 /\ n <= Vacant
              /\ fifo' = fifo \o [k \in 1 .. n |-> <<opened, pos + k>>]
              /\ size' = size - n /\ UNCHANGED full
           \/ (n = 0 \/ n > Vacant) /\ full' = (full \/ n # 0)
              /\ UNCHANGED <<fifo, size>>

(* FIFO_RESULT_OK: there may be more. *)
PushOk == size' # size /\ size' # 0

(* The next track of the playlist, which repeats.  A file that cannot be
   opened, or is empty or cannot be looked at, ends the run; so does a failing
   read, after the file has been closed. *)
app_open_next_play_file ==
    /\ Keeps("next_file") /\ i < FileNum
    /\ \/ /\ \E s \in Sizes \ {0}, h \in BOOLEAN :
                 track' = [size |-> s, hires |-> h] /\ size' = s
          /\ fd' = "open" /\ pos' = 0 /\ opened' = opened + 1
          /\ played' = <<>> /\ push' = ElementNum - 1
          /\ Ok("first_push")
       \/ /\ \/ Fails("errout_ready")
             \/ /\ 0 \in Sizes /\ pc' = "errout_ready"
                /\ causes' = causes \cup {"next_file"} /\ UNCHANGED faults
          /\ UNCHANGED <<track, size, fd, pos, opened, played, push>>
    /\ UNCHANGED <<loopVars, fifo, full, time, upVars>>

app_first_push_simple_fifo ==
    /\ Keeps("first_push")
    /\ \/ /\ app_push_simple_fifo /\ push' = push - 1
          /\ Ok(IF PushOk /\ push' > 0 THEN "first_push" ELSE "clock")
          /\ UNCHANGED fd
       \/ /\ Fails("errout_ready") /\ fd' = "closed" /\ fifo' = <<>>
          /\ UNCHANGED <<pos, size, full, push>>
    /\ UNCHANGED <<loopVars, track, opened, time, played, upVars>>

MutantPushCount == PushMax

(* Up to PushMax elements, and only as many as there was room for when it was
   looked at; the decoder can only make more room. *)
PushCount == IF Vacant \div ElementSize >= PushMax THEN PushMax
                                                   ELSE Vacant \div ElementSize

app_refill_simple_fifo ==
    /\ Keeps("refill")
    /\ \/ /\ app_push_simple_fifo /\ push' = push - 1
          /\ Ok(IF ~PushOk THEN "stop"
                ELSE IF push' > 0 THEN "refill" ELSE "time")
       \/ Fails("stop") /\ UNCHANGED <<pos, size, fifo, full, push>>
    /\ UNCHANGED <<loopVars, track, fd, opened, time, played, upVars>>

(* app_play_process looks at the FIFO every 2 ms until the time is over. *)
app_play_process ==
    /\ Keeps("process")
    /\ \/ /\ Vacant > ElementSize /\ push' = PushCount /\ Ok("refill")
       \/ /\ Vacant <= ElementSize /\ Ok("time") /\ UNCHANGED push
    /\ UNCHANGED <<loopVars, fileVars, time, played, upVars>>

TimeLeft ==
    /\ Keeps("time") /\ Ok(IF time < PlayTime THEN "process" ELSE "stop")
    /\ UNCHANGED <<loopVars, fileVars, playVars, upVars>>

Playing == app_open_next_play_file \/ app_first_push_simple_fifo
           \/ app_refill_simple_fifo \/ app_play_process \/ TimeLeft

-----------------------------------------------------------------------------
(* External: the decoder, and the clock. *)

Decode ==
    /\ mng = "playing" /\ fifo # <<>>
    /\ played' = Append(played, Head(fifo)) /\ fifo' = Tail(fifo)
    /\ UNCHANGED <<pc, loopVars, track, size, fd, pos, opened, full,
                   push, time, upVars, exit, runs, faults, causes>>

Tick ==
    /\ pc \in {"process", "refill", "time"} /\ time < PlayTime
    /\ time' = time + 1
    /\ UNCHANGED <<pc, loopVars, fileVars, push, played, upVars, exit, runs,
                   faults, causes>>

-----------------------------------------------------------------------------
(* Starting and stopping a file. *)

(* close, and the FIFO is cleared; when close fails it is not, and the file
   stays open. *)
app_close_play_file == fd' = "closed" /\ fifo' = <<>>

CloseFails == /\ faults < MaxFaults /\ faults' = faults + 1
              /\ causes' = causes \cup {pc, "close"} /\ UNCHANGED <<fd, fifo>>

(* A command fails, and so does closing the file afterwards. *)
BothFail(to) == /\ faults + 1 < MaxFaults /\ faults' = faults + 2
                /\ causes' = causes \cup {pc, "close"} /\ pc' = to
                /\ UNCHANGED <<fd, fifo>>

(* In normal mode a Hi-Res file is closed and passed over; whether it could be
   closed is not looked at.  The clock is set
   when it changes; the manager has to be ready for that. *)
SelectClock ==
    LET cur == IF track.hires THEN "hires" ELSE "normal"
    IN  /\ Keeps("clock")
        /\ \/ /\ track.hires /\ ~hires_mode
              /\ \/ app_close_play_file /\ Ok("next_file")
                 \/ CloseFails /\ pc' = "next_file"
              /\ i' = i + 1 /\ UNCHANGED clk_mode
           \/ /\ ~track.hires \/ hires_mode
              /\ clk_mode' = cur
              /\ Ok(IF clk_mode = cur THEN "start"
                    ELSE IF mng = "ready" THEN "set_clkmode" ELSE "amp_mute")
              /\ UNCHANGED <<i, fd, fifo>>
        /\ UNCHANGED <<hires_mode, track, size, pos, opened, full,
                       playVars, upVars>>

(* A failure here leaves the file open. *)
Abandons == Fails("errout_ready")

AmpMute ==
    /\ Keeps("amp_mute")
    /\ \/ Ok("set_ready") /\ amp' = "mute"
       \/ Abandons /\ UNCHANGED amp
    /\ UNCHANGED <<loopVars, fileVars, playVars, mng, res>>

app_set_ready ==
    /\ Keeps("set_ready")
    /\ \/ Ok("set_clkmode") /\ mng' = "ready"
       \/ Abandons /\ UNCHANGED mng
    /\ UNCHANGED <<loopVars, fileVars, playVars, amp, res>>

app_set_clkmode ==
    /\ Keeps("set_clkmode")
    /\ Ok("set_player_status") \/ Abandons
    /\ UNCHANGED <<loopVars, fileVars, playVars, upVars>>

app_set_player_status ==
    /\ Keeps("set_player_status")
    /\ \/ Ok("amp_live") /\ mng' = "player"
       \/ Abandons /\ UNCHANGED mng
    /\ UNCHANGED <<loopVars, fileVars, playVars, amp, res>>

(* After app_set_volume, whose result is not looked at. *)
AmpLive ==
    /\ Keeps("amp_live")
    /\ \/ Ok("start") /\ amp' = "live"
       \/ Abandons /\ UNCHANGED amp
    /\ UNCHANGED <<loopVars, fileVars, playVars, mng, res>>

MutantInitOnly ==
    /\ Keeps("start") /\ Ok("process") /\ time' = 0
    /\ UNCHANGED <<loopVars, fileVars, push, played, upVars>>

(* app_init_player and app_play_player; when one fails the file is closed,
   and again nobody looks whether it could be. *)
app_start ==
    /\ Keeps("start")
    /\ \/ /\ Ok("process") /\ mng' = "playing" /\ time' = 0
          /\ UNCHANGED <<fd, fifo>>
       \/ Fails("errout_start") /\ app_close_play_file /\ UNCHANGED <<mng, time>>
       \/ BothFail("errout_start") /\ UNCHANGED <<mng, time>>
    /\ UNCHANGED <<loopVars, track, size, pos, opened, full, push,
                   played, amp, res>>

(* The file is closed whether or not the player stops; a failure of either
   ends the run on the spot.  AS_STOPPLAYER_ESEND when everything has been
   pushed: the answer comes when the decoder has nothing left.  Otherwise
   AS_STOPPLAYER_NORMAL. *)
EsEnd == size = 0

MutantCloseBeforeStop ==
    /\ pc = "stop"
    /\ mng' = "player" /\ app_close_play_file
    /\ i' = i + 1 /\ Ok("next_file") /\ UNCHANGED exit
    /\ UNCHANGED <<clk_mode, hires_mode, track, size, pos, opened, full,
                   playVars, amp, res, runs>>

app_stop ==
    /\ pc = "stop"
    /\ \/ /\ EsEnd => fifo = <<>>
          /\ mng' = "player" /\ app_close_play_file
          /\ i' = i + 1 /\ Ok("next_file") /\ UNCHANGED exit
       \/ /\ EsEnd => fifo = <<>>                \* close fails: return 1
          /\ mng' = "player" /\ CloseFails
          /\ pc' = "returned" /\ exit' = 1 /\ UNCHANGED i
       \/ /\ Fails("returned") /\ exit' = 1     \* the player does not stop
          /\ app_close_play_file /\ UNCHANGED <<i, mng>>
       \/ BothFail("returned") /\ exit' = 1 /\ UNCHANGED <<i, mng>>
    /\ UNCHANGED <<clk_mode, hires_mode, track, size, pos, opened, full,
                   playVars, amp, res, runs>>

LoopEnds ==
    /\ Keeps("next_file") /\ i = FileNum /\ Ok("errout_start")
    /\ UNCHANGED <<loopVars, fileVars, playVars, upVars>>

OneFile == SelectClock \/ AmpMute \/ app_set_ready \/ app_set_clkmode
           \/ app_set_player_status \/ AmpLive \/ app_start \/ app_stop
           \/ LoopEnds

-----------------------------------------------------------------------------
(* Taking the subsystem down. *)

errout_start ==
    \/ /\ Keeps("errout_start") /\ Ok("errout_ready") /\ amp' = "mute"
       /\ UNCHANGED <<loopVars, fileVars, playVars, mng, res>>
    \/ pc = "errout_start" /\ Return1

errout_ready ==
    \/ /\ Keeps("errout_ready") /\ Ok("power_off") /\ mng' = "ready"
       /\ UNCHANGED <<loopVars, fileVars, playVars, amp, res>>
    \/ pc = "errout_ready" /\ mng # "ready" /\ Return1

app_power_off ==
    \/ /\ Keeps("power_off") /\ Ok("close_playlist") /\ mng' = "off"
       /\ res' = [res EXCEPT !.lock = FALSE]
       /\ UNCHANGED <<loopVars, fileVars, playVars, amp>>
    \/ pc = "power_off" /\ Return1

(* It cannot fail: whoever gets here has opened the playlist. *)
app_close_playlist ==
    /\ Keeps("close_playlist") /\ res.playlist
    /\ Ok("close_dir") /\ res' = [res EXCEPT !.playlist = FALSE]
    /\ UNCHANGED <<loopVars, fileVars, playVars, mng, amp>>

app_close_contents_dir ==
    /\ Keeps("close_dir") /\ Ok("deact") /\ res' = [res EXCEPT !.dir = FALSE]
    /\ UNCHANGED <<loopVars, fileVars, playVars, mng, amp>>

app_deact_audio_sub_system ==
    /\ Keeps("deact") /\ Ok("finalize") /\ res' = [res EXCEPT !.audio = {}]
    /\ UNCHANGED <<loopVars, fileVars, playVars, mng, amp>>

app_finalize_libraries ==
    \/ /\ pc = "finalize" /\ Ok("returned") /\ exit' = 0
       /\ res' = [res EXCEPT !.libraries = FALSE]
       /\ UNCHANGED <<loopVars, fileVars, playVars, mng, amp, runs>>
    \/ pc = "finalize" /\ Return1

TakeDown == errout_start \/ errout_ready \/ app_power_off
            \/ app_close_playlist \/ app_close_contents_dir
            \/ app_deact_audio_sub_system \/ app_finalize_libraries

PlayerStep == BringUp \/ Playing \/ OneFile \/ TakeDown

Next == player_main \/ PlayerStep \/ Decode \/ Tick

Spec == Init /\ [][Next]_vars

(* The task is scheduled, the clock runs, the subsystem answers its commands
   and the decoder takes what the FIFO holds.  No call is obliged to fail. *)
FairSpec == /\ Spec /\ WF_vars(PlayerStep /\ faults' = faults)
            /\ WF_vars(Decode) /\ WF_vars(Tick)

-----------------------------------------------------------------------------
(* Type correctness; the FIFO never holds more than its area. *)
TypeOK ==
    /\ i \in 0 .. FileNum /\ clk_mode \in {"none", "normal", "hires"}
    /\ size \in 0 .. track.size /\ pos \in 0 .. track.size
    /\ fd \in {"open", "closed"} /\ Len(fifo) <= FIFO_QUEUE_SIZE
    /\ mng \in {"off", "ready", "player", "playing"}
    /\ amp \in {"mute", "live"} /\ res.audio \subseteq Features
    /\ time \in 0 .. PlayTime /\ push \in 0 .. ElementNum + PushMax

(* The places at which a failure makes player_main give up with `return 1'. *)
Return1Places == {"init_libraries", "stop", "errout_start", "errout_ready",
                  "power_off", "finalize"}

(* What the decoder gets is the opened file from its first unit on, without a
   gap, a repetition or a rest of another file, although it empties the FIFO
   while the task fills it.  A close that fails leaves the FIFO uncleared for
   the next file. *)
PlayedInOrder ==
    pc \in {"first_push", "clock", "amp_mute", "set_ready", "set_clkmode",
           "set_player_status", "amp_live", "start", "process", "refill",
           "time", "stop"} /\ "close" \notin causes =>
        \A k \in 1 .. Len(played \o fifo) :
            (played \o fifo)[k] = <<opened, k>>

(* An element that has been read always fits: the room that was seen can only
   have grown. *)
FifoNeverFull == full => "close" \in causes

(* The FIFO carries the file from task to decoder unharmed: nothing is lost,
   repeated or left over, and nothing is read that does not fit. *)
FifoIsFaithful == PlayedInOrder /\ FifoNeverFull

(* Playing stops only because the time is over, the whole file has been
   pushed, or it could not be read. *)
StoppedForCause ==
    [][pc # "stop" /\ pc' = "stop" =>
           time >= PlayTime \/ size' = 0 \/ "refill" \in causes'
           \/ "close" \in causes']_vars

(* When the player is stopped with AS_STOPPLAYER_ESEND the whole file has
   been decoded. *)
EndIsHeard ==
    [][pc = "stop" /\ pc' = "next_file" /\ EsEnd /\ "close" \notin causes =>
           Len(played) = track.size]_vars

(* A file is stopped at its end, or for another cause, and an end that is
   announced to the player has been decoded. *)
StopsAtItsEnd == StoppedForCause /\ EndIsHeard

(* A run that returns 0, when no earlier one returned 1, has given everything
   back but:
     - the features made before one of them could not be made (line 1076);
     - the frequency lock, when power-on failed (1106);
     - the file opened last, when setting the clock up for it failed (1211 to
       1257), or when the close of a Hi-Res file that is passed over (1181) or
       of one the player did not start on (973, 982) failed: there the result
       of the close is dropped;
     - the amplifier, which stays live when the next file could not be opened
       or first read (1154), or the amplifier not be muted (1211).
   In every other case nothing stays behind, whatever fails. *)
LeavesNothingBehind ==
    pc = "returned" /\ exit = 0 /\ causes \cap Return1Places = {} =>
        /\ ~res.libraries /\ ~res.dir /\ ~res.playlist /\ mng = "off"
        /\ res.audio # {} => "create" \in causes
        /\ res.lock => "power_on" \in causes
        /\ fd = "open" => causes \cap {"amp_mute", "set_ready", "set_clkmode",
                                      "set_player_status", "amp_live",
                                      "close"} # {}
        /\ amp = "live" => causes \cap {"next_file", "first_push",
                                       "amp_mute"} # {}

(* Every run of player_main ends, and the task can start the next. *)
RunEnds == pc = "init_libraries" ~> pc = "returned"
=============================================================================

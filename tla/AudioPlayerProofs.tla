------------------------- MODULE AudioPlayerProofs --------------------------
(***************************************************************************)
(* Proofs about AudioPlayer, for every size of the files, the FIFO and its *)
(* elements: the types, what player_main gives back when it returns, and   *)
(* that the FIFO brings a file to the decoder unharmed.                    *)
(***************************************************************************)
EXTENDS AudioPlayer, SequenceTheorems, TLAPS

(***************************************************************************)
(* The type invariant.                                                     *)
(***************************************************************************)
(* The places at which a file is open and on its way to the decoder. *)
FilePlaces == {"first_push", "clock", "amp_mute", "set_ready", "set_clkmode",
               "set_player_status", "amp_live", "start", "process", "refill",
               "time", "stop"}

Places == FilePlaces \cup
    {"returned", "init_libraries", "create", "open_dir", "power_on",
     "open_playlist", "init_fifo", "output_select", "next_file",
     "errout_start", "errout_ready", "power_off", "close_playlist",
     "close_dir", "deact", "finalize"}

Units == Nat \X Nat

(* What the variables can be, history included, and where the counters     *)
(* stand when a loop is entered.                                           *)
FileType ==
    /\ track \in [size: Nat, hires: BOOLEAN]
    /\ size \in 0 .. track.size /\ pos \in 0 .. track.size
    /\ track.size <= size + pos
    /\ fd \in {"open", "closed"} /\ opened \in Nat
    /\ fifo \in Seq(Units) /\ Len(fifo) <= FIFO_QUEUE_SIZE
    /\ played \in Seq(Units)

LoopType ==
    /\ pc \in Places /\ hires_mode \in BOOLEAN
    /\ i \in 0 .. FileNum /\ clk_mode \in {"none", "normal", "hires"}
    /\ push \in 0 .. ElementNum + PushMax /\ time \in 0 .. PlayTime
    /\ faults \in Nat
    /\ pc \in FilePlaces => i < FileNum
    /\ pc \in {"first_push", "refill"} => push > 0

UpType ==
    /\ mng \in {"off", "ready", "player", "playing"}
    /\ amp \in {"mute", "live"}
    /\ res \in [libraries: BOOLEAN, audio: SUBSET Features, dir: BOOLEAN,
                lock: BOOLEAN, playlist: BOOLEAN]

TypeInv == FileType /\ LoopType /\ UpType

(* The constants, one by one. *)
LEMMA Constants ==
    /\ Sizes \subseteq Nat
    /\ ElementSize \in Nat /\ ElementNum \in Nat /\ PushMax \in Nat
    /\ FileNum \in Nat /\ PlayTime \in Nat
    /\ ElementSize > 0 /\ ElementNum > 1 /\ PushMax > 0 /\ FileNum > 0
  BY AudioConstants

(* Room for p elements is room for one and p - 1 more. *)
LEMMA Rooms ==
    ASSUME NEW e \in Nat \ {0}, NEW p \in Nat \ {0}
    PROVE  /\ p * e \in Nat
           /\ (p - 1) * e = p * e - e
           /\ e <= p * e
<1>1. p * e \in Nat /\ (p - 1) * e \in Nat
  OBVIOUS
<1>2. (p - 1) * e = p * e - e
  OBVIOUS
<1> QED
  BY <1>1, <1>2

(* As many elements as fit into v fit into v. *)
LEMMA Fitting ==
    ASSUME NEW e \in Nat \ {0}, NEW v \in Nat, NEW m \in Nat, m <= v \div e
    PROVE  m * e <= v
<1>1. PICK q \in Nat : q = v \div e
  OBVIOUS
<1>2. q * e <= v
  BY <1>1
<1>3. m * e <= q * e
  BY <1>1
<1> QED
  BY <1>2, <1>3

(* The elements pushed at once: at least one, and they all fit. *)
LEMMA PushCountFits ==
    ASSUME FileType, Vacant > ElementSize
    PROVE  PushCount \in 1 .. PushMax /\ PushCount * ElementSize <= Vacant
<1>1. FIFO_QUEUE_SIZE \in Nat /\ Vacant \in Nat
  BY Constants DEF FIFO_QUEUE_SIZE, Vacant, FileType
<1>2. Vacant \div ElementSize \in Nat /\ Vacant \div ElementSize >= 1
  BY <1>1, Constants
<1>3. PushCount \in 1 .. PushMax /\ PushCount <= Vacant \div ElementSize
  BY <1>2, Constants DEF PushCount
<1> QED
  BY <1>1, <1>3, Fitting, Constants

(* What one push does: n units go from the file to the FIFO, or, when      *)
(* there are none or no room, only the descriptor moves.                   *)
LEMMA PushEffect ==
    ASSUME FileType, app_push_simple_fifo
    PROVE  \E n \in 0 .. ElementSize :
              /\ pos' = pos + n /\ pos + n <= track.size
              /\ n = 0 => pos = track.size
              /\ \/ /\ n # 0 /\ n <= Vacant
                    /\ fifo' = fifo \o [k \in 1 .. n |-> <<opened, pos + k>>]
                    /\ fifo' \in Seq(Units) /\ Len(fifo') = Len(fifo) + n
                    /\ size' = size - n /\ UNCHANGED full
                 \/ /\ n = 0 \/ n > Vacant
                    /\ full' = (full \/ n # 0) /\ UNCHANGED <<fifo, size>>
<1> DEFINE n == IF track.size - pos < ElementSize THEN track.size - pos
                                                  ELSE ElementSize
<1>1. /\ n \in 0 .. ElementSize /\ pos + n <= track.size
      /\ n = 0 => pos = track.size
  BY Constants DEF FileType
<1>2. /\ pos' = pos + n
      /\ \/ n # 0 /\ n <= Vacant
            /\ fifo' = fifo \o [k \in 1 .. n |-> <<opened, pos + k>>]
            /\ size' = size - n /\ UNCHANGED full
         \/ (n = 0 \/ n > Vacant) /\ full' = (full \/ n # 0)
            /\ UNCHANGED <<fifo, size>>
  BY DEF app_push_simple_fifo
<1> DEFINE chunk == [k \in 1 .. n |-> <<opened, pos + k>>]
<1>3. chunk \in Seq(Units) /\ Len(chunk) = n
  <2>1. pos \in Nat /\ opened \in Nat /\ n \in Nat
    BY <1>1, Constants DEF FileType
  <2> HIDE DEF n
  <2>2. \A k \in 1 .. n : <<opened, pos + k>> \in Units
    BY <2>1 DEF Units
  <2>3. chunk \in [1 .. n -> Units]
    BY <2>2
  <2> HIDE DEF chunk
  <2>4. chunk \in Seq(Units)
    BY <2>1, <2>3, SeqDef
  <2>5. Len(chunk) \in Nat /\ 1 .. Len(chunk) = 1 .. n
    BY <2>3, <2>4, LenProperties
  <2> QED
    BY <2>1, <2>4, <2>5
<1>4. fifo \o chunk \in Seq(Units) /\ Len(fifo \o chunk) = Len(fifo) + n
  <2> HIDE DEF chunk, n
  <2> QED
    BY <1>3, ConcatProperties DEF FileType
<1> HIDE DEF n
<1> QED
  BY <1>1, <1>2, <1>4

(* The invariant holds before the first run. *)
LEMMA InitType == Init => TypeInv
<1> SUFFICES ASSUME Init PROVE TypeInv
  OBVIOUS
<1>1. FIFO_QUEUE_SIZE \in Nat
  BY Constants DEF FIFO_QUEUE_SIZE
<1>2. <<>> \in Seq(Units) /\ Len(<<>>) = 0
  BY EmptySeq
<1>3. FileType
  BY <1>1, <1>2 DEF Init, FileType, NoTrack
<1>4. LoopType
  BY Constants DEF Init, LoopType, Places, FilePlaces
<1>5. UpType
  BY DEF Init, UpType, Nothing, Features
<1> QED
  BY <1>3, <1>4, <1>5 DEF TypeInv

(* The steps that do not touch the file, the FIFO or what was played. *)
LEMMA OtherSteps ==
    ASSUME [Next]_vars, ~app_init_simple_fifo, ~app_open_next_play_file,
           ~app_first_push_simple_fifo, ~app_refill_simple_fifo,
           ~SelectClock, ~app_start, ~app_stop, ~Decode
    PROVE  UNCHANGED fileVars /\ UNCHANGED played
  BY DEF Next, PlayerStep, Playing, OneFile, BringUp, TakeDown, vars,
         player_main, app_init_libraries, app_create_audio_sub_system,
         app_open_contents_dir, app_power_on, app_open_playlist,
         app_init_output_select, app_play_process, TimeLeft, AmpMute,
         app_set_ready, app_set_clkmode, app_set_player_status, AmpLive,
         LoopEnds, errout_start, errout_ready, app_power_off,
         app_close_playlist, app_close_contents_dir,
         app_deact_audio_sub_system, app_finalize_libraries, Tick, Return1,
         fileVars, playVars

(* Every step keeps the types of the file and the FIFO. *)
LEMMA NextFile == FileType /\ [Next]_vars => FileType'
<1> SUFFICES ASSUME FileType, [Next]_vars PROVE FileType'
  OBVIOUS
<1>1. FIFO_QUEUE_SIZE \in Nat
  BY Constants DEF FIFO_QUEUE_SIZE
<1>2. ASSUME NEW s, s = <<>> PROVE s \in Seq(Units) /\ Len(s) = 0
  BY <1>2, EmptySeq, Zenon
<1>3. CASE app_init_simple_fifo
  <2>1. /\ UNCHANGED <<track, size, pos, opened, fd, played>>
        /\ fifo' = fifo \/ fifo' = <<>>
    BY <1>3 DEF app_init_simple_fifo, playVars
  <2>2. fifo' \in Seq(Units) /\ Len(fifo') <= FIFO_QUEUE_SIZE
    <3>1. CASE fifo' = <<>>
      BY <1>1, <1>2, <3>1
    <3>2. CASE fifo' = fifo
      BY <3>2 DEF FileType
    <3> QED
      BY <2>1, <3>1, <3>2
  <2> QED
    BY <2>1, <2>2 DEF FileType
<1>4. CASE app_open_next_play_file
  <2>1. UNCHANGED fifo /\ (UNCHANGED played \/ played' = <<>>)
    BY <1>4 DEF app_open_next_play_file
  <2>2. fifo' \in Seq(Units) /\ Len(fifo') <= FIFO_QUEUE_SIZE
    BY <2>1 DEF FileType
  <2>3. played' \in Seq(Units)
    BY <1>2, <2>1 DEF FileType
  <2>4. /\ track' \in [size: Nat, hires: BOOLEAN]
        /\ size' \in 0 .. track'.size /\ pos' \in 0 .. track'.size
        /\ track'.size <= size' + pos'
        /\ fd' \in {"open", "closed"} /\ opened' \in Nat
    <3>1. CASE UNCHANGED <<track, size, fd, pos, opened>>
      BY <3>1 DEF FileType
    <3>2. CASE /\ \E s \in Sizes \ {0}, h \in BOOLEAN :
                     track' = [size |-> s, hires |-> h] /\ size' = s
               /\ fd' = "open" /\ pos' = 0 /\ opened' = opened + 1
      BY <3>2, Constants DEF FileType
    <3> QED
      BY <1>4, <3>1, <3>2 DEF app_open_next_play_file
  <2> QED
    BY <2>2, <2>3, <2>4 DEF FileType
<1>5. CASE app_first_push_simple_fifo
  <2>1. UNCHANGED <<track, opened, played>> /\ fd' \in {fd, "closed"}
    BY <1>5 DEF app_first_push_simple_fifo
  <2>2. CASE app_push_simple_fifo
    <3>1. PICK n \in 0 .. ElementSize :
              /\ pos' = pos + n /\ pos + n <= track.size
              /\ \/ /\ n # 0 /\ n <= Vacant
                    /\ fifo' \in Seq(Units) /\ Len(fifo') = Len(fifo) + n
                    /\ size' = size - n /\ UNCHANGED full
                 \/ full' = (full \/ n # 0) /\ UNCHANGED <<fifo, size>>
      BY <2>2, PushEffect
    <3> QED
      BY <1>1, <2>1, <3>1, Constants DEF FileType, Vacant
  <2>3. CASE fifo' = <<>> /\ UNCHANGED <<pos, size, full>>
    BY <1>1, <1>2, <2>1, <2>3 DEF FileType
  <2> QED
    BY <1>5, <2>2, <2>3 DEF app_first_push_simple_fifo
<1>6. CASE app_refill_simple_fifo
  <2>1. UNCHANGED <<track, opened, played, fd>>
    BY <1>6 DEF app_refill_simple_fifo
  <2>2. CASE app_push_simple_fifo
    <3>1. PICK n \in 0 .. ElementSize :
              /\ pos' = pos + n /\ pos + n <= track.size
              /\ \/ /\ n # 0 /\ n <= Vacant
                    /\ fifo' \in Seq(Units) /\ Len(fifo') = Len(fifo) + n
                    /\ size' = size - n /\ UNCHANGED full
                 \/ full' = (full \/ n # 0) /\ UNCHANGED <<fifo, size>>
      BY <2>2, PushEffect
    <3> QED
      BY <1>1, <2>1, <3>1, Constants DEF FileType, Vacant
  <2>3. CASE UNCHANGED <<pos, size, fifo, full>>
    BY <2>1, <2>3 DEF FileType
  <2> QED
    BY <1>6, <2>2, <2>3 DEF app_refill_simple_fifo
<1>7. CASE SelectClock \/ app_start \/ app_stop
  <2>1. /\ UNCHANGED <<track, size, pos, opened, full, played>>
        /\ fd' \in {fd, "closed"} /\ (fifo' = fifo \/ fifo' = <<>>)
    BY <1>7
    DEF SelectClock, app_start, app_stop, playVars, app_close_play_file,
        CloseFails, BothFail
  <2>2. fifo' \in Seq(Units) /\ Len(fifo') <= FIFO_QUEUE_SIZE
    <3>1. CASE fifo' = <<>>
      BY <1>1, <1>2, <3>1
    <3>2. CASE fifo' = fifo
      BY <3>2 DEF FileType
    <3> QED
      BY <2>1, <3>1, <3>2
  <2> QED
    BY <2>1, <2>2 DEF FileType
<1>8. CASE Decode
  <2>1. /\ Head(fifo) \in Units /\ Tail(fifo) \in Seq(Units)
        /\ Len(Tail(fifo)) = Len(fifo) - 1
    BY <1>8, HeadTailProperties DEF Decode, FileType
  <2>2. Append(played, Head(fifo)) \in Seq(Units)
    BY <2>1, AppendProperties DEF FileType
  <2> QED
    BY <1>1, <1>8, <2>1, <2>2 DEF FileType, Decode
<1>9. CASE UNCHANGED fileVars /\ UNCHANGED played
  BY <1>9 DEF FileType, fileVars
<1> QED
  BY <1>3, <1>4, <1>5, <1>6, <1>7, <1>8, <1>9, OtherSteps

(* Every step keeps the types of the loops. *)
LEMMA NextLoop == TypeInv /\ [Next]_vars => LoopType'
<1> SUFFICES ASSUME FileType, LoopType, [Next]_vars PROVE LoopType'
  BY DEF TypeInv
<1> USE Constants
    DEF LoopType, Places, FilePlaces, loopVars, playVars, Keeps, Ok, Fails,
        Return1, BothFail, CloseFails, Abandons
<1>1. CASE player_main
  BY <1>1, SMTT(60) DEF player_main
<1>2. CASE BringUp
  BY <1>2
  DEF BringUp, app_init_libraries, app_create_audio_sub_system,
      app_open_contents_dir, app_power_on, app_open_playlist,
      app_init_simple_fifo, app_init_output_select
<1>3. CASE app_open_next_play_file
  BY <1>3 DEF app_open_next_play_file
<1>4. CASE app_first_push_simple_fifo \/ app_refill_simple_fifo
  BY <1>4 DEF app_first_push_simple_fifo, app_refill_simple_fifo
<1>5. CASE app_play_process \/ TimeLeft
  BY <1>5, PushCountFits DEF app_play_process, TimeLeft
<1>6. CASE SelectClock \/ app_start \/ app_stop \/ LoopEnds
  BY <1>6 DEF SelectClock, app_start, app_stop, LoopEnds
<1>7. CASE AmpMute \/ app_set_ready \/ app_set_clkmode
           \/ app_set_player_status \/ AmpLive
  BY <1>7 DEF AmpMute, app_set_ready, app_set_clkmode, app_set_player_status,
              AmpLive
<1>8. CASE TakeDown
  BY <1>8
  DEF TakeDown, errout_start, errout_ready, app_power_off,
      app_close_playlist, app_close_contents_dir,
      app_deact_audio_sub_system, app_finalize_libraries
<1>9. CASE Decode \/ Tick
  BY <1>9 DEF Decode, Tick
<1>10. CASE UNCHANGED vars
  BY <1>10 DEF vars
<1> QED
  BY <1>1, <1>2, <1>3, <1>4, <1>5, <1>6, <1>7, <1>8, <1>9, <1>10
  DEF Next, PlayerStep, Playing, OneFile

(* Every step keeps the types of what is held. *)
LEMMA NextUp == UpType /\ [Next]_vars => UpType'
<1> SUFFICES ASSUME UpType, [Next]_vars PROVE UpType'
  OBVIOUS
<1> USE DEF UpType, upVars, Return1, Features
<1>1. CASE BringUp
  BY <1>1
  DEF BringUp, app_init_libraries, app_create_audio_sub_system,
      app_open_contents_dir, app_power_on, app_open_playlist,
      app_init_simple_fifo, app_init_output_select
<1>2. CASE Playing \/ player_main \/ Decode \/ Tick
  BY <1>2
  DEF Playing, app_open_next_play_file, app_first_push_simple_fifo,
      app_refill_simple_fifo, app_play_process, TimeLeft, player_main,
      Decode, Tick
<1>3. CASE OneFile
  BY <1>3
  DEF OneFile, SelectClock, AmpMute, app_set_ready, app_set_clkmode,
      app_set_player_status, AmpLive, app_start, app_stop, LoopEnds
<1>4. CASE TakeDown
  BY <1>4
  DEF TakeDown, errout_start, errout_ready, app_power_off,
      app_close_playlist, app_close_contents_dir,
      app_deact_audio_sub_system, app_finalize_libraries
<1>5. CASE UNCHANGED vars
  BY <1>5 DEF vars
<1> QED
  BY <1>1, <1>2, <1>3, <1>4, <1>5 DEF Next, PlayerStep

(* The invariant holds in every state. *)
LEMMA TypeInvariant == Spec => []TypeInv
<1>1. TypeInv /\ [Next]_vars => TypeInv'
  BY NextFile, NextLoop, NextUp DEF TypeInv
<1> QED
  BY <1>1, InitType, PTL DEF Spec

(* Type correctness, and a FIFO that never holds more than its area, for   *)
(* every size of files and elements (audio_player.cxx).                    *)
THEOREM PlayerTypeCorrect == Spec => []TypeOK
<1>1. TypeInv => TypeOK
  BY DEF TypeInv, FileType, LoopType, UpType, TypeOK
<1> QED
  BY <1>1, TypeInvariant, PTL

(***************************************************************************)
(* What player_main holds, label by label.                                 *)
(***************************************************************************)
PlaylistPlaces == FilePlaces \cup
    {"init_fifo", "output_select", "next_file", "errout_start",
     "errout_ready", "power_off", "close_playlist"}
DirPlaces == PlaylistPlaces \cup {"power_on", "open_playlist", "close_dir"}
PowerPlaces ==
    (PlaylistPlaces \cup {"open_playlist"}) \ {"close_playlist"}
LivePlaces == {"next_file", "first_push", "clock", "amp_mute", "start",
               "process", "refill", "time", "stop", "errout_start"}

NeverReturned1 == \A c \in Return1Places : c \notin causes

(* The failures after which a file stays open, and the amplifier live. *)
FileLeft ==
    \E c \in {"amp_mute", "set_ready", "set_clkmode", "set_player_status",
              "amp_live", "close"} : c \in causes
AmpLeft == \E c \in {"next_file", "first_push", "amp_mute"} : c \in causes

Held ==
    /\ res.libraries => pc \notin {"returned", "init_libraries"}
    /\ res.dir => pc \in DirPlaces
    /\ res.playlist => pc \in PlaylistPlaces
    /\ mng # "off" => pc \in PowerPlaces
    /\ res.audio # {} =>
          "create" \in causes \/ pc \in DirPlaces \cup {"open_dir", "deact"}
    /\ res.lock =>
          "power_on" \in causes \/ pc \in PowerPlaces \cup {"power_on"}
    /\ fd = "open" => FileLeft \/ pc \in FilePlaces
    /\ amp = "live" =>
          AmpLeft \/ (mng \in {"player", "playing"} /\ pc \in LivePlaces)
    /\ pc = "amp_live" => mng = "player"

(* The inductive invariant behind LeavesNothingBehind: every label of the  *)
(* way down undoes what the steps above it have done.                      *)
HeldInv == NeverReturned1 => Held

(* The invariant holds before the first run. *)
LEMMA InitHeld == Init => HeldInv
  BY DEF Init, HeldInv, Held, Nothing

(* A failure is never forgotten. *)
LEMMA CausesGrow == [Next]_vars => causes \subseteq causes'
  BY DEF Next, PlayerStep, BringUp, Playing, OneFile, TakeDown, vars,
         player_main, app_init_libraries, app_create_audio_sub_system,
         app_open_contents_dir, app_power_on, app_open_playlist,
         app_init_simple_fifo, app_init_output_select,
         app_open_next_play_file, app_first_push_simple_fifo,
         app_refill_simple_fifo, app_play_process, TimeLeft, SelectClock,
         AmpMute, app_set_ready, app_set_clkmode, app_set_player_status,
         AmpLive, app_start, app_stop, LoopEnds, errout_start, errout_ready,
         app_power_off, app_close_playlist, app_close_contents_dir,
         app_deact_audio_sub_system, app_finalize_libraries, Decode, Tick,
         Ok, Fails, Return1, CloseFails, BothFail, Abandons

(* Every step keeps what is held in step with the label. *)
LEMMA NextHeld == TypeInv /\ HeldInv /\ [Next]_vars => HeldInv'
<1> SUFFICES ASSUME TypeInv, HeldInv, [Next]_vars, NeverReturned1' PROVE Held'
  BY DEF HeldInv
<1>1. NeverReturned1 /\ causes \subseteq causes'
  BY CausesGrow DEF NeverReturned1
<1>2. Held /\ UpType /\ LoopType
  BY <1>1 DEF HeldInv, TypeInv
<1>3. (FileLeft => FileLeft') /\ (AmpLeft => AmpLeft')
  BY <1>1 DEF FileLeft, AmpLeft
<1>4. pc \in Return1Places => ~Return1
  BY DEF Return1, Fails, NeverReturned1
<1>c. (CloseFails \/ BothFail("errout_start") => FileLeft')
      /\ (pc = "stop" => ~CloseFails /\ ~BothFail("returned"))
  BY DEF CloseFails, BothFail, NeverReturned1, Return1Places, FileLeft
<1> USE <1>1, <1>2, <1>3
    DEF Held, UpType, PlaylistPlaces, DirPlaces, PowerPlaces, LivePlaces,
        FilePlaces, loopVars, fileVars, upVars, Keeps, Ok, Features
<1>5. CASE player_main
  BY <1>5 DEF player_main
<1>6. CASE app_init_libraries
  BY <1>4, <1>6 DEF app_init_libraries, Return1Places
<1>7. CASE app_create_audio_sub_system
  BY <1>7 DEF app_create_audio_sub_system, Fails
<1>8. CASE app_open_contents_dir
  BY <1>8 DEF app_open_contents_dir, Fails
<1>9. CASE app_power_on
  BY <1>9 DEF app_power_on, Fails
<1>10. CASE app_open_playlist
  BY <1>10 DEF app_open_playlist, Fails
<1>11. CASE app_init_simple_fifo \/ app_init_output_select
  BY <1>11 DEF app_init_simple_fifo, app_init_output_select, Fails
<1>12. CASE app_open_next_play_file
  BY <1>12 DEF app_open_next_play_file, Fails, AmpLeft
<1>13. CASE app_first_push_simple_fifo
  BY <1>13 DEF app_first_push_simple_fifo, Fails, AmpLeft
<1>14. CASE app_refill_simple_fifo
  BY <1>14 DEF app_refill_simple_fifo, Fails
<1>15. CASE app_play_process \/ TimeLeft
  BY <1>15 DEF app_play_process, TimeLeft
<1>16. CASE SelectClock
  <2>1. /\ UNCHANGED upVars
        /\ \/ (fd' = "closed" \/ FileLeft') /\ pc' = "next_file"
           \/ UNCHANGED fd /\ pc' \in {"start", "amp_mute"}
           \/ UNCHANGED fd /\ pc' = "set_clkmode" /\ mng = "ready"
    BY <1>c, <1>16 DEF SelectClock, app_close_play_file
  <2> QED
    BY <1>16, <2>1 DEF SelectClock
<1>17. CASE AmpMute
  BY <1>17 DEF AmpMute, Abandons, Fails, FileLeft, AmpLeft
<1>18. CASE app_set_ready \/ app_set_clkmode
  BY <1>18 DEF app_set_ready, app_set_clkmode, Abandons, Fails, FileLeft
<1>19. CASE app_set_player_status
  BY <1>19 DEF app_set_player_status, Abandons, Fails, FileLeft
<1>20. CASE AmpLive
  BY <1>20 DEF AmpLive, Abandons, Fails, FileLeft
<1>s. CASE app_start
  <2>1. /\ UNCHANGED <<amp, res>> /\ pc = "start"
        /\ \/ pc' = "process" /\ mng' = "playing" /\ UNCHANGED fd
           \/ /\ pc' = "errout_start" /\ UNCHANGED mng
              /\ fd' = "closed" \/ FileLeft'
    BY <1>c, <1>s DEF app_start, app_close_play_file, Fails, BothFail
  <2> QED
    BY <2>1
<1>p. CASE app_stop
  <2>1. ~Fails("returned")
    BY <1>p DEF app_stop, Fails, NeverReturned1, Return1Places
  <2> QED
    BY <1>c, <1>p, <2>1 DEF app_stop, app_close_play_file
<1>21. CASE LoopEnds
  BY <1>21 DEF LoopEnds
<1>22. CASE errout_start \/ errout_ready
  BY <1>4, <1>22 DEF errout_start, errout_ready, Return1Places
<1>23. CASE app_power_off \/ app_close_playlist
  BY <1>4, <1>23 DEF app_power_off, app_close_playlist, Return1Places
<1>24. CASE app_close_contents_dir \/ app_deact_audio_sub_system
  BY <1>24 DEF app_close_contents_dir, app_deact_audio_sub_system
<1>25. CASE app_finalize_libraries
  BY <1>4, <1>25 DEF app_finalize_libraries, Return1Places
<1>26. CASE Decode \/ Tick \/ UNCHANGED vars
  BY <1>26 DEF Decode, Tick, vars
<1> QED
  BY <1>5, <1>6, <1>7, <1>8, <1>9, <1>10, <1>11, <1>12, <1>13, <1>14, <1>15,
     <1>16, <1>17, <1>18, <1>19, <1>20, <1>21, <1>22, <1>23, <1>24, <1>25,
     <1>26, <1>s, <1>p
  DEF Next, PlayerStep, BringUp, Playing, OneFile, TakeDown

(* When player_main returns, and no run has given up with `return 1',      *)
(* everything is given back but what LeavesNothingBehind names, whichever  *)
(* calls have failed in however many runs (the labels errout_... of        *)
(* audio_player.cxx).                                                      *)
THEOREM NothingLeftBehind == Spec => []LeavesNothingBehind
<1>1. TypeInv /\ HeldInv /\ [Next]_vars => HeldInv'
  BY NextHeld
<1>2. HeldInv => LeavesNothingBehind
  <2> SUFFICES ASSUME HeldInv, pc = "returned",
                      causes \cap Return1Places = {}
               PROVE  LeavesNothingBehind
    BY DEF LeavesNothingBehind
  <2>1. Held
    BY DEF HeldInv, NeverReturned1
  <2>2. pc \notin PlaylistPlaces \cup DirPlaces \cup PowerPlaces
                 \cup LivePlaces \cup FilePlaces
    BY DEF PlaylistPlaces, DirPlaces, PowerPlaces, LivePlaces, FilePlaces
  <2> QED
    BY <2>1, <2>2
    DEF Held, LeavesNothingBehind, FileLeft, AmpLeft
<1> QED
  BY <1>1, <1>2, InitHeld, TypeInvariant, PTL DEF Spec

(***************************************************************************)
(* The FIFO between the task and the decoder.                              *)
(***************************************************************************)
(* A sequence of units is the first n of the opened file. *)
FirstUnits(s, n) == Len(s) = n /\ \A k \in 1 .. n : s[k] = <<opened, k>>

Carried ==
    /\ full = FALSE
    /\ size = track.size - pos
    /\ pc \in FilePlaces => FirstUnits(played \o fifo, pos)
    /\ pc \in {"output_select", "next_file"} => fifo = <<>>
    /\ pc \in {"first_push", "refill"} => push * ElementSize <= Vacant

(* The inductive invariant behind FifoIsFaithful and StopsAtItsEnd: what   *)
(* was decoded and what the FIFO holds are together what was read, and     *)
(* there is room for the elements a loop has still to push.                *)
FifoInv == "close" \notin causes => Carried

(* The decoder takes from one end what was put in at the other. *)
LEMMA DecodeKeeps ==
    ASSUME NEW p \in Seq(Units), NEW f \in Seq(Units), f # <<>>
    PROVE  Append(p, Head(f)) \o Tail(f) = p \o f
<1> DEFINE h == Head(f)
           t == Tail(f)
           a == Append(p, h)
           l == a \o t
           r == p \o f
<1>1. /\ h \in Units /\ t \in Seq(Units)
      /\ Len(f) \in Nat /\ Len(f) > 0 /\ Len(p) \in Nat
      /\ Len(t) = Len(f) - 1
      /\ \A k \in 1 .. Len(t) : t[k] = f[k + 1]
  BY HeadTailProperties, EmptySeq, LenProperties
<1>2. h = f[1]
  OBVIOUS
<1> HIDE DEF h, t
<1>3. /\ a \in Seq(Units) /\ Len(a) = Len(p) + 1
      /\ \A k \in 1 .. Len(p) + 1 : a[k] = IF k <= Len(p) THEN p[k] ELSE h
  BY <1>1, AppendProperties
<1> HIDE DEF a
<1>4. Len(a) + Len(t) = Len(p) + Len(f)
  BY <1>1, <1>3
<1>5. /\ l \in Seq(Units) /\ Len(l) = Len(p) + Len(f)
      /\ \A k \in 1 .. Len(p) + Len(f) :
            l[k] = IF k <= Len(a) THEN a[k] ELSE t[k - Len(a)]
  <2>1. /\ l \in Seq(Units) /\ Len(l) = Len(a) + Len(t)
        /\ \A k \in 1 .. Len(a) + Len(t) :
              l[k] = IF k <= Len(a) THEN a[k] ELSE t[k - Len(a)]
    BY <1>1, <1>3, ConcatProperties
  <2> HIDE DEF l
  <2> QED
    BY <1>4, <2>1
<1>6. /\ r \in Seq(Units) /\ Len(r) = Len(p) + Len(f)
      /\ \A k \in 1 .. Len(p) + Len(f) :
            r[k] = IF k <= Len(p) THEN p[k] ELSE f[k - Len(p)]
  BY ConcatProperties
<1> HIDE DEF l, r
<1>7. ASSUME NEW k \in 1 .. Len(p) + Len(f) PROVE l[k] = r[k]
  <2>1. k \in Nat /\ k >= 1
    BY <1>1
  <2>2. CASE k <= Len(p)
    BY <1>1, <1>3, <1>5, <1>6, <2>1, <2>2
  <2>3. CASE k = Len(p) + 1
    BY <1>1, <1>2, <1>3, <1>5, <1>6, <2>1, <2>3
  <2>4. CASE k > Len(p) + 1
    <3>1. k - Len(a) \in 1 .. Len(t) /\ (k - Len(a)) + 1 = k - Len(p)
      BY <1>1, <1>3, <2>1, <2>4
    <3>2. l[k] = t[k - Len(a)]
      BY <1>1, <1>3, <1>5, <2>1, <2>4
    <3>3. t[k - Len(a)] = f[k - Len(p)]
      BY <1>1, <3>1
    <3> QED
      BY <1>1, <1>6, <2>1, <2>4, <3>2, <3>3
  <2>5. k <= Len(p) \/ k = Len(p) + 1 \/ k > Len(p) + 1
    BY <1>1, <2>1
  <2> QED
    BY <2>2, <2>3, <2>4, <2>5
<1>8. l = r
  BY <1>5, <1>6, <1>7, SeqEqual
<1> QED
  BY <1>8 DEF l, r, a, h, t

(* A push that finds room goes on with the next units of the file. *)
LEMMA PushKeeps ==
    ASSUME FileType, NEW n \in Nat, FirstUnits(played \o fifo, pos)
    PROVE  FirstUnits(played \o (fifo \o [k \in 1 .. n |-> <<opened, pos + k>>]),
                      pos + n)
<1> DEFINE chunk == [k \in 1 .. n |-> <<opened, pos + k>>]
<1>1. pos \in Nat /\ opened \in Nat
  BY DEF FileType
<1>2. chunk \in [1 .. n -> Units]
  BY <1>1 DEF Units
<1>3. \A k \in 1 .. n : chunk[k] = <<opened, pos + k>>
  OBVIOUS
<1> HIDE DEF chunk
<1>4. chunk \in Seq(Units)
  BY <1>2, SeqDef
<1>5. Len(chunk) \in Nat /\ 1 .. Len(chunk) = 1 .. n
  BY <1>2, <1>4, LenProperties
<1>6. Len(chunk) = n
  BY <1>5
<1>7. played \o fifo \in Seq(Units)
  BY ConcatProperties DEF FileType
<1>8. played \o (fifo \o chunk) = (played \o fifo) \o chunk
  <2>1. played \in Seq(Units) /\ fifo \in Seq(Units)
    BY DEF FileType
  <2> QED
    BY <1>4, <2>1, ConcatAssociative
<1> DEFINE u == played \o fifo
<1>9. u \in Seq(Units) /\ Len(u) = pos /\ \A k \in 1 .. pos : u[k] = <<opened, k>>
  BY <1>7 DEF FirstUnits
<1> HIDE DEF u
<1> DEFINE w == u \o chunk
<1>10. /\ Len(w) = pos + n
       /\ \A k \in 1 .. pos + n :
             w[k] = IF k <= pos THEN u[k] ELSE chunk[k - pos]
  BY <1>4, <1>6, <1>9, ConcatProperties
<1> HIDE DEF w
<1>11. ASSUME NEW k \in 1 .. pos + n PROVE w[k] = <<opened, k>>
  <2>1. CASE k <= pos
    BY <1>1, <1>9, <1>10, <2>1
  <2>2. CASE k > pos
    <3>1. k - pos \in 1 .. n /\ pos + (k - pos) = k
      BY <1>1, <2>2
    <3>2. w[k] = chunk[k - pos]
      BY <1>1, <1>10, <2>2
    <3> QED
      BY <1>3, <3>1, <3>2
  <2>3. k <= pos \/ k > pos
    BY <1>1
  <2> QED
    BY <2>1, <2>2, <2>3
<1>12. FirstUnits(w, pos + n)
  BY <1>10, <1>11 DEF FirstUnits
<1> QED
  BY <1>8, <1>12 DEF w, u, chunk

(* The invariant holds before the first run. *)
LEMMA InitFifo == Init => FifoInv
  BY DEF Init, FifoInv, Carried, FilePlaces, NoTrack

(* The loops of app_first_push_simple_fifo and app_refill_simple_fifo find *)
(* the room they counted on.                                               *)
LEMMA PushCarries ==
    ASSUME TypeInv, Carried, app_push_simple_fifo, push' = push - 1,
           pc \in {"first_push", "refill"}, UNCHANGED <<track, opened, played>>
    PROVE  /\ full' = FALSE /\ size' = track.size - pos'
           /\ FirstUnits(played \o fifo, pos)'
           /\ push' * ElementSize <= Vacant'
           /\ ~PushOk => size' = 0
<1>1. PICK n \in 0 .. ElementSize :
          /\ pos' = pos + n /\ pos + n <= track.size
          /\ n = 0 => pos = track.size
          /\ \/ /\ n # 0 /\ n <= Vacant
                /\ fifo' = fifo \o [k \in 1 .. n |-> <<opened, pos + k>>]
                /\ fifo' \in Seq(Units) /\ Len(fifo') = Len(fifo) + n
                /\ size' = size - n /\ UNCHANGED full
             \/ /\ n = 0 \/ n > Vacant
                /\ full' = (full \/ n # 0) /\ UNCHANGED <<fifo, size>>
  BY PushEffect DEF TypeInv
<1>2. /\ n \in Nat /\ n <= ElementSize /\ pos \in Nat /\ track.size \in Nat
      /\ push \in Nat \ {0} /\ Len(fifo) \in Nat /\ FIFO_QUEUE_SIZE \in Nat
      /\ size = track.size - pos /\ full = FALSE
  BY Constants, LenProperties
  DEF TypeInv, FileType, LoopType, Carried, FIFO_QUEUE_SIZE
<1>3. /\ push * ElementSize \in Nat /\ push * ElementSize <= Vacant
      /\ (push - 1) * ElementSize = push * ElementSize - ElementSize
      /\ ElementSize <= push * ElementSize
  BY <1>2, Rooms, Constants DEF Carried
<1>4. Vacant = FIFO_QUEUE_SIZE - Len(fifo)
      /\ Vacant' = FIFO_QUEUE_SIZE - Len(fifo')
  BY DEF Vacant, FIFO_QUEUE_SIZE
<1>5. n <= Vacant
  BY <1>2, <1>3, <1>4, Constants
<1>6. FirstUnits(played \o fifo, pos)
  BY DEF Carried, FilePlaces
<1>7. CASE n = 0
  <2>1. full' = FALSE /\ UNCHANGED <<fifo, size, pos>> /\ size = 0
    <3>1. full' = (full \/ n # 0) /\ fifo' = fifo /\ size' = size
      BY <1>1, <1>7, Zenon
    <3>2. full' = FALSE
      BY <1>2, <1>7, <3>1, Zenon
    <3>3. pos' = pos /\ size = 0
      BY <1>1, <1>2, <1>7
    <3> QED
      BY <3>1, <3>2, <3>3
  <2>2. push' * ElementSize <= Vacant'
    BY <1>2, <1>3, <1>4, <2>1, Constants
  <2> QED
    BY <1>2, <1>6, <2>1, <2>2 DEF FirstUnits
<1>8. CASE n # 0
  <2>1. /\ fifo' = fifo \o [k \in 1 .. n |-> <<opened, pos + k>>]
        /\ Len(fifo') = Len(fifo) + n /\ size' = size - n /\ full' = full
    <3>1. ~(n = 0 \/ n > Vacant)
      BY <1>2, <1>4, <1>5, <1>8
    <3> QED
      BY <1>1, <3>1, Zenon
  <2>2. push' * ElementSize <= Vacant'
    BY <1>2, <1>3, <1>4, <2>1, Constants
  <2>3. FirstUnits(played \o fifo, pos)'
    <3>1. FirstUnits(played \o (fifo \o [k \in 1 .. n |-> <<opened, pos + k>>]),
                     pos + n)
      BY <1>2, <1>6, PushKeeps DEF TypeInv
    <3> QED
      BY <1>1, <2>1, <3>1 DEF FirstUnits
  <2>4. size' = track.size - pos' /\ size' # size
    BY <1>1, <1>2, <1>8, <2>1
  <2> QED
    BY <1>2, <2>1, <2>2, <2>3, <2>4 DEF PushOk
<1> QED
  BY <1>7, <1>8

(* Every step of the task and the decoder keeps it. *)
LEMMA NextFifo == TypeInv /\ FifoInv /\ [Next]_vars => FifoInv'
<1> SUFFICES ASSUME TypeInv, FifoInv, [Next]_vars, "close" \notin causes'
             PROVE  Carried'
  BY DEF FifoInv
<1>1. Carried
  BY CausesGrow DEF FifoInv
<1>2. FIFO_QUEUE_SIZE \in Nat
  BY Constants DEF FIFO_QUEUE_SIZE
<1>3. ~CloseFails /\ ~BothFail("errout_start") /\ ~BothFail("returned")
  BY DEF CloseFails, BothFail
<1>4. CASE app_init_simple_fifo
  BY <1>1, <1>4
  DEF app_init_simple_fifo, Carried, FilePlaces, Ok, Fails, Keeps
<1>5. CASE app_open_next_play_file
  <2>1. CASE pc' = "errout_ready"
    <3>1. UNCHANGED <<track, size, pos, full>>
      BY <1>5, <2>1 DEF app_open_next_play_file, Ok
    <3> QED
      BY <1>1, <2>1, <3>1 DEF Carried, FilePlaces
  <2>2. CASE pc' # "errout_ready"
    <3>1. /\ pc' = "first_push" /\ pc = "next_file"
          /\ \E s \in Sizes \ {0}, h \in BOOLEAN :
                 track' = [size |-> s, hires |-> h] /\ size' = s
          /\ pos' = 0 /\ played' = <<>> /\ push' = ElementNum - 1
          /\ UNCHANGED <<fifo, full>>
      BY <1>5, <2>2 DEF app_open_next_play_file, Ok, Fails, Keeps
    <3>2. fifo' = <<>>
      BY <1>1, <3>1 DEF Carried
    <3>3. Len(fifo') = 0 /\ Len((played \o fifo)') = 0
      <4>1. (played \o fifo)' = <<>>
        BY <3>1, <3>2, ConcatEmptySeq, EmptySeq
      <4> QED
        BY <3>2, <4>1, EmptySeq, Zenon
    <3>4. FirstUnits(played \o fifo, pos)'
      BY <3>1, <3>3 DEF FirstUnits
    <3>5. (ElementNum - 1) * ElementSize <= ElementSize * ElementNum
      BY Rooms, Constants
    <3>6. push' * ElementSize <= Vacant'
      BY <1>2, <3>1, <3>3, <3>5, Constants DEF Vacant, FIFO_QUEUE_SIZE
    <3>7. size' = track'.size - pos'
      BY <3>1, Constants
    <3> QED
      BY <1>1, <3>1, <3>4, <3>6, <3>7 DEF Carried
  <2> QED
    BY <2>1, <2>2
<1>6. CASE app_first_push_simple_fifo
  <2>1. CASE app_push_simple_fifo /\ push' = push - 1
    <3>1. UNCHANGED <<track, opened, played>> /\ pc = "first_push"
          /\ pc' \in {"first_push", "clock", "errout_ready"}
      BY <1>6 DEF app_first_push_simple_fifo, Ok, Fails, Keeps
    <3> QED
      BY <1>1, <2>1, <3>1, PushCarries DEF Carried
  <2>2. CASE pc' = "errout_ready" /\ UNCHANGED <<track, pos, size, full>>
    BY <1>1, <2>2 DEF Carried, FilePlaces
  <2> QED
    BY <1>6, <2>1, <2>2 DEF app_first_push_simple_fifo, Fails
<1>7. CASE app_refill_simple_fifo
  <2>1. UNCHANGED <<track, opened, played>> /\ pc = "refill"
        /\ pc' \in {"refill", "time", "stop"}
    BY <1>7 DEF app_refill_simple_fifo, Ok, Fails, Keeps
  <2>2. CASE app_push_simple_fifo /\ push' = push - 1
    BY <1>1, <2>1, <2>2, PushCarries DEF Carried
  <2>3. CASE pc' = "stop" /\ UNCHANGED <<pos, size, fifo, full, push>>
    BY <1>1, <2>1, <2>3 DEF Carried, FilePlaces, FirstUnits
  <2> QED
    BY <1>7, <2>2, <2>3 DEF app_refill_simple_fifo, Fails
<1>8. CASE SelectClock \/ app_start \/ app_stop
  <2>1. /\ UNCHANGED <<track, size, pos, opened, full, played>>
        /\ pc \in FilePlaces
        /\ \/ UNCHANGED fifo /\ pc' \in FilePlaces \ {"first_push", "refill"}
           \/ fifo' = <<>> /\ pc' \in {"next_file", "errout_start", "returned"}
    BY <1>3, <1>8
    DEF SelectClock, app_start, app_stop, playVars, app_close_play_file, Ok,
        Fails, Keeps, FilePlaces
  <2>2. CASE UNCHANGED fifo /\ pc' \in FilePlaces \ {"first_push", "refill"}
    BY <1>1, <2>1, <2>2 DEF Carried, FilePlaces, FirstUnits
  <2>3. CASE fifo' = <<>> /\ pc' \in {"next_file", "errout_start", "returned"}
    BY <1>1, <2>1, <2>3 DEF Carried, FilePlaces
  <2> QED
    BY <2>1, <2>2, <2>3
<1>9. CASE Decode
  <2>1. /\ UNCHANGED <<pc, track, size, pos, opened, full, push>>
        /\ fifo # <<>> /\ fifo' = Tail(fifo)
        /\ played' = Append(played, Head(fifo))
    BY <1>9 DEF Decode
  <2>2. fifo \in Seq(Units) /\ played \in Seq(Units)
    BY DEF TypeInv, FileType
  <2>3. (played \o fifo)' = played \o fifo
    BY <2>1, <2>2, DecodeKeeps
  <2>4. Len(fifo) \in Nat /\ Len(fifo') = Len(fifo) - 1
    BY <2>1, <2>2, HeadTailProperties, LenProperties
  <2>5. push * ElementSize <= Vacant => push' * ElementSize <= Vacant'
    BY <1>2, <2>1, <2>4, Constants
    DEF Vacant, FIFO_QUEUE_SIZE, TypeInv, LoopType
  <2>6. FirstUnits(played \o fifo, pos) => FirstUnits(played \o fifo, pos)'
    BY <2>1, <2>3 DEF FirstUnits
  <2> QED
    BY <1>1, <2>1, <2>5, <2>6 DEF Carried
<1>10. CASE app_play_process
  <2>1. /\ UNCHANGED fileVars /\ UNCHANGED played /\ pc = "process"
        /\ \/ Vacant > ElementSize /\ push' = PushCount /\ pc' = "refill"
           \/ pc' = "time"
    BY <1>10 DEF app_play_process, Ok, Keeps
  <2>2. pc' = "refill" => push' * ElementSize <= Vacant'
    BY <2>1, PushCountFits DEF Vacant, fileVars, TypeInv, FIFO_QUEUE_SIZE
  <2> QED
    BY <1>1, <2>1, <2>2 DEF Carried, fileVars, FilePlaces, FirstUnits
<1>11. CASE /\ ~app_init_simple_fifo /\ ~app_open_next_play_file
            /\ ~app_first_push_simple_fifo /\ ~app_refill_simple_fifo
            /\ ~SelectClock /\ ~app_start /\ ~app_stop /\ ~Decode
            /\ ~app_play_process
  <2>0. UNCHANGED fileVars /\ UNCHANGED played
    BY <1>11, OtherSteps
  <2>1. /\ pc' \in FilePlaces => pc \in FilePlaces
        /\ pc' \in {"output_select", "next_file"} =>
              pc \in {"output_select", "next_file"}
        /\ pc' \in {"first_push", "refill"} => UNCHANGED <<pc, push>>
    BY <1>11
    DEF Next, PlayerStep, BringUp, Playing, OneFile, TakeDown, vars,
        player_main, app_init_libraries, app_create_audio_sub_system,
        app_open_contents_dir, app_power_on, app_open_playlist,
        app_init_output_select, TimeLeft, AmpMute,
        app_set_ready, app_set_clkmode, app_set_player_status, AmpLive,
        LoopEnds, errout_start, errout_ready, app_power_off,
        app_close_playlist, app_close_contents_dir,
        app_deact_audio_sub_system, app_finalize_libraries, Tick,
        Ok, Fails, Return1, Abandons, FilePlaces, Keeps, playVars
  <2> QED
    BY <1>1, <2>0, <2>1 DEF Carried, fileVars, FirstUnits, Vacant
<1> QED
  BY <1>4, <1>5, <1>6, <1>7, <1>8, <1>9, <1>10, <1>11

(* The invariant holds in every state. *)
LEMMA FifoInvariant == Spec => [](TypeInv /\ FifoInv)
<1>1. TypeInv /\ FifoInv /\ [Next]_vars => FifoInv'
  BY NextFifo
<1> QED
  BY <1>1, InitFifo, TypeInvariant, PTL DEF Spec

(* For every size of the file, the elements and the FIFO, the decoder gets *)
(* the file from its first unit on without a gap, and nothing is read that *)
(* does not fit, as long as no close has failed (app_push_simple_fifo,     *)
(* app_refill_simple_fifo and the decoder at the other end).               *)
THEOREM FifoCarriesTheFile == Spec => []FifoIsFaithful
<1>1. TypeInv /\ FifoInv => FifoIsFaithful
  <2> SUFFICES ASSUME TypeInv, FifoInv PROVE FifoIsFaithful
    OBVIOUS
  <2>1. FifoNeverFull
    BY DEF FifoNeverFull, FifoInv, Carried
  <2>2. PlayedInOrder
    BY DEF PlayedInOrder, FifoInv, Carried, FilePlaces, FirstUnits
  <2> QED
    BY <2>1, <2>2 DEF FifoIsFaithful
<1> QED
  BY <1>1, FifoInvariant, PTL

(* Playing stops only when its time is over, the file has been pushed or   *)
(* could not be read, and a player that is stopped with                    *)
(* AS_STOPPLAYER_ESEND has decoded the whole file (app_play_process and    *)
(* app_stop).                                                              *)
THEOREM StoppedAtItsEnd == Spec => StopsAtItsEnd
<1>1. TypeInv /\ FifoInv /\ [Next]_vars =>
        [pc # "stop" /\ pc' = "stop" =>
           time >= PlayTime \/ size' = 0 \/ "refill" \in causes'
           \/ "close" \in causes']_vars
  <2> SUFFICES ASSUME TypeInv, FifoInv, Next, pc # "stop", pc' = "stop",
                      "close" \notin causes'
               PROVE  time >= PlayTime \/ size' = 0 \/ "refill" \in causes'
    OBVIOUS
  <2>1. Carried
    BY CausesGrow DEF FifoInv
  <2>2. TimeLeft \/ app_refill_simple_fifo
    BY DEF Next, PlayerStep, BringUp, Playing, OneFile, TakeDown,
           player_main, app_init_libraries, app_create_audio_sub_system,
           app_open_contents_dir, app_power_on, app_open_playlist,
           app_init_simple_fifo, app_init_output_select,
           app_open_next_play_file, app_first_push_simple_fifo,
           app_play_process, SelectClock, AmpMute, app_set_ready,
           app_set_clkmode, app_set_player_status, AmpLive, app_start,
           app_stop, LoopEnds, errout_start, errout_ready, app_power_off,
           app_close_playlist, app_close_contents_dir,
           app_deact_audio_sub_system, app_finalize_libraries, Decode, Tick,
           Ok, Fails, Return1, CloseFails, BothFail, Abandons, Keeps
  <2>3. CASE TimeLeft
    BY <2>3, Constants DEF TimeLeft, Ok, Keeps, TypeInv, LoopType
  <2>4. CASE app_refill_simple_fifo
    <3>1. CASE Fails("stop")
      BY <2>4, <3>1 DEF app_refill_simple_fifo, Fails, Keeps
    <3>2. CASE /\ app_push_simple_fifo /\ push' = push - 1
               /\ Ok(IF ~PushOk THEN "stop"
                     ELSE IF push' > 0 THEN "refill" ELSE "time")
      <4>1. UNCHANGED <<track, opened, played>> /\ pc = "refill"
        BY <2>4 DEF app_refill_simple_fifo, Keeps
      <4>2. ~PushOk
        BY <3>2 DEF Ok
      <4> QED
        BY <2>1, <3>2, <4>1, <4>2, PushCarries
    <3> QED
      BY <2>4, <3>1, <3>2 DEF app_refill_simple_fifo
  <2> QED
    BY <2>2, <2>3, <2>4
<1>2. TypeInv /\ FifoInv /\ [Next]_vars =>
        [pc = "stop" /\ pc' = "next_file" /\ EsEnd /\ "close" \notin causes =>
           Len(played) = track.size]_vars
  <2> SUFFICES ASSUME TypeInv, FifoInv, Next, pc = "stop",
                      pc' = "next_file", EsEnd, "close" \notin causes
               PROVE  Len(played) = track.size
    OBVIOUS
  <2>1. Carried
    BY DEF FifoInv
  <2>2. fifo = <<>>
    BY DEF Next, PlayerStep, BringUp, Playing, OneFile, TakeDown,
           player_main, app_init_libraries, app_create_audio_sub_system,
           app_open_contents_dir, app_power_on, app_open_playlist,
           app_init_simple_fifo, app_init_output_select,
           app_open_next_play_file, app_first_push_simple_fifo,
           app_refill_simple_fifo, app_play_process, TimeLeft, SelectClock,
           AmpMute, app_set_ready, app_set_clkmode, app_set_player_status,
           AmpLive, app_start, app_stop, LoopEnds, errout_start,
           errout_ready, app_power_off, app_close_playlist,
           app_close_contents_dir, app_deact_audio_sub_system,
           app_finalize_libraries, Decode, Tick, Ok, Fails, Return1,
           CloseFails, BothFail, Abandons, Keeps
  <2>3. played \o fifo = played
    BY <2>2, ConcatEmptySeq DEF TypeInv, FileType
  <2>4. Len(played) = pos
    BY <2>1, <2>3 DEF Carried, FilePlaces, FirstUnits
  <2> QED
    BY <2>1, <2>4 DEF Carried, EsEnd, TypeInv, FileType
<1> QED
  BY <1>1, <1>2, FifoInvariant, PTL
  DEF Spec, StopsAtItsEnd, StoppedForCause, EndIsHeard
=============================================================================

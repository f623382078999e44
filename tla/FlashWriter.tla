---------------------------- MODULE FlashWriter -----------------------------
(***************************************************************************)
(* Putting a firmware on a board before its tests: flash_n_check of the    *)
(* test runner, Device.flash and check_device_config, the updater that     *)
(* starts the flash writer as a process with a time limit, and the flash   *)
(* writer's dialogue with the board (main, cancel_autoboot, install_files, *)
(* wait_for_prompt), in which the file goes over by XMODEM.                *)
(*                                                                         *)
(* The flash writer is called with -s -c -b -d -n and one package: reset   *)
(* by DTR, no boot setting, nothing erased or saved.  The board, the       *)
(* operating system's processes and the serial port are external.          *)
(***************************************************************************)
EXTENDS Xmodem

VARIABLES
    host,       \* where the test runner is
    writer,     \* where the flash writer is
    mode,       \* the board: booting, its shell, the updater, receiving
    image,      \* what is in its flash: old, new, or new but in a cache
    running,    \* what it has booted
    setting,    \* what differs from station to station
    timedOut, broken    \* history: the time limit; writer not started

hostVars == <<host, timedOut, broken>>
boardVars == <<mode, image, running>>
vars == <<xmodemVars, hostVars, writer, boardVars, setting>>

(* check: the test script names applications to look for; oldHasThem: so had
   the firmware before; next: what has the process number after the writer's
   (the child that a packed executable starts, another process of the user,
   one of somebody else, or none); mismatch: the loader is too old for the new
   firmware.  Where nothing is checked, neither matters. *)
Settings == {s \in [check : BOOLEAN, oldHasThem : BOOLEAN, mismatch : BOOLEAN,
                    next : {"child", "other", "foreign", "none"}] :
                 ~s.check => ~s.oldHasThem /\ ~s.mismatch}

Init ==
    /\ XmodemInit
    /\ host = "start" /\ writer = "none" /\ timedOut = FALSE /\ broken = FALSE
    /\ mode = "nsh" /\ image = "old" /\ running = "old"
    /\ setting \in Settings

Gone == writer \in {"none", "exited", "killed"}

(* The board starts again; what was only cached may or may not be there. *)
Reset == /\ mode' = "boot" /\ UNCHANGED running
         /\ image' \in IF image = "cached" THEN {"old", "new"} ELSE {image}

-----------------------------------------------------------------------------
(* The test runner. *)

(* Popen, and the writer opens the port.  Neither failure is seen: the first
   is an IOError that Device.flash logs, the second an exit code. *)
Popen ==
    /\ host = "start"
    /\ \/ /\ host' = "communicate" /\ writer' = "autoboot"
          /\ Reset /\ UNCHANGED <<broken, trouble>>
       \/ /\ Fault("die") /\ broken' = TRUE /\ host' = "flashed"
          /\ UNCHANGED <<writer, boardVars>>
       \/ /\ Fault("die") /\ broken' = TRUE /\ host' = "communicate"
          /\ writer' = "exited" /\ UNCHANGED boardVars
    /\ UNCHANGED <<sender, receiver, line, timedOut, setting>>

Communicated ==
    /\ host = "communicate" /\ writer = "exited" /\ host' = "flashed"
    /\ UNCHANGED <<xmodemVars, timedOut, broken, writer, boardVars, setting>>

(* TimeoutExpired.  When no process has the next number, or one that the user
   may not kill, os.kill raises an OSError, which Device.flash catches as an
   IOError, and terminate is not reached. *)
KillRaises == setting.next \in {"foreign", "none"}

(* Mutant: terminate is left out. *)
MutantKilled == IF setting.next = "child" THEN "killed" ELSE writer
Killed == IF KillRaises THEN writer ELSE "killed"

TimeoutExpired ==
    /\ host = "communicate" /\ writer # "exited"
    /\ timedOut' = TRUE /\ host' = "flashed" /\ writer' = Killed
    /\ UNCHANGED <<xmodemVars, broken, boardVars, setting>>

MutantOpenPort ==
    /\ host = "flashed"
    /\ host' = IF setting.check THEN "read_boot" ELSE "tests"
    /\ UNCHANGED <<xmodemVars, timedOut, broken, writer, boardVars, setting>>

(* check_device_config opens the port, which resets the board by DTR.
   Without a list of applications nothing is checked. *)
OpenPort ==
    /\ host = "flashed"
    /\ \/ ~setting.check /\ host' = "tests" /\ UNCHANGED <<boardVars, trouble>>
       \/ setting.check /\ host' = "read_boot" /\ Reset /\ UNCHANGED trouble
       \/ setting.check /\ Fault("die") /\ host' = "exception"
          /\ UNCHANGED boardVars
    /\ UNCHANGED <<sender, receiver, line, timedOut, broken, writer, setting>>

(* It reads until the shell's prompt, or a line about the loader, comes. *)
ReadBoot ==
    /\ host = "read_boot" /\ mode = "nsh"
    /\ host' = IF running = "new" /\ setting.mismatch THEN "exception"
                                                      ELSE "read_help"
    /\ UNCHANGED <<xmodemVars, timedOut, broken, writer, boardVars, setting>>

(* The answer to help names what the firmware has. *)
Configured == running = "new" \/ setting.oldHasThem

ReadHelp ==
    /\ host = "read_help" /\ mode = "nsh"
    /\ host' = IF Configured THEN "tests" ELSE "exception"
    /\ UNCHANGED <<xmodemVars, timedOut, broken, writer, boardVars, setting>>

(* A line is garbled: the prompt, without which it reads for ever, the one
   about the loader, or the name of an application. *)
LineGarbled ==
    /\ mode = "nsh" /\ Fault("garble")
    /\ \/ host = "read_boot" /\ host' \in {"boot_in_vain", "read_help"}
       \/ host = "read_help" /\ host' \in {"help_in_vain", "exception"}
    /\ UNCHANGED <<sender, receiver, line, timedOut, broken, writer, boardVars,
                   setting>>

(* A writer that still lives reads from the same port, and may take the line
   with the prompt. *)
PromptStolen ==
    /\ mode = "nsh" /\ ~Gone
    /\ \/ host = "read_boot" /\ host' = "boot_in_vain"
       \/ host = "read_help" /\ host' = "help_in_vain"
    /\ UNCHANGED <<xmodemVars, timedOut, broken, writer, boardVars, setting>>

Host == Popen \/ Communicated \/ OpenPort \/ ReadBoot \/ ReadHelp

-----------------------------------------------------------------------------
(* The flash writer.  A wait is a guard on what the board shows: when the
   board never shows it, the writer reads on until it is killed. *)

WriterKeeps == UNCHANGED <<hostVars, running, setting>>

(* cancel_autoboot: "r" is sent until the boot ROM has greeted and the updater
   has its prompt. *)
cancel_autoboot ==
    /\ writer = "autoboot" /\ mode = "boot"
    /\ mode' = "updater" /\ writer' = "install"
    /\ WriterKeeps /\ UNCHANGED <<xmodemVars, image>>

(* The install command; a board that is not in the updater does not know it. *)
SendInstall ==
    /\ writer = "install" /\ writer' = "wait"
    /\ \/ mode = "updater" /\ mode' = "receive"
          /\ board' = "waiting" /\ expect' = 1 /\ stored' = <<>>
       \/ mode # "updater" /\ UNCHANGED <<mode, receiver>>
    /\ WriterKeeps /\ UNCHANGED <<sender, line, trouble, image>>

(* "Waiting for XMODEM": the speed is changed and what has come so far is
   discarded; the board asks again. *)
WaitForXmodem ==
    /\ writer = "wait" /\ mode = "receive"
    /\ writer' = "xmodem" /\ toHost' = <<>>
    /\ board' = IF board = "receiving" /\ stored = <<>> THEN "waiting"
                                                        ELSE board
    /\ WriterKeeps
    /\ UNCHANGED <<sender, toBoard, expect, stored, trouble, mode, image>>

ModemSend ==
    /\ writer = "xmodem" /\ Send
    /\ WriterKeeps /\ UNCHANGED <<writer, mode, image>>

(* What send returned is not looked at; an exception ends the writer. *)
AfterSend == IF result = "TypeError" THEN "exited" ELSE "prompt"

ModemReturned ==
    /\ writer = "xmodem" /\ pc = "returned" /\ writer' = AfterSend
    /\ WriterKeeps /\ UNCHANGED <<xmodemVars, mode, image>>

wait_for_prompt ==
    /\ writer = "prompt" /\ mode = "updater" /\ writer' = "sync"
    /\ WriterKeeps /\ UNCHANGED <<xmodemVars, mode, image>>

(* sync and its prompt. *)
Synced == IF image = "cached" THEN "new" ELSE image

Sync ==
    /\ writer = "sync" /\ mode = "updater" /\ writer' = "reboot"
    /\ image' = Synced
    /\ WriterKeeps /\ UNCHANGED <<xmodemVars, mode>>

Reboot ==
    /\ writer = "reboot" /\ writer' = "exited"
    /\ \/ mode = "updater" /\ Reset
       \/ mode # "updater" /\ UNCHANGED <<mode, image, running>>
    /\ UNCHANGED <<xmodemVars, hostVars, setting>>

(* The text that is waited for arrives garbled. *)
TextGarbled ==
    /\ writer \in {"wait", "prompt", "sync"} /\ Fault("garble")
    /\ writer' = "reads_on"
    /\ WriterKeeps /\ UNCHANGED <<sender, receiver, line, mode, image>>

Writer == cancel_autoboot \/ SendInstall \/ WaitForXmodem \/ ModemSend
          \/ ModemReturned \/ wait_for_prompt \/ Sync \/ Reboot

-----------------------------------------------------------------------------
(* External: the board. *)

BoardReceives ==
    /\ mode = "receive" /\ Receiver
    /\ UNCHANGED <<hostVars, writer, boardVars, setting>>

(* The updater is back at its prompt.  It installs only a whole package. *)
BackToPrompt ==
    /\ mode = "receive" /\ board \in {"complete", "cancelled"}
    /\ mode' = "updater"
    /\ image' = IF board = "complete" /\ Len(stored) = N THEN "cached"
                                                         ELSE image
    /\ UNCHANGED <<xmodemVars, hostVars, writer, running, setting>>

(* Nobody pressed "r" in time.  There is a prompt again for those who have
   missed the last one. *)
Boots ==
    /\ mode = "boot" /\ mode' = "nsh" /\ running' = image
    /\ host' = CASE host = "boot_in_vain" -> "read_boot"
                 [] host = "help_in_vain" -> "read_help"
                 [] OTHER -> host
    /\ UNCHANGED <<xmodemVars, timedOut, broken, writer, image, setting>>

(* The board loses its power, or somebody presses RESET. *)
BoardDies ==
    /\ mode # "boot" /\ Fault("die") /\ Reset
    /\ board' = IF board \in {"waiting", "receiving"} THEN "cancelled"
                                                     ELSE board
    /\ UNCHANGED <<expect, stored>>
    /\ UNCHANGED <<sender, line, hostVars, writer, setting>>

(* While nothing receives, what is still on the line is lost. *)
BoardDrops ==
    /\ mode # "receive" /\ toBoard # <<>> /\ toBoard' = <<>>
    /\ UNCHANGED <<sender, receiver, toHost, trouble, hostVars, writer,
                   boardVars, setting>>

BoardStep == BoardReceives \/ BackToPrompt \/ Boots \/ BoardDrops

Next == Host \/ TimeoutExpired \/ LineGarbled \/ PromptStolen \/ Writer
        \/ TextGarbled \/ BoardStep \/ BoardDies

Spec == Init /\ [][Next]_vars

(* The processes are scheduled, communicate has a time limit, getc and putc
   return within theirs, and a board that has power does its work. *)
FairSpec == /\ Spec /\ WF_vars(Host /\ faults' = faults)
            /\ WF_vars(TimeoutExpired)
            /\ WF_vars(Writer /\ faults' = faults)
            /\ WF_vars(BoardStep /\ faults' = faults)

-----------------------------------------------------------------------------
(* Type correctness. *)
TypeOK ==
    /\ XmodemTypeOK
    /\ host \in {"start", "communicate", "flashed", "read_boot", "read_help",
                "boot_in_vain", "help_in_vain", "tests", "exception"}
    /\ writer \in {"none", "autoboot", "install", "wait", "xmodem", "prompt",
                  "sync", "reboot", "reads_on", "exited", "killed"}
    /\ mode \in {"boot", "nsh", "updater", "receive"}
    /\ image \in {"old", "cached", "new"} /\ running \in {"old", "new"}

(* Tests run on another firmware than the one that was built only when the
   writer could not be started, was stopped by the time limit, or send did
   not bring the file over.  None of these is reported: flash returns
   normally. *)
OldFirmwareHasCause ==
    host = "tests" /\ image # "new" =>
        broken \/ timedOut \/ result # "True" \/ stray

(* Whatever went wrong, tests whose script names applications run only on a
   firmware that has them. *)
CheckedFirmware ==
    host = "tests" /\ setting.check => running = "new" \/ setting.oldHasThem

(* The time limit was reached, and os.kill found no process that it could
   kill. *)
LeftAlive == timedOut /\ KillRaises

(* From check_device_config on, the runner has the port for itself.  The one
   exception: the time limit was reached and no process had the number after
   the writer's, or one that the user may not kill, so that the writer was
   left alive. *)
PortIsOurs ==
    host \in {"read_boot", "read_help", "boot_in_vain", "help_in_vain", "tests"}
        => Gone \/ LeftAlive

(* What the tests start from: the firmware that was built unless something
   named went wrong, one with the applications they name, and a port that
   nobody else reads (flash_n_check). *)
TestsStartRight == OldFirmwareHasCause /\ CheckedFirmware /\ PortIsOurs

(* send always ends: a dead or deaf board costs at most retry timeouts. *)
SendEnds == writer = "xmodem" ~> (pc = "returned" \/ writer = "killed")

(* Device.flash always comes back, however the board behaves. *)
FlashReturns == host = "communicate" ~> host # "communicate"

(* A prompt has come and was not taken for one. *)
PromptMissed == host \in {"boot_in_vain", "help_in_vain"}

(* check_device_config comes to an end although it reads without a time limit:
   opening the port has reset the board, so that the prompt will come.  There
   are two exceptions.  A prompt that arrives garbled is missed, and there is
   no other until somebody resets the board; and a writer that was left alive
   answers the boot ROM, or takes the line with the prompt. *)
CheckEnds == host = "read_boot" /\ ~LeftAlive
                 ~> host \in {"tests", "exception"} \/ PromptMissed

(* The update ends, with its transfer, its dialogue and its check, although
   most of its reads have no time limit. *)
UpdateEnds == SendEnds /\ FlashReturns /\ CheckEnds
=============================================================================

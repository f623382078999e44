------------------------------- MODULE Xmodem -------------------------------
(***************************************************************************)
(* XMODEM.send, by which the flash writer puts a firmware file on the      *)
(* board (TestFramework/src/tools/flash_writer/scripts/xmodem.py), over a  *)
(* serial line that corrupts packets, garbles or loses answers, or         *)
(* delivers bytes the sender does not expect.                              *)
(*                                                                         *)
(* The receiver is the board's updater, which is not part of this          *)
(* repository: it is the receiver the data flow in xmodem.py's header      *)
(* shows.  It acknowledges a packet it already has and asks again for one  *)
(* it cannot use.                                                          *)
(***************************************************************************)
EXTENDS Integers, Sequences

CONSTANTS
    N,          \* packets in the file
    Retry,      \* the parameter retry of send
    SeqMod,     \* packet numbers are counted modulo this (0x100)
    Faults,     \* what may go wrong
    MaxFaults   \* bound: how often something goes wrong in all

FaultKinds == {"corrupt", "garble", "lose", "slow", "repoll", "cancel",
               "checksum", "die"}

ASSUME XmodemAssumption ==
    /\ N \in Nat /\ Retry \in Nat \ {0} /\ MaxFaults \in Nat
    /\ SeqMod \in Nat
    /\ Retry < SeqMod     \* 32 and 0x100 in the code
    /\ Faults \subseteq FaultKinds

Answers == {"C", "NAK", "ACK", "CAN", "junk"}

Packet(s, i) == [kind |-> "packet", seq |-> s, data |-> i]
Eot == [kind |-> "eot"]
Can == [kind |-> "can"]

VARIABLES
    pc,           \* where send is
    n,            \* packets acknowledged
    sequence, error_count,
    cancel,       \* a CAN was read while waiting for the start
    result,       \* what send has returned, "none" while it runs
    toBoard, toHost,   \* the two directions of the serial line
    board,        \* the receiver: waiting, receiving, complete, cancelled
    expect,       \* ... the packet number it expects
    stored,       \* ... the packets it has written
    faults,       \* how many faults have happened
    stray         \* history: the line has brought, or will bring, a byte that
                  \* answers nothing the sender waits for

sender == <<pc, n, sequence, error_count, cancel, result>>
receiver == <<board, expect, stored>>
line == <<toBoard, toHost>>
trouble == <<faults, stray>>
xmodemVars == <<sender, receiver, line, trouble>>

XmodemTypeOK ==
    /\ pc \in {"start", "emit", "answer", "eot", "eot_answer", "returned"}
    /\ n \in 0..N
    /\ sequence \in 0..(SeqMod - 1)
    /\ error_count \in 0..Retry
    /\ cancel \in BOOLEAN
    /\ result \in {"none", "True", "False", "TypeError"}
    /\ toBoard \in Seq([kind: {"packet"}, seq: 0..(SeqMod - 1), data: 1..N]
                       \cup {Eot, Can})
    /\ toHost \in Seq(Answers)
    /\ board \in {"waiting", "receiving", "complete", "cancelled"}
    /\ expect \in 0..(SeqMod - 1)
    /\ stored \in Seq(1..N)
    /\ faults \in 0..MaxFaults /\ stray \in BOOLEAN

XmodemInit ==
    /\ pc = "start" /\ n = 0 /\ sequence = 1 /\ error_count = 0
    /\ cancel = FALSE /\ result = "none"
    /\ toBoard = <<>> /\ toHost = <<>>
    /\ board = "waiting" /\ expect = 1 /\ stored = <<>>
    /\ faults = 0 /\ stray = FALSE

Count(f) == f \in Faults /\ faults < MaxFaults /\ faults' = faults + 1
Fault(f) == Count(f) /\ UNCHANGED stray
StrayFault(f) == Count(f) /\ stray' = TRUE

(***************************************************************************)
(* The sender.                                                             *)
(***************************************************************************)
(* Which answer counts as an acknowledgement.  Mutant: any byte does. *)
MutantAcked(c) == c \in Answers
Acked(c) == c = "ACK"

(* error_count after another error. *)
Errors == error_count + 1

(* send gives up.  Mutant: one error later. *)
MutantTooMany == Errors > Retry
TooMany == Errors >= Retry

(* The packet sent, again until it is acknowledged. *)
Current == Packet(sequence, n + 1)

(* abort: two CAN bytes, and send returns False. *)
Abort ==
    /\ toBoard' = toBoard \o <<Can, Can>>
    /\ pc' = "returned" /\ result' = "False"

(* After a wrong answer or none: give up, or go back to p. *)
Retransmit(p) ==
    /\ error_count' = Errors
    /\ \/ TooMany /\ Abort
       \/ ~TooMany /\ pc' = p /\ UNCHANGED <<toBoard, result>>
    /\ UNCHANGED <<n, sequence, cancel>>

(* The first byte has come: read the stream and send it, or its end. *)
StartData ==
    /\ pc' = IF N = 0 THEN "eot" ELSE "emit"
    /\ error_count' = 0
    /\ UNCHANGED <<toBoard, result>>

(* While send waits for the receiver to start.  A NAK asks for checksums,  *)
(* and calc_checksum calls ord on the ints of a bytes object.              *)
ReadStart ==
    /\ pc = "start" /\ toHost # <<>>
    /\ toHost' = Tail(toHost)
    /\ LET c == Head(toHost) IN
       \/ /\ c = "C" /\ StartData
          /\ UNCHANGED <<n, sequence, cancel>>
       \/ /\ c = "NAK" /\ N = 0 /\ StartData
          /\ UNCHANGED <<n, sequence, cancel>>
       \/ /\ c = "NAK" /\ N > 0
          /\ pc' = "returned" /\ result' = "TypeError" /\ error_count' = 0
          /\ UNCHANGED <<n, sequence, cancel, toBoard>>
       \/ /\ c = "CAN" /\ cancel
          /\ pc' = "returned" /\ result' = "False"
          /\ UNCHANGED <<n, sequence, error_count, cancel, toBoard>>
       \/ /\ c = "CAN" /\ ~cancel
          /\ cancel' = TRUE /\ error_count' = Errors
          /\ \/ TooMany /\ Abort
             \/ ~TooMany /\ UNCHANGED <<pc, toBoard, result>>
          /\ UNCHANGED <<n, sequence>>
       \/ c \in {"ACK", "junk"} /\ Retransmit("start")
    /\ UNCHANGED <<receiver, trouble>>

(* getc returns nothing: its time is up before a byte has come. *)
Silence == toHost = <<>> /\ UNCHANGED toHost

StartTimeout ==
    /\ pc = "start" /\ Silence
    /\ Retransmit("start")
    /\ UNCHANGED <<receiver, trouble>>

Emit ==
    /\ pc = "emit"
    /\ toBoard' = Append(toBoard, Current)
    /\ pc' = "answer"
    /\ UNCHANGED <<n, sequence, error_count, cancel, result, toHost, receiver, trouble>>

(* The packet is acknowledged: on to the next one, or to the end. *)
ReadAck ==
    /\ pc = "answer" /\ toHost # <<>> /\ Acked(Head(toHost))
    /\ toHost' = Tail(toHost)
    /\ n' = n + 1 /\ sequence' = (sequence + 1) % SeqMod
    /\ pc' = IF n + 1 = N THEN "eot" ELSE "emit"
    /\ UNCHANGED <<error_count, cancel, result, toBoard, receiver, trouble>>

(* A NAK, or "Not ACK, Not NAK": the packet is sent again. *)
ReadOther ==
    /\ pc = "answer" /\ toHost # <<>> /\ ~Acked(Head(toHost))
    /\ toHost' = Tail(toHost)
    /\ Retransmit("emit")
    /\ UNCHANGED <<receiver, trouble>>

(* The same when no answer comes.  The time is long enough for the         *)
(* receiver, unless it is slow.                                            *)
GivenUpOn ==
    \/ toBoard = <<>> /\ UNCHANGED trouble
    \/ toBoard # <<>> /\ StrayFault("slow")

AnswerTimeout ==
    /\ pc = "answer" /\ Silence /\ GivenUpOn
    /\ Retransmit("emit")
    /\ UNCHANGED receiver

EmitEot ==
    /\ pc = "eot"
    /\ toBoard' = Append(toBoard, Eot)
    /\ pc' = "eot_answer"
    /\ UNCHANGED <<n, sequence, error_count, cancel, result, toHost, receiver, trouble>>

ReadEotAck ==
    /\ pc = "eot_answer" /\ toHost # <<>> /\ Acked(Head(toHost))
    /\ toHost' = Tail(toHost)
    /\ pc' = "returned" /\ result' = "True"
    /\ UNCHANGED <<n, sequence, error_count, cancel, toBoard, receiver, trouble>>

ReadEotOther ==
    /\ pc = "eot_answer" /\ toHost # <<>> /\ ~Acked(Head(toHost))
    /\ toHost' = Tail(toHost)
    /\ Retransmit("eot")
    /\ UNCHANGED <<receiver, trouble>>

EotTimeout ==
    /\ pc = "eot_answer" /\ Silence /\ GivenUpOn
    /\ Retransmit("eot")
    /\ UNCHANGED receiver

Send == \/ ReadStart \/ StartTimeout \/ Emit \/ ReadAck \/ ReadOther
        \/ AnswerTimeout \/ EmitEot \/ ReadEotAck \/ ReadEotOther \/ EotTimeout

(***************************************************************************)
(* The board and the line.                                                 *)
(***************************************************************************)
(* The receiver asks for the transfer and, until it has a packet, may ask  *)
(* again.  An old one asks for checksums; a user may cancel with CAN.      *)
Ask(c) ==
    /\ toHost' = Append(toHost, c)
    /\ UNCHANGED <<sender, toBoard, expect, stored>>

FirstAsk ==
    /\ board = "waiting" /\ board' = "receiving"
    /\ Ask("C") /\ UNCHANGED trouble

AskAgain ==
    /\ board = "receiving" /\ stored = <<>> /\ UNCHANGED board
    /\ Ask("C") /\ StrayFault("repoll")

AskChecksum ==
    /\ board = "waiting" /\ board' = "receiving"
    /\ Ask("NAK") /\ Fault("checksum")

UserCancels ==
    /\ board = "waiting" /\ UNCHANGED board
    /\ Ask("CAN") /\ Fault("cancel")

(* An answer on its way: it arrives, or is garbled, or is lost. *)
Answer(c) ==
    \/ toHost' = Append(toHost, c) /\ UNCHANGED trouble
    \/ toHost' = Append(toHost, "junk") /\ Fault("garble")
    \/ toHost' = toHost /\ Fault("lose")

Before(s) == (s + SeqMod - 1) % SeqMod

AtBoard(k) == toBoard # <<>> /\ Head(toBoard).kind = k

Takes == toBoard' = Tail(toBoard) /\ UNCHANGED sender

BoardStores ==
    /\ board = "receiving" /\ AtBoard("packet") /\ Head(toBoard).seq = expect
    /\ stored' = Append(stored, Head(toBoard).data)
    /\ expect' = (expect + 1) % SeqMod
    /\ Takes /\ Answer("ACK")
    /\ UNCHANGED board

BoardHasIt ==
    /\ board = "receiving" /\ AtBoard("packet")
    /\ Head(toBoard).seq = Before(expect)
    /\ Takes /\ Answer("ACK")
    /\ UNCHANGED receiver

BoardRefuses ==
    /\ board = "receiving" /\ AtBoard("packet")
    /\ Head(toBoard).seq \notin {expect, Before(expect)}
    /\ Takes /\ Answer("NAK")
    /\ UNCHANGED receiver

PacketCorrupted ==
    /\ board = "receiving" /\ AtBoard("packet") /\ Fault("corrupt")
    /\ Takes /\ toHost' = Append(toHost, "NAK")
    /\ UNCHANGED receiver

BoardCompletes ==
    /\ board = "receiving" /\ AtBoard("eot")
    /\ board' = "complete"
    /\ Takes /\ Answer("ACK")
    /\ UNCHANGED <<expect, stored>>

BoardIsCancelled ==
    /\ board = "receiving" /\ AtBoard("can")
    /\ board' = "cancelled"
    /\ Takes
    /\ UNCHANGED <<expect, stored, toHost, trouble>>

(* Once it is through, or not yet there, the board drops what it is sent. *)
BoardIgnores ==
    /\ board # "receiving" /\ toBoard # <<>>
    /\ Takes
    /\ UNCHANGED <<receiver, toHost, trouble>>

Receiver == \/ FirstAsk \/ AskAgain \/ AskChecksum \/ UserCancels
            \/ BoardStores \/ BoardHasIt \/ BoardRefuses \/ PacketCorrupted
            \/ BoardCompletes \/ BoardIsCancelled \/ BoardIgnores

(***************************************************************************)
(* Properties.                                                             *)
(***************************************************************************)
(* What the board has stored is the beginning of the file: no packet is    *)
(* missing, doubled or out of place, whatever the line does, and although  *)
(* packet numbers wrap around (the resend loop and the sequence count of   *)
(* send).                                                                  *)
StoredInOrder ==
    Len(stored) <= N /\ \A i \in 1..Len(stored) : stored[i] = i

(* As long as every byte the sender reads answers what it has last sent,   *)
(* send returns True only when the board has the whole file and knows that *)
(* it has: lost and garbled answers, corrupted packets and a board that    *)
(* dies do not hide a packet from it (the answers to packets and to EOT).  *)
SuccessIsComplete ==
    result = "True" /\ ~stray => board = "complete" /\ Len(stored) = N

(* The transfer is faithful: at any time the board has a beginning of the  *)
(* file, and after a success without stray bytes all of it (send and its   *)
(* resend loop).                                                           *)
TransferIsFaithful == StoredInOrder /\ SuccessIsComplete
=============================================================================

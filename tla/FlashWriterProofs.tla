-------------------------- MODULE FlashWriterProofs --------------------------
(***************************************************************************)
(* What the update of the firmware promises for every length of the file,  *)
(* every number of retries and any number of faults: the board has a       *)
(* beginning of the file at any time although packet numbers wrap around   *)
(* and answers come late, a success is a success, and tests start from     *)
(* what was built unless something named went wrong.                       *)
(*                                                                         *)
(* The argument for the transfer is a count: every answer that the sender  *)
(* may still take for an acknowledgement belongs to a packet it has sent,  *)
(* so that it is never further ahead of the board than it has met errors,  *)
(* and it gives up before that number reaches the range of packet numbers. *)
(***************************************************************************)
EXTENDS FlashWriter, FiniteSetTheorems, FunctionTheorems,
        SequenceTheorems, TLAPS

(* The constants, one by one. *)
LEMMA Constants ==
    /\ N \in Nat /\ Retry \in Nat /\ Retry > 0 /\ MaxFaults \in Nat
    /\ SeqMod \in Nat /\ SeqMod > Retry /\ SeqMod > 1
  BY XmodemAssumption

(***************************************************************************)
(* Type correctness.                                                       *)
(***************************************************************************)
Packets == [kind : {"packet"}, seq : 0 .. (SeqMod - 1), data : 1 .. N]
Messages == Packets \cup {Eot, Can}

SenderType ==
    /\ pc \in {"start", "emit", "answer", "eot", "eot_answer", "returned"}
    /\ n \in 0 .. N /\ sequence \in 0 .. (SeqMod - 1)
    /\ error_count \in 0 .. Retry
    /\ result \in {"none", "True", "False", "TypeError"}
    /\ pc = "start" => n = 0
    /\ pc \in {"emit", "answer"} => n < N
    /\ pc # "returned" => error_count < Retry /\ result = "none"
    /\ toBoard \in Seq(Messages)

ReceiverType ==
    /\ toHost \in Seq(Answers)
    /\ board \in {"waiting", "receiving", "complete", "cancelled"}
    /\ expect \in 0 .. (SeqMod - 1) /\ stored \in Seq(1 .. N)
    /\ faults \in 0 .. MaxFaults

FlagType == cancel \in BOOLEAN /\ stray \in BOOLEAN

WriterType ==
    /\ host \in {"start", "communicate", "flashed", "read_boot", "read_help",
                "boot_in_vain", "help_in_vain", "tests", "exception"}
    /\ writer \in {"none", "autoboot", "install", "wait", "xmodem", "prompt",
                  "sync", "reboot", "reads_on", "exited", "killed"}
    /\ mode \in {"boot", "nsh", "updater", "receive"}
    /\ image \in {"old", "cached", "new"} /\ running \in {"old", "new"}
    /\ host = "start" => writer = "none"
    /\ image = "cached" => mode = "updater"
    /\ writer \in {"none", "autoboot", "install"} =>
          image = "old" /\ mode # "receive"
    /\ mode = "receive" => image = "old"

TypeInv == SenderType /\ ReceiverType /\ FlagType /\ WriterType

(* What the steps of the dialogue do to the transfer. *)
LEMMA Steps ==
    ASSUME [Next]_vars
    PROVE  \/ Send /\ writer = "xmodem" /\ UNCHANGED <<writer, mode, image, running, hostVars, setting>>
           \/ Receiver /\ mode = "receive" /\ UNCHANGED <<writer, boardVars, hostVars, setting>>
           \/ SendInstall
           \/ WaitForXmodem
           \/ BoardDrops
           \/ BoardDies
           \/ /\ UNCHANGED <<sender, receiver, line, stray>>
              /\ faults' = faults \/ (faults < MaxFaults /\ faults' = faults + 1)
  BY DEF Next, vars, xmodemVars, trouble, hostVars, boardVars, Host, Writer,
         BoardStep, Popen, Communicated, TimeoutExpired, OpenPort, ReadBoot,
         ReadHelp, LineGarbled, PromptStolen, WriterKeeps, cancel_autoboot, ModemSend,
         ModemReturned, wait_for_prompt, Sync, Reboot, TextGarbled,
         BoardReceives, BackToPrompt, Boots, Fault, Count

(* One more error, after which send may give up. *)
LEMMA Retried ==
    ASSUME SenderType, NEW p, Retransmit(p), p \in {"start", "emit", "eot"},
           p = "start" => n = 0, p = "emit" => n < N, pc # "returned"
    PROVE  /\ UNCHANGED <<n, sequence, cancel>> /\ error_count' = error_count + 1
           /\ \/ /\ pc' = "returned" /\ result' = "False"
                 /\ toBoard' = toBoard \o <<Can, Can>>
              \/ /\ pc' = p /\ UNCHANGED <<toBoard, result>>
                 /\ error_count' < Retry
           /\ SenderType'
<1>1. /\ UNCHANGED <<n, sequence, cancel>> /\ error_count' = error_count + 1
      /\ \/ /\ pc' = "returned" /\ result' = "False"
            /\ toBoard' = toBoard \o <<Can, Can>>
         \/ /\ pc' = p /\ UNCHANGED <<toBoard, result>>
            /\ error_count' < Retry
  BY Constants DEF Retransmit, Errors, TooMany, Abort, SenderType
<1>2. toBoard' \in Seq(Messages)
  <2>1. <<Can, Can>> \in Seq(Messages)
    BY DEF Messages
  <2> QED
    BY <1>1, <2>1, ConcatProperties DEF SenderType
<1>3. SenderType'
  BY <1>1, <1>2, Constants DEF SenderType
<1> QED
  BY <1>1, <1>3

(* Every step of send keeps the types of the sender. *)
LEMMA SendTypes ==
    ASSUME SenderType, ReceiverType, Send
    PROVE  SenderType' /\ ReceiverType' /\ UNCHANGED <<receiver>>
<1>1. UNCHANGED receiver /\ pc # "returned"
  BY DEF Send, ReadStart, StartTimeout, Emit, ReadAck, ReadOther,
         AnswerTimeout, EmitEot, ReadEotAck, ReadEotOther, EotTimeout
<1>2. toHost' \in Seq(Answers)
  BY SMTT(60)
  DEF Send, ReadStart, StartTimeout, Emit, ReadAck, ReadOther, Silence,
         AnswerTimeout, EmitEot, ReadEotAck, ReadEotOther, EotTimeout,
         ReceiverType
<1>3. faults' \in 0 .. MaxFaults
  BY Constants
  DEF Send, ReadStart, StartTimeout, Emit, ReadAck, ReadOther, Silence,
      AnswerTimeout, EmitEot, ReadEotAck, ReadEotOther, EotTimeout,
      GivenUpOn, StrayFault, Count, trouble, ReceiverType
<1>4. ReceiverType'
  BY <1>1, <1>2, <1>3 DEF ReceiverType, receiver
<1> SUFFICES SenderType'
  BY <1>1, <1>4
<1>5. CASE ReadStart
  <2>1. CASE Retransmit("start")
    BY <1>1, <1>5, <2>1, Retried DEF ReadStart, SenderType
  <2>2. CASE StartData /\ UNCHANGED <<n, sequence>>
    BY <1>1, <1>5, <2>2, Constants DEF StartData, ReadStart, SenderType
  <2>3. CASE pc' = "returned" /\ UNCHANGED <<n, sequence, toBoard>>
             /\ result' \in {"TypeError", "False"}
             /\ error_count' \in {0, error_count}
    BY <2>3, Constants DEF SenderType
  <2>4. CASE /\ error_count' = Errors /\ UNCHANGED <<n, sequence>>
             /\ \/ TooMany /\ Abort
                \/ ~TooMany /\ UNCHANGED <<pc, toBoard, result>>
    <3>1. <<Can, Can>> \in Seq(Messages)
      BY DEF Messages
    <3>2. toBoard' \in Seq(Messages)
      BY <2>4, <3>1, ConcatProperties DEF SenderType, Abort
    <3> QED
      BY <1>1, <2>4, <3>2, Constants DEF Errors, TooMany, Abort, SenderType
  <2> QED
    BY <1>5, <2>1, <2>2, <2>3, <2>4 DEF ReadStart
<1>6. CASE Emit
  <2>1. Current \in Messages
    BY <1>6, Constants DEF Emit, Current, Packet, Messages, Packets, SenderType
  <2> QED
    BY <1>6, <2>1 DEF Emit, SenderType
<1>7. CASE ReadAck
  BY <1>7, Constants DEF ReadAck, SenderType
<1>8. CASE EmitEot
  <2>1. Eot \in Messages
    BY DEF Messages
  <2> QED
    BY <1>8, <2>1 DEF EmitEot, SenderType
<1>9. CASE ReadEotAck
  BY <1>9 DEF ReadEotAck, SenderType
<1>10. CASE StartTimeout \/ ReadOther \/ AnswerTimeout \/ ReadEotOther \/ EotTimeout
  BY <1>10, <1>1, Retried
  DEF StartTimeout, ReadOther, AnswerTimeout, ReadEotOther, EotTimeout,
      SenderType
<1> QED
  BY <1>5, <1>6, <1>7, <1>8, <1>9, <1>10 DEF Send

(* Every step of the board keeps the types of the receiver. *)
LEMMA ReceiverTypes ==
    ASSUME SenderType, ReceiverType, Receiver
    PROVE  SenderType' /\ ReceiverType' /\ UNCHANGED sender
<1>1. UNCHANGED sender
  BY DEF Receiver, FirstAsk, AskAgain, AskChecksum, UserCancels, Ask,
         BoardStores, BoardHasIt, BoardRefuses, PacketCorrupted,
         BoardCompletes, BoardIsCancelled, BoardIgnores, Takes
<1>2. toBoard' = toBoard \/ (toBoard # <<>> /\ toBoard' = Tail(toBoard))
  BY DEF Receiver, FirstAsk, AskAgain, AskChecksum, UserCancels, Ask,
         BoardStores, BoardHasIt, BoardRefuses, PacketCorrupted,
         BoardCompletes, BoardIsCancelled, BoardIgnores, Takes, AtBoard
<1>3. toBoard' \in Seq(Messages)
  BY <1>2 DEF SenderType
<1>4. SenderType'
  BY <1>1, <1>3 DEF SenderType, sender
<1>5. /\ toHost' = toHost \/ \E c \in Answers : toHost' = Append(toHost, c)
      /\ faults' = faults \/ (faults < MaxFaults /\ faults' = faults + 1)
  BY DEF Receiver, FirstAsk, AskAgain, AskChecksum, UserCancels, Ask,
         BoardStores, BoardHasIt, BoardRefuses, PacketCorrupted,
         BoardCompletes, BoardIsCancelled, BoardIgnores, Takes, Answer,
         Answers, Fault, StrayFault, Count, trouble
<1>6. toHost' \in Seq(Answers) /\ faults' \in 0 .. MaxFaults
  <2>1. faults' \in 0 .. MaxFaults
    BY <1>5, Constants DEF ReceiverType
  <2>2. ASSUME NEW c \in Answers, toHost' = Append(toHost, c)
        PROVE  toHost' \in Seq(Answers)
    BY <2>2, AppendProperties DEF ReceiverType
  <2> QED
    BY <1>5, <2>1, <2>2 DEF ReceiverType
<1>7. board' \in {"waiting", "receiving", "complete", "cancelled"}
  BY DEF Receiver, FirstAsk, AskAgain, AskChecksum, UserCancels, Ask,
         BoardStores, BoardHasIt, BoardRefuses, PacketCorrupted, receiver,
         BoardCompletes, BoardIsCancelled, BoardIgnores, Takes, ReceiverType
<1>8. expect' \in 0 .. (SeqMod - 1) /\ stored' \in Seq(1 .. N)
  <2>1. CASE BoardStores
    <3>1. Head(toBoard) \in Messages /\ Head(toBoard).kind = "packet"
      BY <2>1 DEF BoardStores, AtBoard, SenderType
    <3>2. Head(toBoard).data \in 1 .. N
      BY <3>1 DEF Messages, Packets, Eot, Can
    <3> QED
      BY <2>1, <3>2, Constants DEF BoardStores, ReceiverType
  <2>2. CASE ~BoardStores
    BY <2>2
    DEF Receiver, FirstAsk, AskAgain, AskChecksum, UserCancels, Ask,
        BoardHasIt, BoardRefuses, PacketCorrupted, BoardCompletes,
        BoardIsCancelled, BoardIgnores, receiver, ReceiverType
  <2> QED
    BY <2>1, <2>2
<1>9. ReceiverType'
  BY <1>6, <1>7, <1>8 DEF ReceiverType
<1> QED
  BY <1>1, <1>4, <1>9

(* The dialogue keeps the types of its own state. *)
LEMMA NextWriter == WriterType /\ [Next]_vars => WriterType'
<1> SUFFICES ASSUME WriterType, [Next]_vars PROVE WriterType'
  OBVIOUS
<1>1. CASE Popen \/ OpenPort
  BY <1>1 DEF Popen, OpenPort, Reset, boardVars, WriterType
<1>2. CASE Communicated \/ TimeoutExpired \/ ReadBoot \/ ReadHelp
           \/ LineGarbled \/ PromptStolen
  BY <1>2 DEF Communicated, TimeoutExpired, Killed, ReadBoot, ReadHelp,
              LineGarbled, PromptStolen, boardVars, WriterType
<1>3. CASE cancel_autoboot \/ SendInstall \/ WaitForXmodem \/ ModemSend
           \/ ModemReturned \/ wait_for_prompt \/ TextGarbled
  BY <1>3 DEF cancel_autoboot, SendInstall, WaitForXmodem, ModemSend,
              ModemReturned, AfterSend, wait_for_prompt, TextGarbled,
              WriterKeeps, hostVars, WriterType
<1>4. CASE Sync \/ Reboot
  BY <1>4 DEF Sync, Synced, Reboot, Reset, WriterKeeps, hostVars, WriterType
<1>5. CASE BoardReceives \/ BackToPrompt \/ Boots \/ BoardDies \/ BoardDrops
  BY <1>5 DEF BoardReceives, BackToPrompt, Boots, BoardDies, BoardDrops, Reset,
              hostVars, boardVars, WriterType
<1>6. CASE UNCHANGED vars
  BY <1>6 DEF vars, hostVars, boardVars, WriterType
<1> QED
  BY <1>1, <1>2, <1>3, <1>4, <1>5, <1>6 DEF Next, Host, Writer, BoardStep

(* A stray byte is not forgotten. *)
LEMMA StrayStays == ASSUME [Next]_vars PROVE stray' = stray \/ stray' = TRUE
  BY DEF Next, vars, xmodemVars, trouble, Host, Writer, BoardStep, Popen,
         Communicated, TimeoutExpired, OpenPort, ReadBoot, ReadHelp,
         LineGarbled, PromptStolen, cancel_autoboot, ModemSend, ModemReturned,
         wait_for_prompt, Sync, Reboot, TextGarbled, BoardReceives,
         BackToPrompt, Boots, SendInstall, WaitForXmodem, BoardDies,
         BoardDrops, Send, ReadStart, StartTimeout, Emit, ReadAck, ReadOther,
         AnswerTimeout, EmitEot, ReadEotAck, ReadEotOther, EotTimeout,
         GivenUpOn, Receiver, FirstAsk, AskAgain, AskChecksum, UserCancels,
         BoardStores, BoardHasIt, BoardRefuses, PacketCorrupted, Answer,
         BoardCompletes, BoardIsCancelled, BoardIgnores, Fault, StrayFault

(* The flags stay Boolean. *)
LEMMA NextFlags == FlagType /\ [Next]_vars => FlagType'
<1> SUFFICES ASSUME FlagType, [Next]_vars PROVE FlagType'
  OBVIOUS
<1>1. cancel' = cancel \/ cancel' = TRUE
  BY DEF Next, vars, xmodemVars, sender, Host, Writer, BoardStep, Popen,
         Communicated, TimeoutExpired, OpenPort, ReadBoot, ReadHelp,
         LineGarbled, PromptStolen, cancel_autoboot, ModemSend, ModemReturned,
         wait_for_prompt, Sync, Reboot, TextGarbled, BoardReceives,
         BackToPrompt, Boots, SendInstall, WaitForXmodem, BoardDies,
         BoardDrops, Send, ReadStart, StartTimeout, Emit, ReadAck, ReadOther,
         AnswerTimeout, EmitEot, ReadEotAck, ReadEotOther, EotTimeout,
         Retransmit, Receiver, FirstAsk, AskAgain, AskChecksum, UserCancels,
         Ask, BoardStores, BoardHasIt, BoardRefuses, PacketCorrupted,
         BoardCompletes, BoardIsCancelled, BoardIgnores, Takes
<1>2. stray' = stray \/ stray' = TRUE
  BY StrayStays
<1> QED
  BY <1>1, <1>2, Zenon DEF FlagType

(* Every step keeps the types. *)
LEMMA NextType == TypeInv /\ [Next]_vars => TypeInv'
<1> SUFFICES ASSUME TypeInv, [Next]_vars PROVE TypeInv'
  OBVIOUS
<1>1. WriterType' /\ FlagType'
  BY NextWriter, NextFlags DEF TypeInv
<1>2. CASE Send
  BY <1>1, <1>2, SendTypes DEF TypeInv
<1>3. CASE Receiver
  BY <1>1, <1>3, ReceiverTypes DEF TypeInv
<1>4. CASE SendInstall \/ WaitForXmodem \/ BoardDrops \/ BoardDies
  <2>1. /\ UNCHANGED sender /\ toBoard' \in {toBoard, <<>>}
        /\ toHost' \in {toHost, <<>>} /\ stored' \in {stored, <<>>}
        /\ expect' \in {expect, 1}
        /\ faults' = faults \/ (faults < MaxFaults /\ faults' = faults + 1)
    BY <1>4 DEF SendInstall, WaitForXmodem, BoardDrops, BoardDies, receiver,
                line, trouble, Fault, Count
  <2>2. board' \in {"waiting", "receiving", "complete", "cancelled"}
    BY <1>4 DEF SendInstall, WaitForXmodem, BoardDrops, BoardDies, receiver,
                TypeInv, ReceiverType
  <2>3. SenderType'
    <3>1. toBoard' \in Seq(Messages)
      BY <2>1, EmptySeq, Zenon DEF TypeInv, SenderType
    <3> QED
      BY <2>1, <3>1 DEF TypeInv, SenderType, sender
  <2>4. toHost' \in Seq(Answers) /\ stored' \in Seq(1 .. N)
    BY <2>1, EmptySeq, Zenon DEF TypeInv, ReceiverType
  <2>5. ReceiverType'
    BY <2>1, <2>2, <2>4, Constants DEF TypeInv, ReceiverType
  <2> QED
    BY <1>1, <2>3, <2>5 DEF TypeInv
<1>5. CASE /\ UNCHANGED <<sender, receiver, line>>
           /\ faults' = faults \/ (faults < MaxFaults /\ faults' = faults + 1)
  BY <1>1, <1>5, Constants
  DEF TypeInv, SenderType, ReceiverType, sender, receiver, line
<1> QED
  BY <1>2, <1>3, <1>4, <1>5, Steps

(* The types hold in every state. *)
LEMMA TypeInvariant == Spec => []TypeInv
<1>1. Init => TypeInv
  <2> SUFFICES ASSUME Init PROVE TypeInv
    OBVIOUS
  <2>1. SenderType /\ ReceiverType /\ WriterType
    BY Constants DEF Init, XmodemInit, SenderType, ReceiverType, WriterType
  <2>2. FlagType
    BY DEF Init, XmodemInit, FlagType
  <2> QED
    BY <2>1, <2>2 DEF TypeInv
<1> QED
  BY <1>1, NextType, PTL DEF Spec

(* The state of the update has its types throughout, for every file and    *)
(* every retry limit (FlashWriter.TypeOK).                                 *)
THEOREM UpdateTypeCorrect == Spec => []TypeOK
<1>1. TypeInv => TypeOK
  BY DEF TypeInv, SenderType, ReceiverType, FlagType, WriterType, TypeOK,
         XmodemTypeOK, Messages, Packets
<1> QED
  BY <1>1, TypeInvariant, PTL

(***************************************************************************)
(* Packet numbers and the count of acknowledgements.                       *)
(***************************************************************************)
(* s is the number that packet d of the file goes under. *)
NumberOf(s, d) == \E q \in 0 .. d : d = q * SeqMod + s

(* The acknowledgements among the bytes s. *)
AckPlaces(s) == {i \in 1 .. Len(s) : s[i] = "ACK"}
Acks(s) == Cardinality(AckPlaces(s))

(* Before the receiver has asked, nothing has been sent or stored. *)
AtStart ==
    /\ writer \in {"none", "autoboot", "install", "wait"} => pc = "start"
    /\ pc = "start" => /\ toBoard = <<>> /\ stored = <<>> /\ expect = 1
                       /\ sequence = 1 /\ Acks(toHost) = 0

(* Both sides number the packets alike. *)
Numbered ==
    /\ NumberOf(sequence, n + 1) /\ NumberOf(expect, Len(stored) + 1)
    /\ \A i \in 1 .. Len(toBoard) : toBoard[i].kind = "packet" =>
          NumberOf(toBoard[i].seq, toBoard[i].data)

(* Packets arrive in the order of the file, none before the last stored. *)
InOrder ==
    /\ Len(stored) <= n + 1
    /\ \A i \in 1 .. Len(toBoard) : toBoard[i].kind = "packet" =>
          Len(stored) <= toBoard[i].data /\ toBoard[i].data <= n + 1
    /\ \A i, j \in 1 .. Len(toBoard) :
          i < j /\ toBoard[i].kind = "packet" /\ toBoard[j].kind = "packet" =>
              toBoard[i].data <= toBoard[j].data

(* The sender is ahead of the board by no more than the errors it has met. *)
Ahead == n <= Len(stored) + error_count

(* What the sender will take for an acknowledgement, and the packets that may
   still cause one, are accounted for. *)
Accounted ==
    pc \in {"emit", "answer"} =>
        /\ n + Acks(toHost) <= Len(stored) + error_count
        /\ Acks(toHost) + Len(toBoard) <=
              error_count + (IF pc = "answer" THEN 1 ELSE 0)
        /\ \A i \in 1 .. Len(toBoard) :
              /\ toBoard[i].kind = "packet"
              /\ n + Acks(toHost) + i <= toBoard[i].data + error_count

TransferInv == AtStart /\ Numbered /\ InOrder /\ Ahead /\ Accounted
               /\ StoredInOrder

(***************************************************************************)
(* One packet and one answer at a time.                                    *)
(***************************************************************************)
(* While send waits for the start, at most one byte asks for it, the last. *)
OneRequest ==
    pc = "start" => \A i \in 1 .. Len(toHost) :
        toHost[i] \in {"C", "NAK"} => i = Len(toHost) /\ board # "waiting"

(* Then a packet, or an answer to it, or nothing is on the line. *)
OneAtATime ==
    /\ pc \notin {"start", "returned"} => board # "waiting"
    /\ pc \in {"emit", "eot"} => toBoard = <<>> /\ toHost = <<>>
    /\ pc \in {"answer", "eot_answer"} => toBoard = <<>> \/ toHost = <<>>
    /\ pc \in {"answer", "eot_answer"} => Len(toBoard) <= 1 /\ Len(toHost) <= 1
    /\ pc = "answer" /\ toBoard # <<>> => toBoard[1] = Current
    /\ pc = "eot_answer" /\ toBoard # <<>> => toBoard[1] = Eot

(* An acknowledgement is the answer to what was last sent. *)
AckIsTrue ==
    /\ pc \in {"emit", "answer"} => n <= Len(stored)
    /\ pc = "answer" /\ toHost # <<>> /\ Head(toHost) = "ACK" =>
          Len(stored) = n + 1
    /\ pc \in {"eot", "eot_answer"} => Len(stored) = N
    /\ pc = "eot_answer" /\ toHost # <<>> /\ Head(toHost) = "ACK" =>
          board = "complete"
    /\ result = "True" => board = "complete" /\ Len(stored) = N

(* Nothing is heard from the board before the install command. *)
NothingSaid == writer \in {"none", "autoboot", "install"} => toHost = <<>>

LockStep == NothingSaid /\ (~stray => OneRequest /\ OneAtATime /\ AckIsTrue)

(***************************************************************************)
(* The dialogue around the transfer.                                       *)
(***************************************************************************)
(* After Device.flash the writer is gone, or was left alive. *)
HostInv ==
    /\ host = "start" => ~broken
    /\ timedOut => host \notin {"start", "communicate"}
    /\ host \notin {"start", "communicate"} => Gone \/ LeftAlive
    /\ host \notin {"start", "communicate"} /\ ~broken /\ ~timedOut =>
          writer = "exited"

(* The board installs a whole file, once, and keeps it. *)
Installed ==
    /\ board = "complete" => pc # "start"
    /\ board = "complete" /\ mode = "updater" /\ Len(stored) = N =>
          image # "old"
    /\ running = "new" => image = "new"

(* After a true success the writer leaves the new image behind. *)
Flashed ==
    result = "True" /\ ~stray =>
        /\ writer = "sync" => mode # "receive" /\ (mode = "updater" => image # "old")
        /\ writer \in {"reboot", "exited"} => mode # "receive" /\ image = "new"

FlashInv == HostInv /\ Installed /\ Flashed /\ CheckedFirmware

(***************************************************************************)
(* Lemmas about packet numbers.                                            *)
(***************************************************************************)
LEMMA Times == ASSUME NEW k \in Nat, k >= 1 PROVE k * SeqMod >= SeqMod
  BY Constants

(* The next packet has the next number, modulo SeqMod. *)
LEMMA NextNumber ==
    ASSUME NEW s \in 0 .. (SeqMod - 1), NEW d \in Nat, NumberOf(s, d)
    PROVE  NumberOf((s + 1) % SeqMod, d + 1)
<1>1. PICK q \in 0 .. d : d = q * SeqMod + s
  BY DEF NumberOf
<1>2. CASE s + 1 < SeqMod
  <2>1. (s + 1) % SeqMod = s + 1
    BY <1>2, Constants
  <2>2. d + 1 = q * SeqMod + (s + 1) /\ q \in 0 .. d + 1
    BY <1>1, Constants
  <2> QED
    BY <2>1, <2>2 DEF NumberOf
<1>3. CASE s + 1 = SeqMod
  <2>1. (s + 1) % SeqMod = 0
    BY <1>3, Constants
  <2>2. d + 1 = (q + 1) * SeqMod + 0
    BY <1>1, <1>3, Constants
  <2>3. \E r \in 0 .. d + 1 : d + 1 = r * SeqMod + 0
    <3> WITNESS q + 1 \in 0 .. d + 1
    <3> QED
      BY <2>2
  <2> QED
    BY <2>1, <2>3 DEF NumberOf
<1> QED
  BY <1>2, <1>3, Constants

(* The packet before has the number before. *)
LEMMA NumberBefore ==
    ASSUME NEW s \in 0 .. (SeqMod - 1), NEW d \in Nat, NumberOf(s, d + 1)
    PROVE  NumberOf(Before(s), d) /\ Before(s) \in 0 .. (SeqMod - 1)
<1>1. PICK q \in 0 .. d + 1 : d + 1 = q * SeqMod + s
  BY DEF NumberOf
<1>2. CASE s = 0
  <2>1. q >= 1
    BY <1>1, <1>2, Constants
  <2>2. Before(s) = SeqMod - 1
    BY <1>2, Constants DEF Before
  <2>3. d = (q - 1) * SeqMod + (SeqMod - 1)
    BY <1>1, <1>2, Constants
  <2>4. \E r \in 0 .. d : d = r * SeqMod + (SeqMod - 1)
    <3>1. q - 1 \in 0 .. d
      BY <2>1
    <3> WITNESS q - 1 \in 0 .. d
    <3> QED
      BY <2>3
  <2> QED
    BY <2>2, <2>4, Constants DEF NumberOf
<1>3. CASE s > 0
  <2>1. Before(s) = s - 1
    <3>1. s + SeqMod - 1 = SeqMod + (s - 1) /\ s - 1 \in 0 .. (SeqMod - 1)
      BY <1>3, Constants
    <3>2. (SeqMod + (s - 1)) % SeqMod = (s - 1) % SeqMod
      BY <3>1, Constants
    <3>3. (s - 1) % SeqMod = s - 1
      BY <3>1, Constants
    <3> QED
      BY <3>1, <3>2, <3>3 DEF Before
  <2>2. d = q * SeqMod + (s - 1) /\ q <= d
    <3>1. d = q * SeqMod + (s - 1)
      BY <1>1, <1>3, Constants
    <3>2. q = d + 1 => q * SeqMod >= q * 2
      BY Constants
    <3> QED
      BY <3>1, <3>2, <1>1, <1>3, Constants
  <2> QED
    BY <2>1, <2>2, <1>3, Constants DEF NumberOf
<1> QED
  BY <1>2, <1>3, Constants

(* Packets closer than SeqMod have different numbers. *)
LEMMA NumberTells ==
    ASSUME NEW s, NEW a \in Nat, NEW b \in Nat, s \in 0 .. (SeqMod - 1),
           NumberOf(s, a), NumberOf(s, b), a <= b, b - a < SeqMod
    PROVE  a = b
<1>1. PICK p \in 0 .. a : a = p * SeqMod + s
  BY DEF NumberOf
<1>2. PICK q \in 0 .. b : b = q * SeqMod + s
  BY DEF NumberOf
<1>3. CASE q - p >= 1
  <2>1. (q - p) * SeqMod >= SeqMod
    BY <1>3, Times
  <2>2. b - a = (q - p) * SeqMod
    BY <1>1, <1>2, Constants
  <2> QED
    BY <2>1, <2>2, Constants
<1>4. CASE p - q >= 1
  <2>1. (p - q) * SeqMod >= SeqMod
    BY <1>4, Times
  <2>2. a - b = (p - q) * SeqMod
    BY <1>1, <1>2, Constants
  <2> QED
    BY <2>1, <2>2, Constants
<1> QED
  BY <1>1, <1>2, <1>3, <1>4

(***************************************************************************)
(* Lemmas about the count of acknowledgements.                             *)
(***************************************************************************)
LEMMA AckType ==
    ASSUME NEW s \in Seq(Answers)
    PROVE  IsFiniteSet(AckPlaces(s)) /\ Acks(s) \in Nat
<1>1. IsFiniteSet(1 .. Len(s))
  BY FS_Interval, LenProperties
<1>2. IsFiniteSet(AckPlaces(s))
  BY <1>1, FS_Subset DEF AckPlaces
<1> QED
  BY <1>2, FS_CardinalityType DEF Acks

(* The acknowledgements on an empty line, ... *)
LEMMA AckEmpty == Acks(<<>>) = 0
<1>1. AckPlaces(<<>>) = {}
  BY DEF AckPlaces
<1> QED
  BY <1>1, FS_EmptySet DEF Acks

(* ... when an answer is put on it, ... *)
LEMMA AckAppend ==
    ASSUME NEW s \in Seq(Answers), NEW c \in Answers
    PROVE  Acks(Append(s, c)) = Acks(s) + (IF c = "ACK" THEN 1 ELSE 0)
<1>1. /\ Len(s) \in Nat /\ Len(Append(s, c)) = Len(s) + 1
      /\ \A i \in 1 .. Len(s) : Append(s, c)[i] = s[i]
      /\ Append(s, c)[Len(s) + 1] = c
  BY AppendProperties, LenProperties
<1>2. CASE c = "ACK"
  <2>1. AckPlaces(Append(s, c)) = AckPlaces(s) \cup {Len(s) + 1}
    BY <1>1, <1>2 DEF AckPlaces
  <2>2. Len(s) + 1 \notin AckPlaces(s)
    BY <1>1 DEF AckPlaces
  <2> QED
    BY <1>2, <2>1, <2>2, AckType, FS_AddElement DEF Acks
<1>3. CASE c # "ACK"
  <2>1. AckPlaces(Append(s, c)) = AckPlaces(s)
    BY <1>1, <1>3 DEF AckPlaces
  <2> QED
    BY <1>3, <2>1, AckType DEF Acks
<1> QED
  BY <1>2, <1>3

(* ... and when one is taken off it. *)
LEMMA AckTail ==
    ASSUME NEW s \in Seq(Answers), s # <<>>
    PROVE  Acks(s) = Acks(Tail(s)) + (IF Head(s) = "ACK" THEN 1 ELSE 0)
<1>1. /\ Len(s) \in Nat /\ Len(s) >= 1 /\ Len(Tail(s)) = Len(s) - 1
      /\ \A i \in 1 .. Len(s) - 1 : Tail(s)[i] = s[i + 1]
      /\ Head(s) = s[1] /\ Tail(s) \in Seq(Answers)
  BY HeadTailProperties, LenProperties, EmptySeq
<1> DEFINE Rest == AckPlaces(s) \ {1}
<1>2. IsFiniteSet(Rest) /\ IsFiniteSet(AckPlaces(Tail(s)))
  BY <1>1, AckType, FS_Subset
<1>3. Cardinality(Rest) = Cardinality(AckPlaces(Tail(s)))
  <2> DEFINE shift == [i \in AckPlaces(Tail(s)) |-> i + 1]
  <2>1. shift \in Bijection(AckPlaces(Tail(s)), Rest)
    <3>1. shift \in [AckPlaces(Tail(s)) -> Rest]
      BY <1>1 DEF AckPlaces
    <3>2. \A i, j \in AckPlaces(Tail(s)) : shift[i] = shift[j] => i = j
      BY <1>1 DEF AckPlaces
    <3>3. \A j \in Rest : \E i \in AckPlaces(Tail(s)) : shift[i] = j
      <4> TAKE j \in Rest
      <4>1. j - 1 \in AckPlaces(Tail(s))
        BY <1>1 DEF AckPlaces
      <4>2. shift[j - 1] = j
        BY <4>1, <1>1 DEF AckPlaces
      <4> QED
        BY <4>1, <4>2
    <3> HIDE DEF shift, Rest
    <3> QED
      BY <3>1, <3>2, <3>3, Fun_IsBij
  <2> HIDE DEF shift, Rest
  <2>2. ExistsBijection(AckPlaces(Tail(s)), Rest)
    BY <2>1 DEF ExistsBijection
  <2> QED
    BY <1>2, <2>2, FS_Bijection
<1>4. CASE Head(s) = "ACK"
  <2>1. 1 \in AckPlaces(s)
    BY <1>1, <1>4 DEF AckPlaces
  <2>2. Cardinality(Rest) = Acks(s) - 1
    BY <2>1, AckType, FS_RemoveElement DEF Acks
  <2> QED
    BY <1>1, <1>3, <1>4, <2>2, AckType DEF Acks
<1>5. CASE Head(s) # "ACK"
  <2>1. Rest = AckPlaces(s)
    BY <1>1, <1>5 DEF AckPlaces
  <2>2. Acks(s) = Acks(Tail(s))
    BY <1>3, <2>1 DEF Acks
  <2>3. Acks(Tail(s)) \in Nat
    BY <1>1, AckType
  <2> HIDE DEF Rest
  <2> QED
    BY <1>5, <2>2, <2>3
<1> QED
  BY <1>4, <1>5

(***************************************************************************)
(* What a step of send does.                                               *)
(***************************************************************************)
SendWaits ==
    /\ pc = "start" /\ pc' = "start"
    /\ UNCHANGED <<n, sequence, toBoard, result>>
    /\ toHost' = toHost \/ (toHost # <<>> /\ toHost' = Tail(toHost))

SendBegins ==
    /\ pc = "start" /\ pc' = (IF N = 0 THEN "eot" ELSE "emit")
    /\ error_count' = 0 /\ UNCHANGED <<n, sequence, toBoard, result, trouble>>
    /\ toHost # <<>> /\ Head(toHost) \in {"C", "NAK"} /\ toHost' = Tail(toHost)

SendStops ==
    /\ pc' = "returned" /\ result' \in {"False", "TypeError"}
    /\ UNCHANGED <<n, sequence>>
    /\ toBoard' = toBoard \/ toBoard' = toBoard \o <<Can, Can>>
    /\ pc = "start" \/ error_count' = error_count + 1

SendRetries ==
    /\ pc \in {"answer", "eot_answer"}
    /\ pc' = (IF pc = "answer" THEN "emit" ELSE "eot")
    /\ error_count' = error_count + 1
    /\ UNCHANGED <<n, sequence, toBoard, result>>
    /\ \/ /\ toHost = <<>> /\ toHost' = toHost
          /\ toBoard = <<>> \/ stray'
       \/ /\ toHost # <<>> /\ Head(toHost) # "ACK" /\ toHost' = Tail(toHost)
          /\ UNCHANGED trouble

(* What a step of send does to the transfer is one of these effects. *)
LEMMA SendEffects ==
    ASSUME SenderType, ReceiverType, Send
    PROVE  /\ UNCHANGED receiver
           /\ \/ SendWaits \/ SendBegins \/ SendStops \/ SendRetries
              \/ Emit \/ ReadAck \/ EmitEot \/ ReadEotAck
<1>1. UNCHANGED receiver
  BY SendTypes
<1>2. CASE ReadStart
  <2>1. pc = "start" /\ toHost # <<>> /\ toHost' = Tail(toHost)
        /\ UNCHANGED trouble
    BY <1>2 DEF ReadStart
  <2>2. CASE Retransmit("start")
    <3>1. n = 0 /\ pc # "returned"
      BY <2>1 DEF SenderType
    <3> QED
      BY <1>1, <2>1, <2>2, <3>1, Retried DEF SendWaits, SendStops
  <2>3. CASE StartData /\ UNCHANGED <<n, sequence, cancel>>
             /\ Head(toHost) \in {"C", "NAK"}
    BY <1>1, <2>1, <2>3 DEF SendBegins, StartData
  <2>4. CASE /\ pc' = "returned" /\ UNCHANGED <<n, sequence, toBoard>>
             /\ result' \in {"TypeError", "False"}
    BY <1>1, <2>1, <2>4 DEF SendStops
  <2>5. CASE /\ UNCHANGED <<n, sequence>>
             /\ \/ TooMany /\ Abort
                \/ ~TooMany /\ UNCHANGED <<pc, toBoard, result>>
    BY <1>1, <2>1, <2>5 DEF Abort, SendStops, SendWaits
  <2> QED
    BY <1>2, <2>2, <2>3, <2>4, <2>5 DEF ReadStart
<1>3. CASE StartTimeout
  <2>1. n = 0 /\ pc = "start" /\ Retransmit("start") /\ toHost' = toHost
    BY <1>3 DEF StartTimeout, Silence, SenderType
  <2> QED
    BY <1>1, <2>1, Retried DEF SendWaits, SendStops
<1>4. CASE ReadOther \/ ReadEotOther
  <2>1. /\ pc \in {"answer", "eot_answer"} /\ UNCHANGED trouble
        /\ Retransmit(IF pc = "answer" THEN "emit" ELSE "eot")
        /\ toHost # <<>> /\ Head(toHost) # "ACK" /\ toHost' = Tail(toHost)
        /\ pc = "answer" => n < N
    BY <1>4 DEF ReadOther, ReadEotOther, Acked, SenderType
  <2> QED
    BY <1>1, <2>1, Retried DEF SendRetries, SendStops
<1>5. CASE AnswerTimeout \/ EotTimeout
  <2>1. /\ pc \in {"answer", "eot_answer"}
        /\ Retransmit(IF pc = "answer" THEN "emit" ELSE "eot")
        /\ toHost = <<>> /\ toHost' = toHost
        /\ toBoard = <<>> \/ stray'
        /\ pc = "answer" => n < N
    BY <1>5
    DEF AnswerTimeout, EotTimeout, Silence, GivenUpOn, StrayFault, SenderType
  <2> QED
    BY <1>1, <2>1, Retried DEF SendRetries, SendStops
<1> QED
  BY <1>1, <1>2, <1>3, <1>4, <1>5 DEF Send

(***************************************************************************)
(* What a step of the board does: it stores a packet, answers one with ACK *)
(* that it has, completes, or takes or adds a byte that is no ACK.         *)
(***************************************************************************)
(* One of: the answer c, another that is no ACK, or none. *)
Answered(c) ==
    toHost' = toHost \/ toHost' = Append(toHost, c) \/ toHost' = Append(toHost, "junk")

TakesHead == toBoard # <<>> /\ toBoard' = Tail(toBoard)

Asks == \E c \in {"C", "NAK", "CAN"} :
    /\ toHost' = Append(toHost, c) /\ UNCHANGED <<toBoard, expect, stored>>
    /\ \/ c \in {"C", "NAK"} /\ board = "waiting" /\ board' = "receiving"
       \/ c = "CAN" /\ board = "waiting" /\ board' = board
       \/ board = "receiving" /\ board' = board /\ stray'

OtherTakes ==
    /\ TakesHead /\ UNCHANGED <<expect, stored>>
    /\ board' = board \/ (board' = "cancelled" /\ board # "complete")
    /\ Answered("NAK")

(* What a step of the board does to it is one of these. *)
LEMMA ReceiverEffects ==
    ASSUME SenderType, ReceiverType, Receiver
    PROVE  /\ UNCHANGED sender
           /\ BoardStores \/ BoardHasIt \/ BoardCompletes \/ Asks \/ OtherTakes
<1>1. UNCHANGED sender
  BY ReceiverTypes
<1>2. CASE FirstAsk \/ AskAgain \/ AskChecksum \/ UserCancels
  BY <1>1, <1>2 DEF FirstAsk, AskAgain, AskChecksum, UserCancels, Ask, Asks,
                    StrayFault
<1>3. CASE BoardRefuses \/ PacketCorrupted \/ BoardIsCancelled \/ BoardIgnores
  BY <1>1, <1>3
  DEF BoardRefuses, PacketCorrupted, BoardIsCancelled, BoardIgnores, Takes,
      AtBoard, Answer, Answered, OtherTakes, TakesHead, receiver
<1> QED
  BY <1>1, <1>2, <1>3 DEF Receiver

(***************************************************************************)
(* The line to the board.                                                  *)
(***************************************************************************)
LEMMA TailLine ==
    ASSUME NEW s \in Seq(Messages), s # <<>>
    PROVE  /\ Len(s) \in Nat /\ Len(s) >= 1 /\ Len(Tail(s)) = Len(s) - 1
           /\ Head(s) = s[1] /\ s[1] \in Messages
           /\ \A i \in 1 .. Len(s) - 1 : Tail(s)[i] = s[i + 1]
  BY HeadTailProperties, LenProperties, EmptySeq

(* A line with one more message on it, ... *)
LEMMA LongerLine ==
    ASSUME NEW s \in Seq(Messages), NEW m \in Messages
    PROVE  /\ Len(s) \in Nat /\ Len(Append(s, m)) = Len(s) + 1
           /\ \A i \in 1 .. Len(s) : Append(s, m)[i] = s[i]
           /\ Append(s, m)[Len(s) + 1] = m
  BY AppendProperties, LenProperties

(* ... and with the two CANs on it. *)
LEMMA CanLine ==
    ASSUME NEW s \in Seq(Messages)
    PROVE  /\ Len(s) \in Nat /\ Len(s \o <<Can, Can>>) = Len(s) + 2
           /\ \A i \in 1 .. Len(s) + 2 :
                 (s \o <<Can, Can>>)[i] = IF i \in 1 .. Len(s) THEN s[i] ELSE Can
<1>1. <<Can, Can>> \in Seq(Messages) /\ Len(<<Can, Can>>) = 2
      /\ <<Can, Can>>[1] = Can /\ <<Can, Can>>[2] = Can
  BY DEF Messages
<1> DEFINE cc == <<Can, Can>>
<1>2. /\ cc \in Seq(Messages) /\ Len(cc) = 2
      /\ \A i \in 1 .. 2 : cc[i] = Can
  BY <1>1
<1> HIDE DEF cc
<1>3. /\ Len(s \o cc) = Len(s) + Len(cc) /\ Len(s) \in Nat
      /\ \A i \in 1 .. Len(s) + Len(cc) : (s \o cc)[i] =
            IF i <= Len(s) THEN s[i] ELSE cc[i - Len(s)]
  BY <1>2, ConcatProperties, LenProperties
<1>4. ASSUME NEW i \in 1 .. Len(s) + 2
      PROVE  (s \o cc)[i] = IF i \in 1 .. Len(s) THEN s[i] ELSE Can
  <2>1. CASE i <= Len(s)
    BY <1>2, <1>3, <2>1
  <2>2. CASE i > Len(s)
    <3>1. i - Len(s) \in 1 .. 2
      BY <1>3, <2>2
    <3> QED
      BY <1>2, <1>3, <2>2, <3>1
  <2> QED
    <3>1. i \in Int /\ Len(s) \in Int
      BY <1>3
    <3>2. i <= Len(s) \/ i > Len(s)
      BY <3>1
    <3> QED
      BY <2>1, <2>2, <3>2
<1> QED
  BY <1>2, <1>3, <1>4 DEF cc

(* What tells the messages apart. *)
LEMMA Kinds ==
    /\ Can.kind # "packet" /\ Eot.kind # "packet"
    /\ \A m \in Messages : m.kind = "packet" =>
          m.data \in 1 .. N /\ m.seq \in 0 .. (SeqMod - 1)
  BY DEF Messages, Packets, Can, Eot

(* The packet that send is at. *)
LEMMA CurrentIs ==
    ASSUME SenderType, n < N
    PROVE  /\ Current \in Messages /\ Current.kind = "packet"
           /\ Current.seq = sequence /\ Current.data = n + 1
  BY Constants DEF Current, Packet, Messages, Packets, SenderType

(* The steps of the dialogue go forward. *)
Early == {"none", "autoboot", "install", "wait"}

(* A dialogue that has left its first part does not come back to it. *)
LEMMA WriterForward ==
    ASSUME WriterType, [Next]_vars
    PROVE  writer' \in Early => writer \in Early
  BY DEF Early, WriterType, Next, vars, xmodemVars, trouble, hostVars, boardVars,
         Host, Writer, BoardStep, Popen, Communicated, TimeoutExpired, Killed,
         OpenPort, ReadBoot, ReadHelp, LineGarbled, PromptStolen, WriterKeeps,
         cancel_autoboot, SendInstall, WaitForXmodem, ModemSend, AfterSend,
         ModemReturned, wait_for_prompt, Sync, Reboot, TextGarbled,
         BoardReceives, BackToPrompt, Boots, BoardDies, BoardDrops

(* Nothing is sent or stored before the receiver has asked. *)
LEMMA NextAtStart == TypeInv /\ AtStart /\ [Next]_vars => AtStart'
<1> SUFFICES ASSUME TypeInv, AtStart, [Next]_vars PROVE AtStart'
  OBVIOUS
<1>t. SenderType /\ ReceiverType /\ WriterType /\ toHost \in Seq(Answers)
      /\ toBoard \in Seq(Messages)
  BY DEF TypeInv, SenderType, ReceiverType
<1>1. CASE Send /\ writer = "xmodem" /\ UNCHANGED writer
  <2>1. pc' = "start" => SendWaits
    BY <1>1, <1>t, SendEffects
    DEF SendBegins, SendStops, SendRetries, Emit, ReadAck, EmitEot, ReadEotAck
  <2>2. ASSUME SendWaits PROVE Acks(toHost') = 0
    <3>1. Acks(toHost) = 0
      BY <2>2 DEF SendWaits, AtStart
    <3>2. CASE toHost # <<>> /\ toHost' = Tail(toHost)
      <4>1. Tail(toHost) \in Seq(Answers)
        BY <1>t, <3>2
      <4>2. Acks(Tail(toHost)) \in Nat
        BY <4>1, AckType
      <4> QED
        BY <1>t, <3>1, <3>2, <4>2, AckTail
    <3> QED
      BY <2>2, <3>1, <3>2 DEF SendWaits
  <2>3. UNCHANGED receiver
    BY <1>1, <1>t, SendEffects
  <2> QED
    BY <1>1, <2>1, <2>2, <2>3 DEF AtStart, SendWaits, receiver
<1>2. CASE Receiver /\ UNCHANGED writer
  <2>1. UNCHANGED sender
    BY <1>2, <1>t, ReceiverEffects
  <2>2. CASE pc = "start"
    <3>1. toBoard = <<>> /\ Acks(toHost) = 0
      BY <2>2 DEF AtStart
    <3>2. Asks
      BY <1>2, <1>t, <3>1, ReceiverEffects
      DEF BoardStores, BoardHasIt, BoardCompletes, AtBoard, OtherTakes, TakesHead
    <3>3. PICK c \in {"C", "NAK", "CAN"} : toHost' = Append(toHost, c)
      BY <3>2 DEF Asks
    <3>4. Acks(toHost') = 0
      BY <1>t, <3>1, <3>3, AckAppend DEF Answers
    <3> QED
      BY <1>2, <2>1, <2>2, <3>2, <3>4 DEF AtStart, Asks, sender
  <2>3. CASE pc # "start"
    BY <1>2, <2>1, <2>3 DEF AtStart, sender
  <2> QED
    BY <2>2, <2>3
<1>3. CASE SendInstall \/ WaitForXmodem \/ BoardDrops \/ BoardDies
  <2>1. /\ UNCHANGED sender
        /\ toBoard' = toBoard \/ toBoard' = <<>>
        /\ toHost' = toHost \/ toHost' = <<>>
        /\ \/ UNCHANGED <<expect, stored>>
           \/ expect' = 1 /\ stored' = <<>>
    BY <1>3 DEF SendInstall, WaitForXmodem, BoardDrops, BoardDies, receiver,
                line, trouble
  <2>2. writer' \in Early => writer \in Early
    BY <1>t, WriterForward
  <2>3. pc' = pc /\ sequence' = sequence
    BY <2>1 DEF sender
  <2>4. pc' = "start" => /\ toBoard' = <<>> /\ stored' = <<>> /\ expect' = 1
                         /\ sequence' = 1 /\ Acks(toHost') = 0
    BY <2>1, <2>3, AckEmpty, Zenon DEF AtStart
  <2> QED
    BY <2>2, <2>3, <2>4, Zenon DEF AtStart, Early
<1>4. CASE UNCHANGED <<sender, receiver, line>>
  <2>1. writer' \in Early => writer \in Early
    BY <1>t, WriterForward
  <2> QED
    BY <1>4, <2>1 DEF AtStart, sender, receiver, line, Early
<1> QED
  BY <1>1, <1>2, <1>3, <1>4, Steps

(* The packet the board stores is the next one of the file. *)
LEMMA StoresNext ==
    ASSUME SenderType, ReceiverType, Numbered, InOrder, Ahead, BoardStores
    PROVE  Head(toBoard).data = Len(stored) + 1
<1> DEFINE m == Head(toBoard)
<1>1. m \in Messages /\ m.kind = "packet" /\ m.seq = expect /\ m = toBoard[1]
      /\ Len(toBoard) >= 1 /\ Len(toBoard) \in Nat
  BY TailLine DEF BoardStores, AtBoard, SenderType
<1>2. m.data \in 1 .. N /\ expect \in 0 .. (SeqMod - 1) /\ Len(stored) \in Nat
  BY <1>1, Kinds, LenProperties DEF ReceiverType
<1>3. /\ NumberOf(expect, m.data) /\ NumberOf(expect, Len(stored) + 1)
      /\ Len(stored) <= m.data /\ m.data <= n + 1
  <2>1. 1 \in 1 .. Len(toBoard)
    BY <1>1
  <2> QED
    BY <1>1, <2>1 DEF Numbered, InOrder
<1>4. m.data <= Len(stored) + 1 + Retry
  BY <1>2, <1>3, Constants DEF Ahead, SenderType
<1> SUFFICES m.data = Len(stored) + 1
  OBVIOUS
<1> HIDE DEF m
<1>5. CASE m.data = Len(stored)
  BY <1>2, <1>3, <1>5, NumberTells, Constants
<1>6. CASE m.data >= Len(stored) + 1
  <2>1. /\ m.data \in Nat /\ Len(stored) + 1 \in Nat
        /\ Len(stored) + 1 <= m.data /\ m.data - (Len(stored) + 1) < SeqMod
    BY <1>2, <1>4, <1>6, Constants
  <2> QED
    BY <1>2, <1>3, <2>1, NumberTells
<1> QED
  BY <1>2, <1>3, <1>5, <1>6, Constants

(* While the sender counts answers, the packet the board already has is the
   last one it stored. *)
LEMMA HasTheLast ==
    ASSUME SenderType, ReceiverType, Numbered, InOrder, Ahead, BoardHasIt,
           pc # "returned"
    PROVE  Head(toBoard).data = Len(stored)
<1> DEFINE m == Head(toBoard)
<1>1. m \in Messages /\ m.kind = "packet" /\ m.seq = Before(expect)
      /\ m = toBoard[1] /\ Len(toBoard) >= 1 /\ Len(toBoard) \in Nat
  BY TailLine DEF BoardHasIt, AtBoard, SenderType
<1>2. m.data \in 1 .. N /\ expect \in 0 .. (SeqMod - 1) /\ Len(stored) \in Nat
  BY <1>1, Kinds, LenProperties DEF ReceiverType
<1>3. NumberOf(Before(expect), Len(stored)) /\ Before(expect) \in 0 .. (SeqMod - 1)
  BY <1>2, NumberBefore DEF Numbered
<1>4. /\ NumberOf(Before(expect), m.data)
      /\ Len(stored) <= m.data /\ m.data <= n + 1
  <2>1. 1 \in 1 .. Len(toBoard)
    BY <1>1
  <2> QED
    BY <1>1, <2>1 DEF Numbered, InOrder
<1>5. m.data < Len(stored) + SeqMod
  BY <1>2, <1>4, Constants DEF Ahead, SenderType
<1> HIDE DEF m
<1>6. m.data = Len(stored)
  BY <1>2, <1>3, <1>4, <1>5, NumberTells, Constants
<1> QED
  BY <1>6 DEF m

(* Sending keeps the order and the numbers on the line. *)
LEMMA SendKeepsOrder ==
    ASSUME SenderType, ReceiverType, Numbered, InOrder, Send
    PROVE  Numbered' /\ InOrder'
<1>t. /\ toBoard \in Seq(Messages) /\ Len(toBoard) \in Nat /\ Len(stored) \in Nat
      /\ n \in 0 .. N /\ n \in Nat /\ sequence \in 0 .. (SeqMod - 1)
      /\ \A i \in 1 .. Len(toBoard) : toBoard[i] \in Messages
  BY LenProperties, ElementOfSeq, Constants DEF SenderType, ReceiverType
<1>k. \A i \in 1 .. Len(toBoard) : toBoard[i].kind = "packet" => toBoard[i].data \in Nat
  BY <1>t, Kinds, Constants
<1>r. UNCHANGED <<expect, stored>>
  BY SendEffects DEF receiver
<1>1. CASE ReadAck
  <2>1. n' = n + 1 /\ sequence' = (sequence + 1) % SeqMod /\ toBoard' = toBoard
    BY <1>1 DEF ReadAck
  <2>2. NumberOf(sequence', n' + 1)
    BY <1>t, <2>1, NextNumber DEF Numbered
  <2>3. Numbered'
    BY <1>r, <2>1, <2>2 DEF Numbered
  <2>4. InOrder'
    BY <1>t, <1>k, <1>r, <2>1 DEF InOrder
  <2> QED
    BY <2>3, <2>4
<1>2. CASE UNCHANGED <<n, sequence, toBoard>>
  BY <1>r, <1>2 DEF Numbered, InOrder
<1>3. CASE Emit
  <2>1. UNCHANGED <<n, sequence>> /\ n < N /\ toBoard' = Append(toBoard, Current)
    BY <1>3 DEF Emit, SenderType
  <2>2. /\ Current.kind = "packet" /\ Current.seq = sequence
        /\ Current.data = n + 1
        /\ Len(toBoard') = Len(toBoard) + 1
        /\ \A i \in 1 .. Len(toBoard) : toBoard'[i] = toBoard[i]
        /\ toBoard'[Len(toBoard) + 1] = Current
    BY <1>t, <2>1, CurrentIs, LongerLine
  <2>3. Numbered'
    BY <1>t, <1>r, <2>1, <2>2 DEF Numbered
  <2>4. InOrder'
    BY <1>t, <1>k, <1>r, <2>1, <2>2 DEF InOrder
  <2> QED
    BY <2>3, <2>4
<1>4. CASE EmitEot \/ (SendStops /\ toBoard' # toBoard)
  <2>1. UNCHANGED <<n, sequence>>
    BY <1>4 DEF EmitEot, SendStops
  <2>2. /\ Len(toBoard') \in Nat /\ Len(toBoard') >= Len(toBoard)
        /\ \A i \in 1 .. Len(toBoard) : toBoard'[i] = toBoard[i]
        /\ \A i \in 1 .. Len(toBoard') :
              toBoard'[i].kind = "packet" => i \in 1 .. Len(toBoard)
    <3>1. CASE EmitEot
      <4>1. Eot \in Messages /\ toBoard' = Append(toBoard, Eot)
        BY <3>1 DEF Messages, EmitEot
      <4> QED
        BY <1>t, <4>1, LongerLine, Kinds
    <3>2. CASE toBoard' = toBoard \o <<Can, Can>>
      <4> DEFINE longer == toBoard \o <<Can, Can>>
      <4>1. /\ Len(longer) = Len(toBoard) + 2
            /\ \A i \in 1 .. Len(toBoard) + 2 :
                  longer[i] = IF i \in 1 .. Len(toBoard) THEN toBoard[i] ELSE Can
        BY <1>t, CanLine
      <4>2. toBoard' = longer
        BY <3>2
      <4> HIDE DEF longer
      <4> QED
        BY <1>t, <4>1, <4>2, Kinds
    <3> QED
      BY <1>4, <3>1, <3>2 DEF SendStops
  <2>3. Numbered'
    BY <1>t, <1>r, <2>1, <2>2 DEF Numbered
  <2>4. InOrder'
    BY <1>t, <1>k, <1>r, <2>1, <2>2 DEF InOrder
  <2> QED
    BY <2>3, <2>4
<1> QED
  BY <1>1, <1>2, <1>3, <1>4, SendEffects
  DEF SendWaits, SendBegins, SendStops, SendRetries, ReadEotAck

(* When the first packet has left the line, the others are one place on. *)
LEMMA OnePlaceOn ==
    ASSUME NEW s, NEW u, Len(s) \in Nat, Len(u) = Len(s) - 1,
           \A k \in 1 .. Len(s) - 1 : u[k] = s[k + 1], NEW i \in 1 .. Len(u)
    PROVE  i \in Nat /\ i + 1 \in 1 .. Len(s) /\ u[i] = s[i + 1]
OBVIOUS

(* So does the board, which stores the packets in the order of the file. *)
LEMMA BoardKeepsOrder ==
    ASSUME SenderType, ReceiverType, Numbered, InOrder, Ahead, StoredInOrder,
           Receiver
    PROVE  Numbered' /\ InOrder' /\ StoredInOrder'
           /\ Len(stored') \in Nat /\ Len(stored) <= Len(stored')
<1>t. /\ toBoard \in Seq(Messages) /\ Len(toBoard) \in Nat /\ Len(stored) \in Nat
      /\ n \in 0 .. N /\ n \in Nat /\ expect \in 0 .. (SeqMod - 1)
      /\ stored \in Seq(1 .. N)
      /\ \A i \in 1 .. Len(toBoard) : toBoard[i] \in Messages
  BY LenProperties, ElementOfSeq, Constants DEF SenderType, ReceiverType
<1>k. \A i \in 1 .. Len(toBoard) : toBoard[i].kind = "packet" => toBoard[i].data \in Nat
  BY <1>t, Kinds, Constants
<1>s. UNCHANGED <<n, sequence>>
  BY ReceiverEffects DEF sender
<1>1. CASE Asks
  BY <1>1, <1>s, <1>t DEF Asks, Numbered, InOrder, StoredInOrder
<1>2. CASE BoardHasIt \/ BoardCompletes \/ OtherTakes
  <2>1. UNCHANGED <<expect, stored>> /\ TakesHead
    BY <1>2 DEF BoardHasIt, BoardCompletes, OtherTakes, TakesHead, Takes,
                AtBoard, receiver
  <2>2. /\ Len(toBoard') = Len(toBoard) - 1
        /\ \A i \in 1 .. Len(toBoard) - 1 : toBoard'[i] = toBoard[i + 1]
    BY <1>t, <2>1, TailLine DEF TakesHead
  <2>3. Numbered'
    <3>1. NumberOf(sequence', n' + 1) /\ NumberOf(expect', Len(stored') + 1)
      BY <1>s, <2>1 DEF Numbered
    <3>2. ASSUME NEW i \in 1 .. Len(toBoard'), toBoard'[i].kind = "packet"
          PROVE  NumberOf(toBoard'[i].seq, toBoard'[i].data)
      <4>1. i + 1 \in 1 .. Len(toBoard) /\ toBoard'[i] = toBoard[i + 1]
        BY <1>t, <2>2, OnePlaceOn
      <4>2. toBoard[i + 1].kind = "packet"
        BY <3>2, <4>1, Zenon
      <4>3. NumberOf(toBoard[i + 1].seq, toBoard[i + 1].data)
        BY <4>1, <4>2, Zenon DEF Numbered
      <4> QED
        BY <4>1, <4>3, Zenon
    <3> QED
      BY <3>1, <3>2, Zenon DEF Numbered
  <2>4. InOrder'
    <3>1. ASSUME NEW i \in 1 .. Len(toBoard'), toBoard'[i].kind = "packet"
          PROVE  Len(stored) <= toBoard'[i].data /\ toBoard'[i].data <= n + 1
      <4>1. i + 1 \in 1 .. Len(toBoard) /\ toBoard'[i] = toBoard[i + 1]
        BY <1>t, <2>2, OnePlaceOn
      <4>2. toBoard[i + 1].kind = "packet"
        BY <3>1, <4>1, Zenon
      <4>3. Len(stored) <= toBoard[i + 1].data /\ toBoard[i + 1].data <= n + 1
        BY <4>1, <4>2, Zenon DEF InOrder
      <4> QED
        BY <4>1, <4>3, Zenon
    <3>2. ASSUME NEW i \in 1 .. Len(toBoard'), NEW j \in 1 .. Len(toBoard'),
                 i < j, toBoard'[i].kind = "packet", toBoard'[j].kind = "packet"
          PROVE  toBoard'[i].data <= toBoard'[j].data
      <4>1. /\ i + 1 \in 1 .. Len(toBoard) /\ j + 1 \in 1 .. Len(toBoard)
            /\ i + 1 < j + 1 /\ toBoard'[i] = toBoard[i + 1]
            /\ toBoard'[j] = toBoard[j + 1]
        <5>1. /\ i + 1 \in 1 .. Len(toBoard) /\ j + 1 \in 1 .. Len(toBoard)
              /\ toBoard'[i] = toBoard[i + 1] /\ toBoard'[j] = toBoard[j + 1]
              /\ i \in Nat /\ j \in Nat
          BY <1>t, <2>2, OnePlaceOn
        <5> QED
          BY <3>2, <5>1
      <4>2. toBoard[i + 1].kind = "packet" /\ toBoard[j + 1].kind = "packet"
        BY <3>2, <4>1
      <4>3. toBoard[i + 1].data <= toBoard[j + 1].data
        BY <4>1, <4>2 DEF InOrder
      <4> QED
        BY <4>1, <4>3
    <3> QED
      BY <1>s, <1>t, <2>1, <3>1, <3>2 DEF InOrder
  <2> QED
    BY <1>t, <2>1, <2>3, <2>4 DEF StoredInOrder
<1>3. CASE BoardStores
  <2> DEFINE m == Head(toBoard)
  <2>1. /\ toBoard # <<>> /\ toBoard' = Tail(toBoard) /\ m.kind = "packet"
        /\ stored' = Append(stored, m.data) /\ expect' = (expect + 1) % SeqMod
    BY <1>3 DEF BoardStores, AtBoard, Takes
  <2>2. m.data = Len(stored) + 1 /\ m = toBoard[1] /\ Len(toBoard) >= 1
    BY <1>3, <1>t, <2>1, StoresNext, TailLine
  <2>3. m.data \in 1 .. N /\ m.data <= n + 1
    BY <1>t, <2>1, <2>2, Kinds DEF InOrder
  <2>4. /\ Len(stored') = Len(stored) + 1
        /\ \A i \in 1 .. Len(stored) : stored'[i] = stored[i]
        /\ stored'[Len(stored) + 1] = m.data
    BY <1>t, <2>1, <2>3, AppendProperties
  <2>5. /\ Len(toBoard') = Len(toBoard) - 1
        /\ \A i \in 1 .. Len(toBoard) - 1 : toBoard'[i] = toBoard[i + 1]
    BY <1>t, <2>1, TailLine
  <2> HIDE DEF m
  <2>6. NumberOf(expect', Len(stored') + 1)
    BY <1>t, <2>1, <2>4, NextNumber DEF Numbered
  <2>7. Numbered'
    BY <1>s, <1>t, <2>5, <2>6 DEF Numbered
  <2>8. InOrder'
    <3>1. ASSUME NEW i \in 1 .. Len(toBoard'), toBoard'[i].kind = "packet"
          PROVE  Len(stored') <= toBoard'[i].data /\ toBoard'[i].data <= n + 1
      <4>1. i + 1 \in 1 .. Len(toBoard) /\ toBoard'[i] = toBoard[i + 1]
        BY <1>t, <2>5, <3>1
      <4>2. /\ toBoard[1].data <= toBoard[i + 1].data
            /\ toBoard[i + 1].data <= n + 1
        BY <1>t, <2>1, <2>2, <3>1, <4>1 DEF InOrder
      <4> QED
        BY <2>2, <2>4, <4>1, <4>2
    <3>2. ASSUME NEW i \in 1 .. Len(toBoard'), NEW j \in 1 .. Len(toBoard'),
                 i < j, toBoard'[i].kind = "packet", toBoard'[j].kind = "packet"
          PROVE  toBoard'[i].data <= toBoard'[j].data
      <4>1. /\ i + 1 \in 1 .. Len(toBoard) /\ j + 1 \in 1 .. Len(toBoard)
            /\ i + 1 < j + 1 /\ toBoard'[i] = toBoard[i + 1]
            /\ toBoard'[j] = toBoard[j + 1]
        <5>1. /\ i + 1 \in 1 .. Len(toBoard) /\ j + 1 \in 1 .. Len(toBoard)
              /\ toBoard'[i] = toBoard[i + 1] /\ toBoard'[j] = toBoard[j + 1]
              /\ i \in Nat /\ j \in Nat
          BY <1>t, <2>5, OnePlaceOn
        <5> QED
          BY <3>2, <5>1
      <4>2. toBoard[i + 1].kind = "packet" /\ toBoard[j + 1].kind = "packet"
        BY <3>2, <4>1
      <4>3. toBoard[i + 1].data <= toBoard[j + 1].data
        BY <4>1, <4>2 DEF InOrder
      <4> QED
        BY <4>1, <4>3
    <3>3. Len(stored') <= n + 1
      BY <2>2, <2>3, <2>4
    <3> QED
      BY <1>s, <3>1, <3>2, <3>3 DEF InOrder
  <2>9. StoredInOrder'
    <3>1. \A k \in 1 .. Len(stored) : stored[k] = k
      BY DEF StoredInOrder
    <3>2. \A k \in 1 .. Len(stored') : stored'[k] = k
      BY <1>t, <2>2, <2>4, <3>1
    <3>3. Len(stored') <= N
      BY <1>t, <2>2, <2>3, <2>4, Constants
    <3> QED
      BY <3>2, <3>3 DEF StoredInOrder
  <2> QED
    BY <1>t, <2>4, <2>7, <2>8, <2>9
<1> QED
  BY <1>1, <1>2, <1>3, ReceiverEffects

(* Sending keeps the account of the acknowledgements. *)
LEMMA SendKeepsAccount ==
    ASSUME SenderType, ReceiverType, AtStart, Ahead, Accounted, Send
    PROVE  Ahead' /\ Accounted'
<1>t. /\ toBoard \in Seq(Messages) /\ Len(toBoard) \in Nat /\ Len(stored) \in Nat
      /\ n \in Nat /\ error_count \in Nat /\ toHost \in Seq(Answers)
      /\ Acks(toHost) \in Nat
      /\ \A i \in 1 .. Len(toBoard) : toBoard[i] \in Messages
  BY LenProperties, ElementOfSeq, AckType, Constants DEF SenderType, ReceiverType
<1>k. \A i \in 1 .. Len(toBoard) : toBoard[i].kind = "packet" => toBoard[i].data \in Nat
  BY <1>t, Kinds, Constants
<1>r. stored' = stored
  BY SendEffects DEF receiver
<1>h. ASSUME toHost # <<>>
      PROVE  /\ Acks(Tail(toHost)) \in Nat
             /\ Head(toHost) = "ACK" => Acks(toHost) = Acks(Tail(toHost)) + 1
             /\ Head(toHost) # "ACK" => Acks(toHost) = Acks(Tail(toHost))
  <2>1. Tail(toHost) \in Seq(Answers)
    BY <1>t, <1>h, HeadTailProperties
  <2>2. Acks(Tail(toHost)) \in Nat
    BY <2>1, AckType
  <2>3. Acks(toHost) = Acks(Tail(toHost)) + (IF Head(toHost) = "ACK" THEN 1 ELSE 0)
    BY <1>t, <1>h, AckTail
  <2> QED
    BY <2>2, <2>3
<1>1. CASE SendWaits \/ SendStops
  <2>1. pc' \notin {"emit", "answer"} /\ n' = n
    BY <1>1 DEF SendWaits, SendStops
  <2>2. pc = "start" => n = 0
    BY DEF SenderType
  <2>3. error_count' \in Nat
    BY SendTypes, Constants DEF SenderType
  <2>4. Ahead'
    BY <1>1, <1>r, <1>t, <2>1, <2>2, <2>3 DEF Ahead, SendWaits, SendStops
  <2> QED
    BY <2>1, <2>4 DEF Accounted
<1>2. CASE SendBegins
  <2>1. /\ n' = 0 /\ error_count' = 0 /\ Acks(toHost) = 0 /\ pc' # "answer"
        /\ toBoard' = <<>>
    BY <1>2 DEF SendBegins, AtStart, SenderType
  <2>2. Acks(toHost') = 0
    BY <1>2, <1>h, <2>1 DEF SendBegins
  <2>3. Len(toBoard') = 0
    BY <2>1, EmptySeq, Zenon
  <2>4. Len(stored') \in Nat
    BY <1>r, <1>t
  <2> QED
    BY <2>1, <2>2, <2>3, <2>4 DEF Ahead, Accounted
<1>3. CASE SendRetries
  <2>1. Acks(toHost') = Acks(toHost)
    BY <1>3, <1>t, <1>h DEF SendRetries
  <2>2. Ahead'
    BY <1>3, <1>r, <1>t DEF Ahead, SendRetries
  <2>3. Accounted'
    <3>1. /\ n' = n /\ error_count' = error_count + 1 /\ toBoard' = toBoard
          /\ stored' = stored /\ pc' # "answer"
          /\ pc' = "emit" => pc = "answer"
      BY <1>3, <1>r DEF SendRetries
    <3>2. CASE pc = "answer"
      <4>1. /\ n + Acks(toHost) <= Len(stored) + error_count
            /\ Acks(toHost) + Len(toBoard) <= error_count + 1
        BY <3>2 DEF Accounted
      <4>2. ASSUME NEW i \in 1 .. Len(toBoard)
            PROVE  /\ toBoard[i].kind = "packet"
                   /\ n + Acks(toHost) + i <= toBoard[i].data + error_count + 1
        <5>1. /\ toBoard[i].kind = "packet" /\ toBoard[i].data \in Nat
              /\ n + Acks(toHost) + i <= toBoard[i].data + error_count
          BY <1>k, <3>2 DEF Accounted
        <5> QED
          BY <1>t, <5>1
      <4>3. n + Acks(toHost) <= Len(stored) + error_count + 1
        BY <1>t, <4>1
      <4>4. /\ n' + Acks(toHost') <= Len(stored') + error_count'
            /\ Acks(toHost') + Len(toBoard') <= error_count'
        BY <1>t, <2>1, <3>1, <4>1, <4>3
      <4>5. ASSUME NEW i \in 1 .. Len(toBoard')
            PROVE  /\ toBoard'[i].kind = "packet"
                   /\ n' + Acks(toHost') + i <= toBoard'[i].data + error_count'
        <5>1. i \in 1 .. Len(toBoard) /\ toBoard'[i] = toBoard[i] /\ i \in Nat
          BY <1>t, <3>1
        <5>2. toBoard[i].data \in Nat
          BY <1>k, <4>2, <5>1
        <5>3. /\ toBoard[i].kind = "packet"
              /\ n + Acks(toHost) + i <= toBoard[i].data + error_count + 1
          BY <4>2, <5>1
        <5>4. n + Acks(toHost) + i <= toBoard[i].data + (error_count + 1)
          BY <1>t, <5>1, <5>2, <5>3, SMTT(60)
        <5> QED
          BY <2>1, <3>1, <5>1, <5>3, <5>4
      <4> QED
        BY <1>t, <3>1, <4>4, <4>5 DEF Accounted
    <3> QED
      BY <3>1, <3>2 DEF Accounted
  <2> QED
    BY <2>2, <2>3
<1>4. CASE Emit
  <2>1. /\ UNCHANGED <<n, error_count, toHost>> /\ n < N /\ pc = "emit"
        /\ toBoard' = Append(toBoard, Current) /\ pc' = "answer"
    BY <1>4 DEF Emit, SenderType
  <2>2. /\ Current.kind = "packet" /\ Current.data = n + 1
        /\ Len(toBoard') = Len(toBoard) + 1
        /\ \A i \in 1 .. Len(toBoard) : toBoard'[i] = toBoard[i]
        /\ toBoard'[Len(toBoard) + 1] = Current
    BY <1>t, <2>1, CurrentIs, LongerLine
  <2>3. Acks(toHost) + Len(toBoard) <= error_count
    BY <1>t, <2>1 DEF Accounted
  <2>4. Ahead'
    BY <1>r, <2>1 DEF Ahead
  <2>5. Accounted'
    <3>1. n + Acks(toHost) <= Len(stored) + error_count
      BY <2>1 DEF Accounted
    <3>2. Acks(toHost) + Len(toBoard') <= error_count + 1
      BY <1>t, <2>2, <2>3
    <3>3. ASSUME NEW i \in 1 .. Len(toBoard')
          PROVE  /\ toBoard'[i].kind = "packet"
                 /\ n + Acks(toHost) + i <= toBoard'[i].data + error_count
      <4>1. CASE i \in 1 .. Len(toBoard)
        <5>1. toBoard'[i] = toBoard[i]
          BY <2>2, <4>1, Zenon
        <5>2. /\ toBoard[i].kind = "packet"
              /\ n + Acks(toHost) + i <= toBoard[i].data + error_count
          BY <2>1, <4>1 DEF Accounted
        <5> QED
          BY <5>1, <5>2, Zenon
      <4>2. CASE i = Len(toBoard) + 1
        <5>1. /\ toBoard'[i].kind = "packet" /\ toBoard'[i].data = n + 1
          BY <2>2, <4>2, Zenon
        <5>2. n + Acks(toHost) + i <= (n + 1) + error_count
          BY <1>t, <2>3, <4>2
        <5> QED
          BY <5>1, <5>2, Zenon
      <4>3. i \in 1 .. Len(toBoard) \/ i = Len(toBoard) + 1
        BY <1>t, <2>2
      <4> QED
        BY <4>1, <4>2, <4>3, Zenon
    <3> QED
      BY <1>r, <2>1, <3>1, <3>2, <3>3 DEF Accounted
  <2> QED
    BY <2>4, <2>5
<1>5. CASE ReadAck
  <2>1. /\ pc = "answer" /\ n' = n + 1 /\ UNCHANGED <<error_count, toBoard>>
        /\ pc' \in {"emit", "eot"} /\ toHost # <<>> /\ Head(toHost) = "ACK"
        /\ toHost' = Tail(toHost)
    BY <1>5 DEF ReadAck, Acked
  <2>2. Acks(toHost') \in Nat /\ Acks(toHost) = Acks(toHost') + 1
    BY <1>h, <2>1
  <2>3. Ahead'
    <3>1. n + Acks(toHost) <= Len(stored) + error_count
      BY <2>1 DEF Accounted
    <3>2. n + 1 <= Len(stored) + error_count
      BY <1>t, <2>2, <3>1
    <3> QED
      BY <1>r, <2>1, <3>2 DEF Ahead
  <2>4. /\ n' + Acks(toHost') = n + Acks(toHost)
        /\ Acks(toHost') + Len(toBoard') <= error_count'
    <3>1. Acks(toHost) + Len(toBoard) <= error_count + 1
      BY <2>1 DEF Accounted
    <3>2. /\ n \in Nat /\ error_count \in Nat /\ Len(toBoard) \in Nat
          /\ n' = n + 1 /\ error_count' = error_count /\ Len(toBoard') = Len(toBoard)
      BY <1>t, <2>1
    <3> QED
      BY <2>2, <3>1, <3>2
  <2>5. Accounted'
    BY <1>r, <1>t, <2>1, <2>4 DEF Accounted
  <2> QED
    BY <2>3, <2>5
<1>6. CASE EmitEot \/ ReadEotAck
  BY <1>6, <1>r DEF EmitEot, ReadEotAck, Ahead, Accounted
<1> QED
  BY <1>1, <1>2, <1>3, <1>4, <1>5, <1>6, SendEffects

(* So does the board, which answers a packet at most once with ACK. *)
LEMMA BoardKeepsAccount ==
    ASSUME SenderType, ReceiverType, Numbered, InOrder, Ahead, Accounted,
           StoredInOrder, Receiver
    PROVE  Ahead' /\ Accounted'
<1>t. /\ toBoard \in Seq(Messages) /\ Len(toBoard) \in Nat /\ Len(stored) \in Nat
      /\ n \in Nat /\ error_count \in Nat /\ toHost \in Seq(Answers)
      /\ Acks(toHost) \in Nat
      /\ \A i \in 1 .. Len(toBoard) : toBoard[i] \in Messages
  BY LenProperties, ElementOfSeq, AckType, Constants DEF SenderType, ReceiverType
<1>k. \A i \in 1 .. Len(toBoard) : toBoard[i].kind = "packet" => toBoard[i].data \in Nat
  BY <1>t, Kinds, Constants
<1>s. UNCHANGED <<pc, n, error_count>>
  BY ReceiverEffects DEF sender
<1>m. Len(stored') \in Nat /\ Len(stored) <= Len(stored')
  BY BoardKeepsOrder
<1>a. Ahead'
  BY <1>m, <1>s, <1>t DEF Ahead
<1>h. ASSUME NEW c \in Answers, Answered(c) PROVE
          \/ Acks(toHost') = Acks(toHost)
          \/ c = "ACK" /\ Acks(toHost') = Acks(toHost) + 1
  <2>1. "junk" \in Answers
    BY DEF Answers
  <2>2. /\ Acks(Append(toHost, "junk")) = Acks(toHost)
        /\ c # "ACK" => Acks(Append(toHost, c)) = Acks(toHost)
        /\ c = "ACK" => Acks(Append(toHost, c)) = Acks(toHost) + 1
    <3>1. /\ Acks(Append(toHost, "junk")) =
                Acks(toHost) + (IF "junk" = "ACK" THEN 1 ELSE 0)
          /\ Acks(Append(toHost, c)) = Acks(toHost) + (IF c = "ACK" THEN 1 ELSE 0)
      BY <1>t, <2>1, AckAppend
    <3> QED
      BY <1>t, <3>1
  <2> QED
    BY <1>h, <2>2 DEF Answered
<1>0. CASE pc \notin {"emit", "answer"}
  BY <1>0, <1>a, <1>s DEF Accounted
<1>1. CASE Asks
  <2>1. PICK c \in {"C", "NAK", "CAN"} : toHost' = Append(toHost, c)
    BY <1>1 DEF Asks
  <2>2. Acks(toHost') = Acks(toHost)
    BY <1>t, <2>1, AckAppend DEF Answers
  <2>3. Accounted'
    BY <1>1, <1>s, <2>2 DEF Asks, Accounted
  <2> QED
    BY <1>a, <2>3
<1>2. CASE /\ BoardStores \/ BoardHasIt \/ BoardCompletes \/ OtherTakes
           /\ pc \in {"emit", "answer"}
  <2>1. toBoard # <<>> /\ toBoard' = Tail(toBoard)
    BY <1>2 DEF BoardStores, BoardHasIt, BoardCompletes, OtherTakes, TakesHead,
                AtBoard, Takes
  <2>2. /\ Len(toBoard') = Len(toBoard) - 1 /\ Len(toBoard) >= 1
        /\ \A i \in 1 .. Len(toBoard) - 1 : toBoard'[i] = toBoard[i + 1]
        /\ Head(toBoard) = toBoard[1]
    BY <1>t, <2>1, TailLine
  <2>3. /\ Head(toBoard).kind = "packet" /\ Head(toBoard).data \in Nat
        /\ n + Acks(toHost) + 1 <= Head(toBoard).data + error_count
    <3>1. 1 \in 1 .. Len(toBoard)
      BY <1>t, <2>2
    <3>2. /\ toBoard[1].kind = "packet"
          /\ n + Acks(toHost) + 1 <= toBoard[1].data + error_count
      BY <1>2, <3>1 DEF Accounted
    <3> QED
      BY <1>k, <2>2, <3>1, <3>2
  <2>4. /\ Acks(toHost') \in Nat /\ Acks(toHost') <= Acks(toHost) + 1
        /\ n + Acks(toHost') <= Len(stored') + error_count
    <3>0. "ACK" \in Answers /\ "NAK" \in Answers
      BY DEF Answers
    <3>1. CASE BoardStores
      <4>1. Answered("ACK") /\ stored' = Append(stored, Head(toBoard).data)
        BY <3>1 DEF BoardStores, Answer, Answered
      <4>2. Len(stored') = Len(stored) + 1
        BY <4>1, <1>t, <2>3 DEF ReceiverType
      <4>3. Acks(toHost') = Acks(toHost) \/ Acks(toHost') = Acks(toHost) + 1
        BY <1>h, <3>0, <4>1
      <4> QED
        BY <1>2, <1>t, <4>2, <4>3, SMTT(60) DEF Accounted
    <3>2. CASE BoardHasIt
      <4>1. Answered("ACK") /\ stored' = stored
        BY <3>2 DEF BoardHasIt, Answer, Answered, receiver
      <4>2. Head(toBoard).data = Len(stored)
        BY <1>2, <3>2, HasTheLast
      <4>3. Acks(toHost') = Acks(toHost) \/ Acks(toHost') = Acks(toHost) + 1
        BY <1>h, <3>0, <4>1
      <4> QED
        BY <1>2, <1>t, <2>3, <4>1, <4>2, <4>3 DEF Accounted
    <3>3. CASE OtherTakes
      <4>1. Answered("NAK") /\ stored' = stored
        BY <3>3 DEF OtherTakes
      <4>2. Acks(toHost') = Acks(toHost)
        BY <1>h, <3>0, <4>1
      <4> QED
        BY <1>2, <1>t, <4>1, <4>2 DEF Accounted
    <3> QED
      BY <1>2, <2>3, <3>1, <3>2, <3>3 DEF BoardCompletes, AtBoard
  <2>5. Acks(toHost') + Len(toBoard') <=
            error_count + (IF pc = "answer" THEN 1 ELSE 0)
    <3>1. Acks(toHost) + Len(toBoard) <=
              error_count + (IF pc = "answer" THEN 1 ELSE 0)
      BY <1>2 DEF Accounted
    <3> QED
      BY <1>t, <2>2, <2>4, <3>1, SMTT(60)
  <2>6. ASSUME NEW i \in 1 .. Len(toBoard')
        PROVE  /\ toBoard'[i].kind = "packet"
               /\ n + Acks(toHost') + i <= toBoard'[i].data + error_count
    <3>1. i + 1 \in 1 .. Len(toBoard) /\ toBoard'[i] = toBoard[i + 1]
      BY <1>t, <2>2
    <3>2. /\ toBoard[i + 1].kind = "packet" /\ toBoard[i + 1].data \in Nat
          /\ n + Acks(toHost) + (i + 1) <= toBoard[i + 1].data + error_count
      BY <1>2, <1>k, <3>1 DEF Accounted
    <3>3. i \in Nat /\ n + Acks(toHost') + i <= n + Acks(toHost) + (i + 1)
      BY <1>t, <2>4
    <3>4. /\ toBoard'[i].kind = "packet" /\ toBoard'[i].data \in Nat
          /\ n + Acks(toHost) + (i + 1) <= toBoard'[i].data + error_count
      BY <3>1, <3>2
    <3> DEFINE d == toBoard'[i].data
               a == Acks(toHost)
               b == Acks(toHost')
    <3>5. /\ d \in Nat /\ n + a + (i + 1) <= d + error_count
          /\ a \in Nat /\ b \in Nat /\ n \in Nat /\ error_count \in Nat
          /\ b <= a + 1 /\ i \in Nat
      BY <1>t, <2>4, <3>3, <3>4
    <3> HIDE DEF d, a, b
    <3>6. n + b + i <= d + error_count
      BY <3>5
    <3> QED
      BY <3>4, <3>6 DEF d, b
  <2>7. Accounted'
    BY <1>s, <2>4, <2>5, <2>6 DEF Accounted
  <2> QED
    BY <1>a, <2>7
<1> QED
  BY <1>0, <1>1, <1>2, ReceiverEffects

(* Every step of the update keeps the invariant of the transfer. *)
LEMMA NextTransfer == TypeInv /\ TransferInv /\ [Next]_vars => TransferInv'
<1> SUFFICES ASSUME TypeInv, TransferInv, [Next]_vars PROVE TransferInv'
  OBVIOUS
<1>t. /\ SenderType /\ ReceiverType /\ AtStart /\ Numbered /\ InOrder /\ Ahead
      /\ Accounted /\ StoredInOrder
  BY DEF TypeInv, TransferInv
<1>0. AtStart'
  BY <1>t, NextAtStart
<1>1. CASE Send
  <2>1. stored' = stored
    BY <1>1, <1>t, SendEffects DEF receiver
  <2>2. StoredInOrder'
    BY <1>t, <2>1 DEF StoredInOrder
  <2> QED
    BY <1>0, <1>1, <1>t, <2>2, SendKeepsOrder, SendKeepsAccount DEF TransferInv
<1>2. CASE Receiver
  BY <1>0, <1>2, <1>t, BoardKeepsOrder, BoardKeepsAccount DEF TransferInv
<1>3. CASE SendInstall
  <2>1. /\ UNCHANGED <<pc, n, sequence, error_count, toBoard, toHost>>
        /\ \/ UNCHANGED <<expect, stored>>
           \/ expect' = 1 /\ stored' = <<>>
    BY <1>3 DEF SendInstall, sender, line, receiver
  <2>2. pc = "start" /\ toBoard = <<>> /\ stored = <<>> /\ expect = 1
    BY <1>3, <1>t DEF SendInstall, AtStart
  <2>3. UNCHANGED <<expect, stored>>
    BY <2>1, <2>2
  <2> QED
    BY <1>0, <1>t, <2>1, <2>3
    DEF TransferInv, Numbered, InOrder, Ahead, Accounted, StoredInOrder
<1>4. CASE WaitForXmodem
  <2>1. UNCHANGED <<pc, n, sequence, error_count, toBoard, expect, stored>>
    BY <1>4 DEF WaitForXmodem, sender, receiver
  <2>2. pc = "start"
    BY <1>4, <1>t DEF WaitForXmodem, AtStart
  <2> QED
    BY <1>0, <1>t, <2>1, <2>2
    DEF TransferInv, Numbered, InOrder, Ahead, Accounted, StoredInOrder
<1>5. CASE BoardDrops
  <2>1. /\ UNCHANGED <<pc, n, sequence, error_count, toHost, expect, stored>>
        /\ toBoard' = <<>>
    BY <1>5 DEF BoardDrops, sender, receiver
  <2>2. Len(toBoard') = 0
    BY <2>1, EmptySeq, Zenon
  <2>3. Numbered' /\ InOrder' /\ Ahead' /\ StoredInOrder'
    BY <1>t, <2>1, <2>2 DEF Numbered, InOrder, Ahead, StoredInOrder
  <2>4. Accounted'
    <3>1. Len(toBoard) \in Nat /\ Acks(toHost) \in Nat /\ error_count \in Nat
      BY <1>t, LenProperties, AckType, Constants DEF SenderType, ReceiverType
    <3> QED
      BY <1>t, <2>1, <2>2, <3>1 DEF Accounted
  <2> QED
    BY <1>0, <2>3, <2>4 DEF TransferInv
<1>6. CASE BoardDies \/ UNCHANGED <<sender, receiver, line>>
  <2>1. UNCHANGED <<pc, n, sequence, error_count, toBoard, toHost, expect, stored>>
    BY <1>6 DEF BoardDies, sender, receiver, line
  <2> QED
    BY <1>0, <1>t, <2>1
    DEF TransferInv, Numbered, InOrder, Ahead, Accounted, StoredInOrder
<1> QED
  BY <1>1, <1>2, <1>3, <1>4, <1>5, <1>6, Steps

(* The transfer starts in order. *)
LEMMA InitTransfer == Init => TransferInv
<1> SUFFICES ASSUME Init PROVE TransferInv
  OBVIOUS
<1>1. /\ pc = "start" /\ n = 0 /\ sequence = 1 /\ error_count = 0 /\ expect = 1
      /\ toBoard = <<>> /\ toHost = <<>> /\ stored = <<>>
  BY DEF Init, XmodemInit
<1>2. Len(toBoard) = 0 /\ Len(stored) = 0
  BY <1>1, EmptySeq, Zenon
<1>3. Acks(toHost) = 0
  BY <1>1, AckEmpty, Zenon
<1>4. NumberOf(1, 1)
  <2>1. \E q \in 0 .. 1 : 1 = q * SeqMod + 1
    <3> WITNESS 0 \in 0 .. 1
    <3> QED
      BY Constants
  <2> QED
    BY <2>1 DEF NumberOf
<1> QED
  BY <1>1, <1>2, <1>3, <1>4, Constants
  DEF TransferInv, AtStart, Numbered, InOrder, Ahead, Accounted, StoredInOrder

(* One element at a time. *)
LEMMA Single ==
    ASSUME NEW S, NEW s \in Seq(S), s # <<>>, Len(s) <= 1
    PROVE  Tail(s) = <<>>
<1>1. Tail(s) \in Seq(S) /\ Len(Tail(s)) = Len(s) - 1 /\ Len(s) \in Nat
      /\ Len(s) # 0
  BY HeadTailProperties, LenProperties, EmptySeq
<1>2. Len(Tail(s)) = 0
  BY <1>1
<1> QED
  BY <1>1, <1>2, EmptySeq

(* An answer on an empty line is alone there, garbled or not. *)
LEMMA OneAnswer ==
    ASSUME toHost = <<>>, NEW c \in Answers, Answered(c)
    PROVE  /\ Len(toHost') <= 1
           /\ toHost' # <<>> => Head(toHost') \in {c, "junk"}
<1>1. toHost' = <<>> \/ toHost' = <<c>> \/ toHost' = <<"junk">>
  BY DEF Answered
<1> QED
  BY <1>1

(* While no stray byte is on the line, send keeps in step with the board. *)
LEMMA SendKeepsStep ==
    ASSUME SenderType, ReceiverType, AtStart, OneRequest, OneAtATime, AckIsTrue,
           Send, ~stray'
    PROVE  OneRequest' /\ OneAtATime' /\ AckIsTrue'
<1>t. /\ toBoard \in Seq(Messages) /\ toHost \in Seq(Answers) /\ n \in 0 .. N
      /\ N \in Nat /\ Len(toHost) \in Nat /\ Len(stored) \in Nat
      /\ pc # "returned" => result = "none"
  BY LenProperties, Constants DEF SenderType, ReceiverType
<1>r. UNCHANGED <<board, stored>>
  BY SendEffects DEF receiver
<1>1. CASE SendWaits
  <2>1. pc' = "start" /\ result' = "none" /\ pc = "start"
    BY <1>1, <1>t DEF SendWaits
  <2>2. OneRequest'
    <3>1. CASE toHost' = toHost
      BY <1>r, <2>1, <3>1 DEF OneRequest
    <3>2. CASE toHost # <<>> /\ toHost' = Tail(toHost)
      <4>1. /\ Len(toHost') = Len(toHost) - 1
            /\ \A i \in 1 .. Len(toHost) - 1 : toHost'[i] = toHost[i + 1]
        BY <1>t, <3>2, HeadTailProperties
      <4> QED
        BY <1>r, <1>t, <2>1, <4>1 DEF OneRequest
    <3> QED
      BY <1>1, <3>1, <3>2 DEF SendWaits
  <2> QED
    BY <2>1, <2>2 DEF OneAtATime, AckIsTrue
<1>2. CASE SendBegins
  <2>1. /\ pc = "start" /\ toHost # <<>> /\ toHost' = Tail(toHost)
        /\ Head(toHost) \in {"C", "NAK"} /\ result' = "none"
        /\ toBoard' = <<>> /\ n' = 0 /\ stored' = <<>>
    BY <1>2, <1>r, <1>t DEF SendBegins, AtStart, SenderType
  <2>2. Len(stored') = 0
    BY <2>1, EmptySeq, Zenon
  <2>3. /\ 1 \in 1 .. Len(toHost) /\ Head(toHost) = toHost[1]
    BY <1>t, <2>1, HeadTailProperties, EmptySeq
  <2>4. Len(toHost) = 1 /\ board' # "waiting"
    BY <1>r, <2>1, <2>3 DEF OneRequest
  <2>5. toHost' = <<>>
    BY <1>t, <2>1, <2>4, Single
  <2>6. (pc' = "eot" /\ N = 0) \/ (pc' = "emit" /\ N # 0)
    BY <1>2 DEF SendBegins
  <2> QED
    BY <2>1, <2>2, <2>4, <2>5, <2>6 DEF OneRequest, OneAtATime, AckIsTrue
<1>3. CASE SendStops
  BY <1>3 DEF SendStops, OneRequest, OneAtATime, AckIsTrue
<1>4. CASE SendRetries
  <2>1. /\ pc \in {"answer", "eot_answer"} /\ result' = "none"
        /\ UNCHANGED <<n, toBoard>>
        /\ \/ pc = "answer" /\ pc' = "emit"
           \/ pc = "eot_answer" /\ pc' = "eot"
    BY <1>4, <1>t DEF SendRetries
  <2>2. toHost' = <<>> /\ toBoard = <<>>
    <3>1. CASE toHost = <<>>
      BY <1>4, <3>1 DEF SendRetries
    <3>2. CASE toHost # <<>>
      BY <1>4, <1>t, <2>1, <3>2, Single DEF SendRetries, OneAtATime
    <3> QED
      BY <3>1, <3>2
  <2> QED
    BY <1>r, <2>1, <2>2 DEF OneRequest, OneAtATime, AckIsTrue
<1>5. CASE Emit
  <2>1. /\ pc = "emit" /\ pc' = "answer" /\ UNCHANGED <<n, sequence, toHost, result>>
        /\ toBoard' = Append(toBoard, Current) /\ result' = "none"
    BY <1>5, <1>t DEF Emit
  <2>2. toBoard' = <<Current>> /\ toHost' = <<>> /\ Current' = Current
    BY <2>1 DEF OneAtATime, Current, Packet
  <2>3. Len(toBoard') = 1 /\ toBoard'[1] = Current'
    BY <2>2
  <2>4. Len(toHost') = 0
    BY <2>2, EmptySeq, Zenon
  <2> QED
    BY <1>r, <2>1, <2>2, <2>3, <2>4 DEF OneRequest, OneAtATime, AckIsTrue
<1>6. CASE ReadAck
  <2>1. /\ pc = "answer" /\ n' = n + 1 /\ UNCHANGED toBoard /\ result' = "none"
        /\ toHost # <<>> /\ Head(toHost) = "ACK" /\ toHost' = Tail(toHost)
        /\ \/ pc' = "eot" /\ n + 1 = N
           \/ pc' = "emit"
    BY <1>6, <1>t DEF ReadAck, Acked
  <2>2. toBoard = <<>> /\ Len(stored) = n + 1 /\ toHost' = <<>>
    BY <1>t, <2>1, Single DEF OneAtATime, AckIsTrue
  <2> QED
    BY <1>r, <1>t, <2>1, <2>2 DEF OneRequest, OneAtATime, AckIsTrue
<1>7. CASE EmitEot
  <2>1. /\ pc = "eot" /\ pc' = "eot_answer" /\ UNCHANGED <<toHost, result>>
        /\ toBoard' = Append(toBoard, Eot) /\ result' = "none"
    BY <1>7, <1>t DEF EmitEot
  <2>2. toBoard' = <<Eot>> /\ toHost' = <<>>
    BY <2>1 DEF OneAtATime
  <2>3. Len(toBoard') = 1 /\ toBoard'[1] = Eot
    BY <2>2
  <2>4. Len(toHost') = 0
    BY <2>2, EmptySeq, Zenon
  <2> QED
    BY <1>r, <2>1, <2>2, <2>3, <2>4 DEF OneRequest, OneAtATime, AckIsTrue
<1>8. CASE ReadEotAck
  BY <1>8, <1>r DEF ReadEotAck, Acked, OneRequest, OneAtATime, AckIsTrue
<1> QED
  BY <1>1, <1>2, <1>3, <1>4, <1>5, <1>6, <1>7, <1>8, SendEffects

(* And the board with send. *)
LEMMA BoardKeepsStep ==
    ASSUME SenderType, ReceiverType, TransferInv, OneRequest, OneAtATime,
           AckIsTrue, Receiver, ~stray'
    PROVE  OneRequest' /\ OneAtATime' /\ AckIsTrue'
<1>t. /\ toBoard \in Seq(Messages) /\ toHost \in Seq(Answers) /\ n \in 0 .. N
      /\ N \in Nat /\ Len(toHost) \in Nat /\ Len(stored) \in Nat
      /\ pc # "returned" => result = "none"
      /\ AtStart /\ Numbered /\ InOrder /\ Ahead
  BY LenProperties, Constants DEF SenderType, ReceiverType, TransferInv
<1>s. UNCHANGED <<pc, n, sequence, result>> /\ Current' = Current
  BY ReceiverEffects DEF sender, Current, Packet
<1>p. pc \in {"start", "emit", "answer", "eot", "eot_answer", "returned"}
  BY DEF SenderType
<1>1. CASE Asks
  <2>1. PICK c \in {"C", "NAK", "CAN"} :
            /\ toHost' = Append(toHost, c) /\ UNCHANGED <<toBoard, stored>>
            /\ board = "waiting"
            /\ c \in {"C", "NAK"} => board' # "waiting"
    BY <1>1 DEF Asks
  <2>2. CASE pc = "start"
    <3>1. \A i \in 1 .. Len(toHost) : toHost[i] \notin {"C", "NAK"}
      BY <2>1, <2>2 DEF OneRequest
    <3>2. /\ Len(toHost') = Len(toHost) + 1
          /\ \A i \in 1 .. Len(toHost) : toHost'[i] = toHost[i]
          /\ toHost'[Len(toHost) + 1] = c
      BY <1>t, <2>1, AppendProperties DEF Answers
    <3>3. OneRequest'
      BY <1>t, <2>1, <3>1, <3>2 DEF OneRequest
    <3> QED
      BY <1>s, <1>t, <2>2, <3>3 DEF OneAtATime, AckIsTrue
  <2>3. CASE pc = "returned"
    BY <1>s, <2>1, <2>3 DEF OneRequest, OneAtATime, AckIsTrue
  <2>4. CASE pc \notin {"start", "returned"}
    BY <2>1, <2>4 DEF OneAtATime
  <2> QED
    BY <2>2, <2>3, <2>4
<1>2. CASE BoardStores \/ BoardHasIt \/ BoardCompletes \/ OtherTakes
  <2>1. toBoard # <<>> /\ toBoard' = Tail(toBoard)
    BY <1>2 DEF BoardStores, BoardHasIt, BoardCompletes, OtherTakes, TakesHead,
                AtBoard, Takes
  <2>2. pc \in {"answer", "eot_answer", "returned"}
    BY <1>p, <1>t, <2>1 DEF AtStart, OneAtATime
  <2>3. CASE pc = "returned"
    <3>1. result = "True" => board' = board /\ stored' = stored
      BY <1>2 DEF AckIsTrue, BoardStores, BoardHasIt, BoardCompletes, OtherTakes,
                  receiver
    <3> QED
      BY <1>s, <2>3, <3>1 DEF OneRequest, OneAtATime, AckIsTrue
  <2>4. CASE pc # "returned"
    <3>1. toHost = <<>> /\ toBoard' = <<>> /\ Head(toBoard) = toBoard[1]
      BY <1>t, <2>1, <2>2, <2>4, Single, TailLine DEF OneAtATime
    <3>2. Len(toBoard') = 0
      BY <3>1, EmptySeq, Zenon
    <3>3. board # "waiting" /\ board' # "waiting"
      BY <1>2, <2>2, <2>4
      DEF OneAtATime, BoardStores, BoardHasIt, BoardCompletes, OtherTakes,
          receiver
    <3>4. Answered("ACK") \/ Answered("NAK")
      BY <1>2 DEF BoardStores, BoardHasIt, BoardCompletes, OtherTakes, Answer,
                  Answered
    <3>5. Len(toHost') <= 1
      BY <3>1, <3>4, OneAnswer DEF Answers
    <3>6. OneRequest' /\ OneAtATime'
      BY <1>s, <2>2, <2>4, <3>1, <3>2, <3>3, <3>5 DEF OneRequest, OneAtATime
    <3>7. CASE pc = "answer"
      <4>1. /\ Head(toBoard).kind = "packet" /\ Head(toBoard).data = n + 1
            /\ n <= Len(stored) /\ Len(stored) <= n + 1
        <5>1. n < N
          BY <3>7 DEF SenderType
        <5> QED
          BY <1>t, <2>1, <3>1, <3>7, <5>1, CurrentIs
          DEF OneAtATime, AckIsTrue, InOrder
      <4>2. CASE BoardStores
        <5>1. Len(stored) = n
          BY <1>t, <4>1, <4>2, StoresNext
        <5>2. Len(stored') = Len(stored) + 1
          BY <4>1, <4>2 DEF BoardStores, ReceiverType
        <5> QED
          BY <1>s, <1>t, <3>6, <3>7, <5>1, <5>2 DEF AckIsTrue
      <4>3. CASE BoardHasIt
        <5>1. Len(stored) = n + 1 /\ stored' = stored
          BY <1>t, <3>7, <4>1, <4>3, HasTheLast DEF BoardHasIt, receiver
        <5> QED
          BY <1>s, <1>t, <3>6, <3>7, <5>1 DEF AckIsTrue
      <4>4. CASE OtherTakes
        <5>1. stored' = stored /\ Answered("NAK")
          BY <4>4 DEF OtherTakes
        <5>2. toHost' # <<>> => Head(toHost') # "ACK"
          BY <3>1, <5>1, OneAnswer DEF Answers
        <5> QED
          BY <1>s, <1>t, <3>6, <3>7, <4>1, <5>1, <5>2 DEF AckIsTrue
      <4> QED
        BY <1>2, <4>1, <4>2, <4>3, <4>4 DEF BoardCompletes, AtBoard
    <3>8. CASE pc = "eot_answer"
      <4>1. Head(toBoard).kind # "packet"
        BY <2>1, <3>1, <3>8, Kinds DEF OneAtATime
      <4>2. CASE BoardCompletes
        BY <1>s, <1>t, <3>6, <3>8, <4>2 DEF BoardCompletes, AckIsTrue
      <4>3. CASE OtherTakes
        <5>1. stored' = stored /\ Answered("NAK")
          BY <4>3 DEF OtherTakes
        <5>2. toHost' # <<>> => Head(toHost') # "ACK"
          BY <3>1, <5>1, OneAnswer DEF Answers
        <5> QED
          BY <1>s, <1>t, <3>6, <3>8, <5>1, <5>2 DEF AckIsTrue
      <4> QED
        BY <1>2, <4>1, <4>2, <4>3 DEF BoardStores, BoardHasIt, AtBoard
    <3> QED
      BY <2>2, <2>4, <3>7, <3>8
  <2> QED
    BY <2>3, <2>4
<1> QED
  BY <1>1, <1>2, ReceiverEffects

(* Every step of the update keeps them in step. *)
LEMMA NextLockStep ==
    TypeInv /\ TransferInv /\ LockStep /\ [Next]_vars => LockStep'
<1> SUFFICES ASSUME TypeInv, TransferInv, LockStep, [Next]_vars PROVE LockStep'
  OBVIOUS
<1>t. /\ SenderType /\ ReceiverType /\ WriterType /\ AtStart
      /\ pc # "returned" => result = "none"
  BY DEF TypeInv, TransferInv, SenderType
<1>w. writer' \in {"none", "autoboot", "install"} =>
          writer \in {"none", "autoboot", "install"}
  BY <1>t
  DEF WriterType, Next, vars, xmodemVars, trouble, hostVars, boardVars,
      Host, Writer, BoardStep, Popen, Communicated, TimeoutExpired, Killed,
      OpenPort, ReadBoot, ReadHelp, LineGarbled, PromptStolen, WriterKeeps,
      cancel_autoboot, SendInstall, WaitForXmodem, ModemSend, AfterSend,
      ModemReturned, wait_for_prompt, Sync, Reboot, TextGarbled,
      BoardReceives, BackToPrompt, Boots, BoardDies, BoardDrops
<1>n. NothingSaid'
  <2>1. toHost' = toHost \/ toHost' = <<>> \/ writer = "xmodem" \/ mode = "receive"
    BY Steps DEF SendInstall, WaitForXmodem, BoardDrops, BoardDies, line
  <2> QED
    BY <1>t, <1>w, <2>1 DEF LockStep, NothingSaid, WriterType
<1> SUFFICES ASSUME ~stray' PROVE OneRequest' /\ OneAtATime' /\ AckIsTrue'
  BY <1>n DEF LockStep
<1>s. OneRequest /\ OneAtATime /\ AckIsTrue
  BY StrayStays DEF LockStep
<1>1. CASE Send
  BY <1>1, <1>t, <1>s, SendKeepsStep
<1>2. CASE Receiver
  BY <1>2, <1>t, <1>s, BoardKeepsStep
<1>3. CASE SendInstall
  <2>1. /\ UNCHANGED <<pc, result, toHost>> /\ writer = "install"
    BY <1>3 DEF SendInstall, sender, line
  <2>2. toHost' = <<>> /\ pc' = "start" /\ result' = "none"
    BY <1>t, <2>1 DEF LockStep, NothingSaid, AtStart
  <2>3. Len(toHost') = 0
    BY <2>2, EmptySeq, Zenon
  <2> QED
    BY <2>2, <2>3 DEF OneRequest, OneAtATime, AckIsTrue
<1>4. CASE WaitForXmodem
  <2>1. toHost' = <<>> /\ pc' = "start" /\ result' = "none"
    BY <1>4, <1>t DEF WaitForXmodem, AtStart, sender
  <2>2. Len(toHost') = 0
    BY <2>1, EmptySeq, Zenon
  <2> QED
    BY <2>1, <2>2 DEF OneRequest, OneAtATime, AckIsTrue
<1>5. CASE BoardDrops
  <2>1. /\ UNCHANGED <<pc, n, sequence, result, toHost, board, stored>>
        /\ toBoard' = <<>>
    BY <1>5 DEF BoardDrops, sender, receiver
  <2>2. Len(toBoard') = 0
    BY <2>1, EmptySeq, Zenon
  <2> QED
    BY <1>s, <2>1, <2>2 DEF OneRequest, OneAtATime, AckIsTrue
<1>6. CASE BoardDies
  <2>1. /\ UNCHANGED <<pc, n, sequence, result, toHost, toBoard, stored>>
        /\ board' \in {board, "cancelled"} /\ (board = "complete" => board' = board)
    BY <1>6 DEF BoardDies, sender, line
  <2>2. Current' = Current
    BY <2>1 DEF Current, Packet
  <2> QED
    BY <1>s, <2>1, <2>2 DEF OneRequest, OneAtATime, AckIsTrue
<1>7. CASE UNCHANGED <<sender, receiver, line>>
  <2>1. Current' = Current
    BY <1>7 DEF Current, Packet, sender
  <2> QED
    BY <1>s, <1>7, <2>1
    DEF OneRequest, OneAtATime, AckIsTrue, sender, receiver, line
<1> QED
  BY <1>1, <1>2, <1>3, <1>4, <1>5, <1>6, <1>7, Steps

(* The transfer invariant holds in every state. *)
LEMMA TransferInvariant == Spec => [](TypeInv /\ TransferInv /\ LockStep)
<1>1. Init => LockStep
  <2> SUFFICES ASSUME Init PROVE LockStep
    OBVIOUS
  <2>1. pc = "start" /\ toHost = <<>> /\ result = "none"
    BY DEF Init, XmodemInit
  <2>2. Len(toHost) = 0
    BY <2>1, EmptySeq, Zenon
  <2> QED
    BY <2>1, <2>2 DEF LockStep, NothingSaid, OneRequest, OneAtATime, AckIsTrue
<1> QED
  BY <1>1, InitTransfer, NextTransfer, NextLockStep, TypeInvariant, PTL DEF Spec

(* At any time the board has a beginning of the file, and when send        *)
(* returns True and no stray byte was about, all of it, for every length   *)
(* of the file, every retry limit below the range of packet numbers and    *)
(* any number of faults (XMODEM.send).                                     *)
THEOREM FileArrives == Spec => []TransferIsFaithful
<1>1. TransferInv /\ LockStep => TransferIsFaithful
  BY DEF TransferInv, LockStep, AckIsTrue, TransferIsFaithful,
         SuccessIsComplete
<1> QED
  BY <1>1, TransferInvariant, PTL

(***************************************************************************)
(* The dialogue and the check that follows it.                             *)
(***************************************************************************)
LEMMA NextHost == WriterType /\ HostInv /\ [Next]_vars => HostInv'
<1> SUFFICES ASSUME WriterType, HostInv, [Next]_vars PROVE HostInv'
  OBVIOUS
<1>1. CASE Popen
  BY <1>1 DEF Popen, HostInv, Gone, LeftAlive, KillRaises, WriterType
<1>2. CASE Communicated \/ OpenPort \/ ReadBoot \/ ReadHelp
           \/ LineGarbled \/ PromptStolen
  BY <1>2 DEF Communicated, OpenPort, ReadBoot, ReadHelp, LineGarbled, PromptStolen, HostInv,
              Gone, LeftAlive, KillRaises, WriterType, boardVars
<1>3. CASE TimeoutExpired
  BY <1>3 DEF TimeoutExpired, Killed, KillRaises, HostInv, Gone, LeftAlive,
              WriterType
<1>4. CASE Writer \/ TextGarbled
  <2>1. UNCHANGED <<hostVars, setting>> /\ ~Gone
    BY <1>4
    DEF Writer, TextGarbled, cancel_autoboot, SendInstall, WaitForXmodem,
        ModemSend, ModemReturned, wait_for_prompt, Sync, Reboot, WriterKeeps,
        Gone
  <2> QED
    BY <2>1 DEF HostInv, Gone, LeftAlive, KillRaises, hostVars
<1>5. CASE BoardStep \/ BoardDies \/ UNCHANGED vars
  BY <1>5 DEF BoardStep, BoardReceives, BackToPrompt, Boots, BoardDrops,
              BoardDies, vars, hostVars, HostInv, Gone, LeftAlive, KillRaises
<1> QED
  BY <1>1, <1>2, <1>3, <1>4, <1>5 DEF Next, Host

(* A whole file is installed and stays. *)
LEMMA NextInstalled ==
    TypeInv /\ TransferInv /\ Installed /\ [Next]_vars => Installed'
<1> SUFFICES ASSUME TypeInv, TransferInv, Installed, [Next]_vars
             PROVE  Installed'
  OBVIOUS
<1>t. SenderType /\ ReceiverType /\ WriterType /\ AtStart
  BY DEF TypeInv, TransferInv
<1>1. CASE Host \/ TimeoutExpired \/ LineGarbled \/ PromptStolen
  <2>1. /\ UNCHANGED <<pc, board, stored, running>>
        /\ UNCHANGED <<mode, image>> \/ Reset
    BY <1>1 DEF Host, Popen, Communicated, OpenPort, ReadBoot, ReadHelp,
                TimeoutExpired, LineGarbled, PromptStolen, xmodemVars, sender, receiver,
                boardVars, Reset
  <2> QED
    BY <1>t, <2>1 DEF Installed, Reset, WriterType
<1>2. CASE Send /\ UNCHANGED boardVars
  <2>1. UNCHANGED receiver /\ (pc # "start" => pc' # "start")
    BY <1>2, <1>t, SendEffects
    DEF SendWaits, SendBegins, SendStops, SendRetries, Emit, ReadAck, EmitEot,
        ReadEotAck
  <2> QED
    BY <1>2, <2>1 DEF Installed, receiver, boardVars
<1>3. CASE cancel_autoboot \/ SendInstall \/ WaitForXmodem
  <2>1. pc = "start" /\ board # "complete" /\ board' # "complete"
        /\ UNCHANGED <<pc, image, running>>
    BY <1>3, <1>t
    DEF cancel_autoboot, SendInstall, WaitForXmodem, AtStart, Installed,
        WriterKeeps, xmodemVars, sender, receiver
  <2> QED
    BY <2>1 DEF Installed
<1>4. CASE \/ ModemReturned \/ wait_for_prompt \/ Sync \/ TextGarbled
           \/ UNCHANGED vars
  BY <1>4, <1>t
  DEF ModemReturned, wait_for_prompt, Sync, Synced, TextGarbled, WriterKeeps,
      vars, xmodemVars, sender, receiver, boardVars, Installed, WriterType
<1>5. CASE Reboot \/ BoardDies
  <2>1. /\ UNCHANGED <<pc, stored, running>>
        /\ (board' = "complete" => board = "complete")
        /\ \/ UNCHANGED <<mode, image>> /\ UNCHANGED board
           \/ Reset
    BY <1>5 DEF Reboot, BoardDies, Reset, xmodemVars, sender, receiver
  <2> QED
    BY <1>t, <2>1 DEF Installed, Reset, WriterType
<1>6. CASE BoardReceives
  <2>1. /\ mode = "receive" /\ UNCHANGED <<boardVars, pc>> /\ Receiver
    BY <1>6, <1>t, ReceiverEffects DEF BoardReceives, sender
  <2>2. board' = "complete" => pc # "start"
    <3>1. CASE board = "complete"
      BY <3>1 DEF Installed
    <3>2. CASE board # "complete" /\ board' = "complete"
      <4>1. toBoard # <<>>
        BY <1>t, <2>1, <3>2, ReceiverEffects
        DEF Asks, OtherTakes, BoardStores, BoardHasIt, BoardCompletes, AtBoard,
            receiver
      <4> QED
        BY <1>t, <4>1 DEF AtStart
    <3> QED
      BY <3>1, <3>2
  <2> QED
    BY <2>1, <2>2 DEF Installed, boardVars
<1>7. CASE BackToPrompt \/ Boots \/ BoardDrops
  BY <1>7, <1>t DEF BackToPrompt, Boots, BoardDrops, xmodemVars, sender, receiver,
                    boardVars, Installed, WriterType
<1> QED
  BY <1>1, <1>2, <1>3, <1>4, <1>5, <1>6, <1>7
  DEF Next, Writer, BoardStep, ModemSend, WriterKeeps, boardVars

(* The image that a true success leaves is the new one. *)
LEMMA NextFlashed ==
    /\ TypeInv /\ TransferInv /\ LockStep /\ Installed /\ Flashed /\ [Next]_vars
    => Flashed'
<1> SUFFICES ASSUME TypeInv, TransferInv, LockStep, Installed, Flashed,
                    [Next]_vars, result' = "True", ~stray'
             PROVE  /\ writer' = "sync" => mode' # "receive"
                                          /\ (mode' = "updater" => image' # "old")
                    /\ writer' \in {"reboot", "exited"} =>
                          mode' # "receive" /\ image' = "new"
  BY DEF Flashed
<1>s. ~stray
  BY StrayStays, Zenon
<1>t. /\ SenderType /\ ReceiverType /\ WriterType /\ AtStart /\ ~stray
      /\ AckIsTrue
  BY <1>s DEF TypeInv, TransferInv, LockStep
<1>1. CASE Host \/ TimeoutExpired \/ LineGarbled \/ PromptStolen
  <2>1. /\ UNCHANGED <<result, pc>> /\ (UNCHANGED <<mode, image>> \/ Reset)
        /\ writer' = writer \/ writer' \in {"autoboot", "killed"} \/ writer = "none"
    BY <1>1, <1>t
    DEF Host, Popen, Communicated, OpenPort, ReadBoot, ReadHelp,
        TimeoutExpired, LineGarbled, PromptStolen, Killed, xmodemVars, sender, boardVars,
        Reset, WriterType
  <2>2. writer # "none"
    BY <1>t, <2>1 DEF AtStart, SenderType
  <2>3. result = "True" /\ (writer' = writer \/ writer' \in {"autoboot", "killed"})
    BY <2>1, <2>2
  <2> QED
    BY <1>t, <2>1, <2>3 DEF Flashed, Reset, WriterType
<1>2. CASE Send /\ writer = "xmodem" /\ UNCHANGED writer
  BY <1>2
<1>3. CASE cancel_autoboot \/ SendInstall \/ WaitForXmodem
  BY <1>3 DEF cancel_autoboot, SendInstall, WaitForXmodem
<1>4. CASE ModemReturned \/ TextGarbled
  BY <1>4 DEF ModemReturned, AfterSend, TextGarbled, xmodemVars, sender
<1>5. CASE wait_for_prompt
  <2>1. result = "True" /\ mode = "updater" /\ UNCHANGED <<mode, image>>
        /\ writer' = "sync"
    BY <1>5 DEF wait_for_prompt, xmodemVars, sender
  <2>2. image # "old"
    BY <1>t, <2>1 DEF AckIsTrue, Installed
  <2> QED
    BY <2>1, <2>2
<1>6. CASE Sync
  <2>1. result = "True" /\ mode = "updater" /\ writer = "sync" /\ mode' = mode
        /\ image' = Synced /\ writer' = "reboot"
    BY <1>6 DEF Sync, xmodemVars, sender
  <2> QED
    BY <1>t, <2>1 DEF Flashed, Synced, WriterType
<1>7. CASE Reboot
  <2>1. result = "True" /\ writer = "reboot"
    BY <1>7 DEF Reboot, xmodemVars, sender
  <2> QED
    BY <1>7, <1>t, <2>1 DEF Reboot, Reset, Flashed
<1>8. CASE BoardDies
  <2>1. result = "True" /\ writer' = writer
    BY <1>8 DEF BoardDies, sender
  <2> QED
    BY <1>8, <1>t, <2>1 DEF BoardDies, Reset, Flashed
<1>9. CASE BoardReceives
  <2>1. result = "True" /\ UNCHANGED <<writer, mode, image>>
    BY <1>9, <1>t, ReceiverEffects DEF BoardReceives, sender, boardVars
  <2> QED
    BY <1>t, <2>1 DEF Flashed
<1>10. CASE BackToPrompt \/ Boots \/ BoardDrops \/ UNCHANGED vars
  BY <1>10, <1>t DEF BackToPrompt, Boots, BoardDrops, vars, xmodemVars, sender,
                     boardVars, Flashed
<1> QED
  BY <1>1, <1>2, <1>3, <1>4, <1>5, <1>6, <1>7, <1>8, <1>9, <1>10
  DEF Next, Writer, BoardStep, ModemSend

(* Tests that name their applications find them. *)
LEMMA NextChecked ==
    TypeInv /\ Installed /\ CheckedFirmware /\ [Next]_vars => CheckedFirmware'
<1> SUFFICES ASSUME TypeInv, Installed, CheckedFirmware, [Next]_vars,
                    host' = "tests", setting'.check
             PROVE  running' = "new" \/ setting'.oldHasThem
  BY DEF CheckedFirmware
<1>1. setting' = setting
  BY DEF Next, vars, Host, Writer, BoardStep, Popen, Communicated,
         TimeoutExpired, OpenPort, ReadBoot, ReadHelp, LineGarbled, PromptStolen,
         WriterKeeps, cancel_autoboot, SendInstall, WaitForXmodem, ModemSend,
         ModemReturned, wait_for_prompt, Sync, Reboot, TextGarbled,
         BoardReceives, BackToPrompt, Boots, BoardDies, BoardDrops
<1>2. CASE ReadHelp
  BY <1>1, <1>2 DEF ReadHelp, Configured, boardVars
<1>3. CASE Boots
  <2>1. host = "tests" /\ running' = image /\ (running = "new" => image = "new")
    BY <1>3 DEF Boots, Installed
  <2> QED
    BY <1>1, <2>1 DEF CheckedFirmware
<1>4. CASE ~ReadHelp /\ ~Boots
  <2>1. running' = running /\ (host = "tests" \/ ~setting.check)
    BY <1>4
    DEF Next, vars, Host, Writer, BoardStep, Popen, Communicated,
        TimeoutExpired, OpenPort, ReadBoot, LineGarbled, PromptStolen, WriterKeeps,
        cancel_autoboot, SendInstall, WaitForXmodem, ModemSend,
        ModemReturned, wait_for_prompt, Sync, Reboot, TextGarbled,
        BoardReceives, BackToPrompt, BoardDies, BoardDrops, hostVars,
        boardVars, Reset
  <2> QED
    BY <1>1, <2>1 DEF CheckedFirmware
<1> QED
  BY <1>2, <1>3, <1>4

(* The invariant of the whole dialogue holds in every state. *)
LEMMA FlashInvariant ==
    Spec => [](TypeInv /\ TransferInv /\ LockStep /\ FlashInv)
<1>1. Init => FlashInv
  BY DEF Init, XmodemInit, FlashInv, HostInv, Installed, Flashed,
         CheckedFirmware, Gone
<1>2. TypeInv /\ TransferInv /\ LockStep /\ FlashInv /\ [Next]_vars => FlashInv'
  BY NextHost, NextInstalled, NextFlashed, NextChecked DEF FlashInv, TypeInv
<1> QED
  BY <1>1, <1>2, TransferInvariant, PTL DEF Spec

(* Tests run on the firmware that was built unless the writer was not      *)
(* started, was stopped, or did not bring the file over; they find the     *)
(* applications they name; and nobody else reads their port, unless the    *)
(* time limit was reached and os.kill found no process that it could kill  *)
(* (flash_n_check, Device.flash and the dialogue of the flash writer).     *)
THEOREM TestsOnTheFirmware == Spec => []TestsStartRight
<1>1. FlashInv => TestsStartRight
  <2> SUFFICES ASSUME FlashInv PROVE TestsStartRight
    OBVIOUS
  <2>1. OldFirmwareHasCause
    BY DEF FlashInv, HostInv, Flashed, OldFirmwareHasCause
  <2>2. CheckedFirmware /\ PortIsOurs
    BY DEF FlashInv, HostInv, PortIsOurs
  <2> QED
    BY <2>1, <2>2 DEF TestsStartRight
<1> QED
  BY <1>1, FlashInvariant, PTL
=============================================================================

--------------------------- MODULE MessageParser ---------------------------
(***************************************************************************)
(* Parser.try_message_parse of TestFramework/src/api/message.py, called    *)
(* for every line that reaches a WAIT_FOR step whose data is a             *)
(* MsgDescriptor.  It collects a message in the step's storage, from its   *)
(* open tag to the close tag or over a number of lines, and gives it to    *)
(* the parsing function of the descriptor.  The storage is the step's: it  *)
(* is the same when the test is repeated.                                  *)
(***************************************************************************)
EXTENDS Integers, Sequences, SequencesExt

CONSTANTS
    Descriptors,   \* the message descriptors considered
    MaxLines,      \* bound: lines fed to the step
    MaxAttempts    \* bound: attempts at the test

(* A line is the open tag, contains the close tag, or both, or neither. *)
LineKinds == {"open", "close", "both", "other"}
IsOpen(kind) == kind \in {"open", "both"}
IsClose(kind) == kind \in {"close", "both"}

(* MsgDescriptor refuses a descriptor with neither end. *)
ASSUME MessageParserAssumption ==
    /\ Descriptors \subseteq {d \in [close_tag: BOOLEAN, line_count: Nat] :
                                  d.close_tag \/ d.line_count > 0}
    /\ MaxLines \in Nat /\ MaxAttempts \in Nat \ {0}

VARIABLES
    descr,         \* msg_descr
    msg_buff, line_count, do_decrement,   \* attributes of storage
    pos,           \* the position of the StringIO msg_buff: lines before it
    raised,        \* the parsing function has raised: the attempt is over
    attempt,
    left,          \* history: it has raised at what the buffer holds
    seen,          \* history: the lines fed to the step
    parsed         \* history: the buffers given to the parsing function

storage == <<msg_buff, line_count, do_decrement, pos>>
parserVars == <<descr, storage, raised, attempt, left, seen, parsed>>

(* A line of the history has a number; "rest" is the end of one whose      *)
(* beginning has been written over.                                        *)
Line == [no: 1..MaxLines, kind: LineKinds \cup {"rest"}]

(* A buffer, the number of its last line and whether it was left over. *)
Given == [lines: Seq(Line), no: 1..MaxLines, left: BOOLEAN]

(* A buffer that is not None has a line in it. *)
NoBuffer == <<>>

ParserTypeOK ==
    /\ descr \in Descriptors
    /\ msg_buff \in Seq(Line)
    /\ line_count \in Int /\ do_decrement \in BOOLEAN
    /\ msg_buff = NoBuffer => line_count = 0 /\ ~do_decrement
    /\ pos \in 0..Len(msg_buff)
    /\ raised \in BOOLEAN /\ left \in BOOLEAN
    /\ attempt \in 1..MaxAttempts
    /\ seen \in Seq(Line)
    /\ parsed \in Seq(Given)

ParserInit ==
    /\ descr \in Descriptors
    /\ msg_buff = NoBuffer /\ line_count = 0 /\ do_decrement = FALSE /\ pos = 0
    /\ raised = FALSE /\ left = FALSE /\ attempt = 1
    /\ seen = <<>> /\ parsed = <<>>

Fed(kind) == [no |-> Len(seen) + 1, kind |-> kind]

(* An open tag begins a message, unless one has been begun. *)
Begins(kind) == msg_buff = NoBuffer /\ IsOpen(kind)

InMessage(kind) == msg_buff # NoBuffer \/ Begins(kind)
Count(kind) == IF Begins(kind) THEN descr.line_count ELSE line_count

(* From which line on lines are counted.  Mutant: from the one after the   *)
(* close tag on.                                                           *)
MutantCounting(kind) ==
    \/ do_decrement \/ ~descr.close_tag
    \/ msg_buff # NoBuffer /\ IsClose(Last(msg_buff).kind)
Counting(kind) == do_decrement \/ ~descr.close_tag \/ IsClose(kind)

Complete(kind) == Counting(kind) /\ Count(kind) - 1 <= 0

(* do_decrement when a message has been parsed.  Mutant: it stays set. *)
MutantFlagAfter == TRUE
FlagAfter == FALSE

(* What is left of the buffer behind a line written at pos: a write to a   *)
(* StringIO goes over as many characters as it has, to the end of a line   *)
(* or into one.                                                            *)
Tails ==
    IF pos = Len(msg_buff) THEN {<<>>}
    ELSE {SubSeq(msg_buff, j + 1, Len(msg_buff)) : j \in pos + 1..Len(msg_buff)}
         \cup {<<[msg_buff[j] EXCEPT !.kind = "rest"]>>
                  \o SubSeq(msg_buff, j + 1, Len(msg_buff)) :
                  j \in pos + 1..Len(msg_buff)}

Written(line) == {SubSeq(msg_buff, 1, pos) \o <<line>> \o rest : rest \in Tails}

(* The parsing function reads by lines; if it raises, or the callback      *)
(* does, the buffer stays, with the position it has been read to.          *)
ParseReturns ==
    /\ msg_buff' = NoBuffer /\ line_count' = 0 /\ do_decrement' = FlagAfter
    /\ pos' = 0 /\ left' = FALSE
    /\ UNCHANGED raised

ParseRaises(kind, buffer) ==
    /\ msg_buff' = buffer
    /\ line_count' = Count(kind) - 1 /\ do_decrement' = TRUE
    /\ pos' \in 0..Len(buffer)
    /\ raised' = TRUE /\ left' = TRUE

TryMessageParse(kind) ==
    /\ Len(seen) < MaxLines /\ ~raised
    /\ seen' = Append(seen, Fed(kind))
    /\ \/ /\ ~InMessage(kind)
          /\ UNCHANGED <<storage, raised, left, parsed>>
       \/ /\ InMessage(kind) /\ ~Complete(kind)
          /\ msg_buff' \in Written(Fed(kind)) /\ pos' = pos + 1
          /\ do_decrement' = Counting(kind)
          /\ line_count' = IF Counting(kind) THEN Count(kind) - 1
                           ELSE Count(kind)
          /\ UNCHANGED <<raised, left, parsed>>
       \/ /\ InMessage(kind) /\ Complete(kind)
          /\ \E buffer \in Written(Fed(kind)) :
                /\ parsed' = Append(parsed, [lines |-> buffer, no |-> Len(seen) + 1,
                                            left |-> left])
                /\ ParseReturns \/ ParseRaises(kind, buffer)
    /\ UNCHANGED <<descr, attempt>>

(* The test is run again.  Nothing touches the step's storage. *)
RepeatTest ==
    /\ attempt < MaxAttempts
    /\ attempt' = attempt + 1 /\ raised' = FALSE
    /\ UNCHANGED <<descr, storage, left, seen, parsed>>

LinesEnded ==
    /\ Len(seen) = MaxLines \/ raised
    /\ attempt = MaxAttempts
    /\ UNCHANGED parserVars

ParserNext == \/ \E kind \in LineKinds : TryMessageParse(kind)
              \/ RepeatTest \/ LinesEnded

ParserSpec == ParserInit /\ [][ParserNext]_parserVars

(***************************************************************************)
(* Properties.                                                             *)
(***************************************************************************)
Opens(k) == IsOpen(seen[k].kind)

(* The first line from k on that holds the close tag, or 0. *)
Closes(k) ==
    LET ends == {m \in k..Len(seen) : IsClose(seen[m].kind)} IN
    IF ends = {} THEN 0 ELSE Min(ends)

(* Where a message that opens at line k ends, as the description of class  *)
(* Parser has it: line_count lines from the open tag on, or from the close *)
(* tag on; 0 if it has not ended.                                          *)
Extra == IF descr.line_count = 0 THEN 0 ELSE descr.line_count - 1
EndOf(k) ==
    LET from == IF descr.close_tag THEN Closes(k) ELSE k
    IN  IF from = 0 \/ from + Extra > Len(seen) THEN 0 ELSE from + Extra

(* The messages in the lines seen so far, one after the other: a message   *)
(* opens at the first open tag after the last one has ended.               *)
StartAfter(k) ==
    LET starts == {m \in k + 1..Len(seen) : Opens(m)} IN
    IF starts = {} THEN 0 ELSE Min(starts)

(* Where message n has ended. *)
End(n) == IF n = 0 THEN 0 ELSE parsed[n].no

(* Unless the buffer was left over, the parsing function is given what the *)
(* description of class Parser promises: the next message behind the last  *)
(* one given, from its open tag to its end, none left out and none twice,  *)
(* whatever tags occur inside or between messages and wherever the test is *)
(* repeated; and the buffer holds the beginning of the message that has    *)
(* not ended yet (try_message_parse).                                      *)
ParsedAsDescribed ==
    /\ \A n \in 1..Len(parsed) :
          LET k == StartAfter(End(n - 1)) IN
          ~parsed[n].left =>
              k # 0 /\ EndOf(k) # 0 /\ parsed[n].lines = SubSeq(seen, k, EndOf(k))
    /\ LET k == StartAfter(End(Len(parsed))) IN
       ~left => IF k = 0 THEN msg_buff = NoBuffer
                ELSE EndOf(k) = 0 /\ msg_buff = SubSeq(seen, k, Len(seen))

(* A buffer at which the parsing function has raised spoils one call more  *)
(* and no other: it is given again with the very next line, whatever that  *)
(* is, even when the next attempt at the test has begun, and once the      *)
(* function returns nothing of it is left (the attributes of storage).     *)
LeftoverGoesNext ==
    /\ \A n \in 1..Len(parsed) :
          parsed[n].left =>
              /\ n > 1 /\ parsed[n].no = parsed[n - 1].no + 1
              /\ seen[parsed[n].no] \in Range(parsed[n].lines)
    /\ left => msg_buff # NoBuffer /\ End(Len(parsed)) = Len(seen)

(* A message is made of the lines that belong to it, and what a parsing    *)
(* function that raises leaves behind goes into the next call              *)
(* (try_message_parse).                                                    *)
MessagesAreRight == ParsedAsDescribed /\ LeftoverGoesNext
=============================================================================

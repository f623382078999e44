--------------------------- MODULE MessageDevice ---------------------------
(***************************************************************************)
(* MessageDevice.read with the templates of NuttshellDevice, called by the *)
(* reader thread of a test (TestFramework/src/api/message_device.py,       *)
(* nuttshell_device.py, output_handler.py and __output_handlers_start and  *)
(* __output_handlers_stop of test.py).                                     *)
(*                                                                         *)
(* Lines the board prints wait in the serial port.  read takes them into   *)
(* self.lines and returns a message when a template fits the lines it has, *)
(* or the oldest line when none does.  self.lines belongs to the device:   *)
(* it outlives the test.                                                   *)
(***************************************************************************)
EXTENDS Naturals, Sequences, FiniteSets, SequencesExt

CONSTANTS
    Looks,       \* the kinds of lines the board prints
    MaxPrinted,  \* bound: lines printed in all
    MaxTests     \* bound: tests that use the device

(* What the templates ask of a line: whether it is empty, contains 'ls',   *)
(* ':' or 'nsh>', and what the templates for one line (NUTTSHELL,          *)
(* NSH_PROMPT, CMD_FAILED, BYTES, APP_ERROR) make of it: no match, a       *)
(* message, or an IndexError because the key is there and the rest is not. *)
LookType == [blank: BOOLEAN, ls: BOOLEAN, colon: BOOLEAN, prompt: BOOLEAN,
             single: {"none", "message", "error"}]

ASSUME MessageDeviceAssumption ==
    /\ Looks \subseteq LookType
    /\ MaxPrinted \in Nat /\ MaxTests \in Nat

VARIABLES
    port,      \* the lines in the serial port
    lines,     \* self.lines
    reader,    \* the reader thread: off, at the head of its loop, in read
               \* (matching or fetching), or dead
    stopit,    \* it has been told to stop
    test,      \* the number of the current test
    open,
    events,    \* what the reader has handed to the current test
    printed,   \* lines printed so far
    took,      \* history: the numbers of the lines handed over, in order
    kept       \* history: the lines of self.lines when the test began

vars == <<port, lines, reader, stopit, test, open, events, printed, took, kept>>

(* A line is numbered, and knows the test it was printed in. *)
LineType == [no: 1..MaxPrinted, test: 0..MaxTests, look: Looks]

EventType == [kind: {"line", "message"}, lines: Seq(LineType)]

TypeOK ==
    /\ port \in Seq(LineType) /\ lines \in Seq(LineType)
    /\ reader \in {"off", "head", "match", "fetch", "dead"}
    /\ stopit \in BOOLEAN /\ open \in BOOLEAN
    /\ reader \in {"head", "match", "fetch"} => open
    /\ test \in 0..MaxTests
    /\ events \in Seq(EventType)
    /\ printed \in 0..MaxPrinted
    /\ took \in Seq(1..MaxPrinted)
    /\ kept \subseteq 1..MaxPrinted

Init ==
    /\ port = <<>> /\ lines = <<>> /\ reader = "off" /\ stopit = FALSE
    /\ test = 0 /\ open = FALSE /\ events = <<>> /\ printed = 0 /\ took = <<>>
    /\ kept = {}

(***************************************************************************)
(* The templates.  A result is a number of lines that make a message,      *)
(* More when the lines do not suffice (StopIteration), NoMatch             *)
(* (ParsingException), or Error.                                           *)
(***************************************************************************)
Message(k) == [is |-> "message", size |-> k]
More == [is |-> "more", size |-> 0]
NoMatch == [is |-> "no", size |-> 0]
Error == [is |-> "error", size |-> 0]

(* NSH_LS: a line with 'ls', a line with ':', and all up to a prompt.      *)
ParseLs(s) ==
    LET prompts == {k \in 3..Len(s) : s[k].look.prompt} IN
    IF ~s[1].look.ls THEN NoMatch
    ELSE IF Len(s) = 1 THEN More
    ELSE IF ~s[2].look.colon THEN NoMatch
    ELSE IF prompts = {} THEN More
    ELSE Message(Min(prompts))

ParseSingle(s) ==
    CASE s[1].look.single = "none" -> NoMatch
      [] s[1].look.single = "message" -> Message(1)
      [] s[1].look.single = "error" -> Error

(* The templates are tried in their order, until one does not decline.     *)
(* Mutant: the others are tried too when one wants more lines.             *)
MutantParse(s) == IF ParseLs(s).is = "message" THEN ParseLs(s)
                  ELSE ParseSingle(s)
Parse(s) == IF ParseLs(s) # NoMatch THEN ParseLs(s) ELSE ParseSingle(s)

(* The lines a message leaves in the cache. *)
Rest(s, k) == SubSeq(s, k + 1, Len(s))

(***************************************************************************)
(* The reader thread.                                                      *)
(***************************************************************************)
(* read returns, and data_cb hands what it returned to the test *)
HandOver(kind, k) ==
    /\ events' = Append(events, [kind |-> kind, lines |-> SubSeq(lines, 1, k)])
    /\ took' = took \o [n \in 1..k |-> lines[n].no]
    /\ lines' = Rest(lines, k)
    /\ reader' = "head"

LoopHead ==
    /\ reader = "head"
    /\ reader' = IF stopit THEN "off" ELSE "match"
    /\ UNCHANGED <<port, lines, stopit, test, open, events, printed, took, kept>>

MatchLines ==
    /\ reader = "match"
    /\ \/ /\ lines = <<>>
          /\ reader' = "fetch" /\ UNCHANGED <<lines, events, took>>
       \/ /\ lines # <<>>
          /\ LET r == Parse(lines) IN
             \/ r.is = "message" /\ HandOver("message", r.size)
             \/ r.is = "no" /\ HandOver("line", 1)
             \/ /\ r.is = "more"
                /\ reader' = "fetch" /\ UNCHANGED <<lines, events, took>>
             \/ /\ r.is = "error"      \* leaves read, and ends the thread
                /\ reader' = "dead" /\ UNCHANGED <<lines, events, took>>
    /\ UNCHANGED <<port, stopit, test, open, printed, kept>>

FetchLine ==
    /\ reader = "fetch" /\ port # <<>>
    /\ port' = Tail(port)
    /\ lines' = IF Head(port).look.blank THEN lines
                ELSE Append(lines, Head(port))
    /\ reader' = "match"
    /\ UNCHANGED <<stopit, test, open, events, printed, took, kept>>

(* The port times out: read returns an empty string, which is no event.    *)
(* Mutant: it ends the thread.                                             *)
MutantAfterTimeout == "off"
AfterTimeout == "head"

FetchTimeout ==
    /\ reader = "fetch" /\ port = <<>>
    /\ reader' = AfterTimeout
    /\ UNCHANGED <<port, lines, stopit, test, open, events, printed, took, kept>>

Reader == LoopHead \/ MatchLines \/ FetchLine \/ FetchTimeout

(***************************************************************************)
(* The main thread, and the board.                                         *)
(***************************************************************************)
(* __output_handlers_start: what is in the port is read and thrown away. *)
Drained == <<>>

StartTest ==
    /\ ~open /\ reader \in {"off", "dead"} /\ test < MaxTests
    /\ test' = test + 1 /\ open' = TRUE
    /\ port' = Drained
    /\ stopit' = FALSE /\ reader' = "head" /\ events' = <<>>
    /\ kept' = {lines[n].no : n \in 1..Len(lines)}
    /\ UNCHANGED <<lines, printed, took>>

(* __output_handlers_stop: stopit, then join, then close.  Mutant: the     *)
(* thread is not waited for.                                               *)
MutantJoined == TRUE
Joined == reader \in {"off", "dead"}

StopReader ==
    /\ open /\ ~stopit
    /\ stopit' = TRUE
    /\ UNCHANGED <<port, lines, reader, test, open, events, printed, took, kept>>

CloseDevice ==
    /\ open /\ stopit /\ Joined
    /\ open' = FALSE
    /\ UNCHANGED <<port, lines, reader, stopit, test, events, printed, took, kept>>

BoardPrints ==
    /\ printed < MaxPrinted
    /\ printed' = printed + 1
    /\ \E k \in Looks :
           port' = Append(port, [no |-> printed + 1, test |-> test, look |-> k])
    /\ UNCHANGED <<lines, reader, stopit, test, open, events, took, kept>>

Main == StartTest \/ StopReader \/ CloseDevice

Finished == ~open /\ test = MaxTests /\ UNCHANGED vars

Next == Reader \/ Main \/ BoardPrints \/ Finished

Spec == Init /\ [][Next]_vars

(* The reader thread is scheduled, and a test that is over is left. *)
FairSpec == Spec /\ WF_vars(Reader) /\ WF_vars(CloseDevice)

(***************************************************************************)
(* Properties.                                                             *)
(***************************************************************************)
Numbers(s) == [n \in 1..Len(s) |-> s[n].no]

(* Every line is handed over at most once, and in the order the board has  *)
(* printed them, whether alone or in a message, across tests (self.lines   *)
(* in read).                                                               *)
OnceAndInOrder ==
    LET s == took \o Numbers(lines) \o Numbers(port) IN
    \A n \in 1..Len(s) - 1 : s[n] < s[n + 1]

(* A message is made of lines that belong together: the two lines that     *)
(* open it and all up to its prompt, or one line; and a line that is       *)
(* handed over alone opens no message with the line after it (the order in *)
(* which templates are tried, and the wait for more lines).                *)
MessagesAreWhole ==
    \A n \in 1..Len(events) :
        LET e == events[n] IN
        /\ e.kind = "message" =>
               \/ Len(e.lines) = 1 /\ e.lines[1].look.single = "message"
               \/ /\ Len(e.lines) >= 3
                  /\ e.lines[1].look.ls /\ e.lines[2].look.colon
                  /\ Last(e.lines).look.prompt
                  /\ \A k \in 3..Len(e.lines) - 1 : ~e.lines[k].look.prompt
        /\ n < Len(events) /\ Len(e.lines) = 1 /\ e.lines[1].look.ls =>
               ~events[n + 1].lines[1].look.colon

(* A test is told nothing that was printed before it began, except what    *)
(* read had already taken into self.lines for a message that was not       *)
(* complete: draining the port in __output_handlers_start does not reach   *)
(* the cache of the device.                                                *)
NothingStale ==
    \A n \in 1..Len(events) : \A k \in 1..Len(events[n].lines) :
        LET l == events[n].lines[k] IN l.test = test \/ l.no \in kept

(* What a test gets is what the board has printed in it: each line once    *)
(* and in order, messages whole, and nothing from an earlier test but what *)
(* the cache has kept (MessageDevice.read).                                *)
LinesAsPrinted == OnceAndInOrder /\ MessagesAreWhole /\ NothingStale

(* A line the board prints is handed over, unless it is empty, the test is *)
(* stopped first, a bare prompt has ended the reader, or it waits for the  *)
(* prompt that ends its listing (the loops of OutputHandler.run and read). *)
LinesHandedOver ==
    \A k \in 1..MaxPrinted :
        (/\ open
         /\ \E n \in 1..Len(port) : port[n].no = k /\ ~port[n].look.blank) ~>
            \/ stopit \/ reader = "dead"
            \/ \E n \in 1..Len(took) : took[n] = k
            \/ /\ \E n \in 1..Len(lines) : lines[n].no = k
               /\ Parse(lines) = More
=============================================================================

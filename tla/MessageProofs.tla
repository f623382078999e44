----------------------------- MODULE MessageProofs -----------------------------
(***************************************************************************)
(* Theorems on MessageDevice and MessageParser: what happens to a line     *)
(* from the serial port to the parsing function of a step, for any lines   *)
(* in any number of tests and attempts.                                    *)
(*                                                                         *)
(* The invariant of the device has a part for each promise.  Ordered: the  *)
(* lines handed over, those in the cache and those in the port are in      *)
(* order, one after the other.  Together: a message is made of lines that  *)
(* belong together, and a line that was handed over alone is not followed  *)
(* by what would have continued it.  Fresh: a line is of this test or was  *)
(* in the cache when the test began.                                       *)
(*                                                                         *)
(* That of the parser says where the lines of its buffer are among those   *)
(* it has seen: Runs, of all it holds and has given away; Described, of    *)
(* the messages it has given away; Current, of the one it collects.        *)
(***************************************************************************)
EXTENDS MessageDevice, MessageParser, TLAPS, FiniteSetTheorems,
        SequenceTheorems, WellFoundedInduction

(* A set of natural numbers that is not empty has a least element. *)
LEMMA Least ==
    ASSUME NEW S \in SUBSET Nat, S # {}
    PROVE  Min(S) \in S /\ \A x \in S : Min(S) <= x
<1> DEFINE R == OpToRel(<, Nat)
<1>1. IsWellFoundedOn(R, Nat)
  BY NatLessThanWellFounded
<1>2. \A a, b \in Nat : <<a, b>> \in R <=> a < b
  BY DEF OpToRel
<1> HIDE DEF R
<1>3. PICK x \in S : \A y \in S : ~(<<y, x>> \in R)
  BY <1>1, WFMin
<1>4. ASSUME NEW y \in S PROVE x <= y
  <2>1. x \in Nat /\ y \in Nat
    OBVIOUS
  <2>2. ~(y < x)
    BY <1>2, <1>3, <2>1
  <2> QED BY <2>1, <2>2
<1> QED BY <1>4 DEF Min

(* A function on the first n positions is a sequence. *)
LEMMA Listed ==
    ASSUME NEW V, NEW n \in Nat, NEW f \in [1..n -> V]
    PROVE  f \in Seq(V)
<1>1. f \in UNION {[1..m -> V] : m \in Nat}
  OBVIOUS
<1> QED BY <1>1, SeqDef, Zenon

(* The numbers of the first k lines of a sequence. *)
Heads(s, k) == [i \in 1..k |-> s[i].no]

(* What a hand over takes out of the cache, and what it leaves.            *)
LEMMA Cut ==
    ASSUME NEW s \in Seq(LineType), NEW k \in 1..Len(s)
    PROVE  /\ SubSeq(s, 1, k) \in Seq(LineType) /\ Len(SubSeq(s, 1, k)) = k
           /\ \A i \in 1..k : SubSeq(s, 1, k)[i] = s[i]
           /\ Rest(s, k) \in Seq(LineType) /\ Len(Rest(s, k)) = Len(s) - k
           /\ \A i \in 1..(Len(s) - k) : Rest(s, k)[i] = s[k + i]
           /\ Heads(s, k) \in Seq(1..MaxPrinted) /\ Len(Heads(s, k)) = k
           /\ \A i \in 1..k : Heads(s, k)[i] = s[i].no
<1>1. Len(s) \in Nat /\ k \in Nat /\ k <= Len(s)
  OBVIOUS
<1>2. \A i \in 1..Len(s) : s[i] \in LineType
  OBVIOUS
<1>3. /\ SubSeq(s, 1, k) \in Seq(LineType) /\ Len(SubSeq(s, 1, k)) = k
      /\ \A i \in 1..k : SubSeq(s, 1, k)[i] = s[i]
  <2>1. \A i \in 1..k : s[i] \in LineType
    BY <1>1, <1>2
  <2> QED BY <1>1, <2>1, SubSeqProperties
<1>4. /\ Rest(s, k) \in Seq(LineType) /\ Len(Rest(s, k)) = Len(s) - k
      /\ \A i \in 1..(Len(s) - k) : Rest(s, k)[i] = s[k + i]
  <2>1. \A i \in (k + 1)..Len(s) : s[i] \in LineType
    BY <1>1, <1>2
  <2>2. /\ SubSeq(s, k + 1, Len(s)) \in Seq(LineType)
        /\ Len(SubSeq(s, k + 1, Len(s))) =
             IF k + 1 <= Len(s) THEN Len(s) - (k + 1) + 1 ELSE 0
        /\ \A i \in 1..(Len(s) - (k + 1) + 1) :
              SubSeq(s, k + 1, Len(s))[i] = s[(k + 1) + i - 1]
    BY <1>1, <2>1, SubSeqProperties
  <2>3. Len(Rest(s, k)) = Len(s) - k
    <3>1. \A m, n \in Nat :
             n <= m => (IF n + 1 <= m THEN m - (n + 1) + 1 ELSE 0) = m - n
      OBVIOUS
    <3> QED BY <1>1, <2>2, <3>1, Zenon DEF Rest
  <2>4. ASSUME NEW i \in 1..(Len(s) - k) PROVE Rest(s, k)[i] = s[k + i]
    <3>1. i \in 1..(Len(s) - (k + 1) + 1) /\ (k + 1) + i - 1 = k + i
      BY <1>1
    <3> QED BY <2>2, <3>1 DEF Rest
  <2>5. Rest(s, k) \in Seq(LineType)
    BY <2>2 DEF Rest
  <2> QED BY <2>3, <2>4, <2>5
<1>5. \A i \in 1..k : s[i].no \in 1..MaxPrinted
  <2>1. \A i \in 1..k : i \in 1..Len(s)
    BY <1>1
  <2>2. \A l \in LineType : l.no \in 1..MaxPrinted
    BY DEF LineType
  <2> QED BY <1>2, <2>1, <2>2, Zenon
<1>6. /\ Heads(s, k) \in Seq(1..MaxPrinted) /\ Len(Heads(s, k)) = k
      /\ \A i \in 1..k : Heads(s, k)[i] = s[i].no
  <2>1. Heads(s, k) \in [1..k -> 1..MaxPrinted]
    BY <1>5 DEF Heads
  <2>2. Len(Heads(s, k)) = k
    BY <1>1, <2>1, LenProperties
  <2>3. Heads(s, k) \in Seq(1..MaxPrinted)
    <3> DEFINE V == 1..MaxPrinted
               h == Heads(s, k)
    <3>1. h \in [1..k -> V] /\ k \in Nat
      BY <1>1, <2>1
    <3> HIDE DEF h, V
    <3>2. h \in Seq(V)
      BY <3>1, Listed
    <3> QED BY <3>2 DEF h, V
  <2> QED BY <2>2, <2>3 DEF Heads
<1> HIDE DEF Heads, Rest
<1> QED BY <1>3, <1>4, <1>6

(* A listing that read takes: its first two lines, and all up to the first *)
(* prompt behind them.                                                     *)
Listing(s, k) ==
    /\ k \in 3..Len(s)
    /\ s[1].look.ls /\ s[2].look.colon /\ s[k].look.prompt
    /\ \A i \in 3..(k - 1) : ~s[i].look.prompt

(* The first line opens no listing. *)
Alone(s) == s[1].look.ls => Len(s) >= 2 /\ ~s[2].look.colon

(* What the template for listings says of the lines. *)
LEMMA ListingParsed ==
    ASSUME NEW s \in Seq(LineType), s # <<>>
    PROVE  /\ ParseLs(s).is = "message" => Listing(s, ParseLs(s).size)
           /\ ParseLs(s) = NoMatch <=> ParseLs(s).is = "no"
           /\ ParseLs(s).is \in {"message", "more", "no"}
           /\ ParseLs(s) = NoMatch => Alone(s)
<1> DEFINE prompts == {k \in 3..Len(s) : s[k].look.prompt}
<1>1. Len(s) \in Nat /\ Len(s) >= 1
  BY EmptySeq
<1>2. ParseLs(s) = IF ~s[1].look.ls THEN NoMatch
                   ELSE IF Len(s) = 1 THEN More
                   ELSE IF ~s[2].look.colon THEN NoMatch
                   ELSE IF prompts = {} THEN More
                   ELSE Message(Min(prompts))
  BY DEF ParseLs
<1>3. prompts # {} => /\ Min(prompts) \in prompts
                      /\ \A i \in prompts : Min(prompts) <= i
  <2>1. prompts \in SUBSET Nat
    BY <1>1
  <2> QED BY <2>1, Least
<1>4. CASE ~s[1].look.ls
  BY <1>2, <1>4 DEF NoMatch, Alone
<1>5. CASE s[1].look.ls /\ Len(s) = 1
  BY <1>2, <1>5 DEF More, NoMatch
<1>6. CASE s[1].look.ls /\ Len(s) # 1 /\ ~s[2].look.colon
  <2>1. ParseLs(s) = NoMatch
    BY <1>2, <1>6
  <2>2. Len(s) >= 2
    <3>1. Len(s) # 1
      BY <1>6
    <3>2. \A n \in Nat : n >= 1 /\ n # 1 => n >= 2
      OBVIOUS
    <3> QED BY <1>1, <3>1, <3>2
  <2>3. Alone(s)
    BY <1>6, <2>2 DEF Alone
  <2> QED BY <2>1, <2>3 DEF NoMatch
<1>7. CASE s[1].look.ls /\ Len(s) # 1 /\ s[2].look.colon /\ prompts = {}
  BY <1>2, <1>7 DEF More, NoMatch
<1>8. CASE s[1].look.ls /\ Len(s) # 1 /\ s[2].look.colon /\ prompts # {}
  <2> DEFINE k == Min(prompts)
  <2>1. ParseLs(s) = Message(k)
    BY <1>2, <1>8
  <2>2. k \in 3..Len(s) /\ s[k].look.prompt /\ \A i \in prompts : k <= i
    BY <1>3, <1>8
  <2> HIDE DEF k
  <2>3. ASSUME NEW i \in 3..(k - 1) PROVE ~s[i].look.prompt
    <3>1. i \in 3..Len(s) /\ ~(k <= i)
      BY <1>1, <2>2
    <3> QED BY <2>2, <3>1
  <2>4. Listing(s, k)
    BY <1>8, <2>2, <2>3 DEF Listing
  <2> QED BY <2>1, <2>4 DEF Message, NoMatch
<1> QED BY <1>4, <1>5, <1>6, <1>7, <1>8

(* What the templates say of them, one after the other. *)
LEMMA LinesParsed ==
    ASSUME NEW s \in Seq(LineType), s # <<>>
    PROVE  /\ Parse(s).is = "message" =>
                 \/ Listing(s, Parse(s).size)
                 \/ Parse(s).size = 1 /\ s[1].look.single = "message" /\ Alone(s)
           /\ Parse(s).is = "no" => Alone(s)
<1>1. Len(s) \in Nat /\ Len(s) >= 1
  BY EmptySeq
<1>2. s[1].look.single \in {"none", "message", "error"}
  <2>1. s[1] \in LineType
    BY <1>1
  <2> QED BY <2>1, MessageDeviceAssumption DEF LineType, LookType
<1>3. CASE ParseLs(s) # NoMatch
  <2>1. Parse(s) = ParseLs(s)
    BY <1>3 DEF Parse
  <2> QED BY <1>3, <2>1, ListingParsed
<1>4. CASE ParseLs(s) = NoMatch
  <2>1. Parse(s) = ParseSingle(s)
    BY <1>4 DEF Parse
  <2>2. Alone(s)
    BY <1>4, ListingParsed
  <2>3. ParseSingle(s) = IF s[1].look.single = "none" THEN NoMatch
                         ELSE IF s[1].look.single = "message" THEN Message(1)
                         ELSE Error
    BY <1>2 DEF ParseSingle
  <2> QED BY <2>1, <2>2, <2>3 DEF NoMatch, Message, Error
<1> QED BY <1>3, <1>4

(* A match hands over some lines of the cache, or changes neither cache    *)
(* nor events.                                                             *)
LEMMA Matched ==
    ASSUME lines \in Seq(LineType), MatchLines
    PROVE  \/ /\ UNCHANGED <<lines, events, took>>
              /\ reader' \in {"fetch", "dead"}
           \/ \E k \in 1..Len(lines), kind \in {"line", "message"} :
                 /\ HandOver(kind, k)
                 /\ kind = "message" => \/ Listing(lines, k)
                                        \/ k = 1 /\ lines[1].look.single = "message"
                 /\ k = 1 => Alone(lines)
<1>1. CASE UNCHANGED <<lines, events, took>> /\ reader' \in {"fetch", "dead"}
  BY <1>1
<1>2. CASE lines # <<>> /\ Parse(lines).is = "message"
           /\ HandOver("message", Parse(lines).size)
  <2>1. 1 \in 1..Len(lines)
    BY <1>2, EmptySeq
  <2>2. CASE Listing(lines, Parse(lines).size)
    <3>1. Parse(lines).size \in 1..Len(lines) /\ Parse(lines).size # 1
      BY <2>1, <2>2 DEF Listing
    <3> QED BY <1>2, <2>2, <3>1
  <2>3. CASE /\ Parse(lines).size = 1 /\ lines[1].look.single = "message"
             /\ Alone(lines)
    BY <1>2, <2>1, <2>3
  <2> QED BY <1>2, <2>2, <2>3, LinesParsed
<1>3. CASE lines # <<>> /\ Parse(lines).is = "no" /\ HandOver("line", 1)
  <2>1. 1 \in 1..Len(lines)
    BY <1>3, EmptySeq
  <2> QED BY <1>3, <2>1, LinesParsed
<1> QED BY <1>1, <1>2, <1>3 DEF MatchLines

(***************************************************************************)
(* The invariant.                                                          *)
(***************************************************************************)
(* Numbers that go up, and those of one sequence before those of another.  *)
Ascend(s) == \A i, j \in 1..Len(s) : i < j => s[i] < s[j]
Before(s, t) == \A i \in 1..Len(s), j \in 1..Len(t) : s[i] < t[j]
UpTo(s, n) == \A i \in 1..Len(s) : s[i] <= n

InTurn(a, b, c) == /\ Ascend(a) /\ Ascend(b) /\ Ascend(c)
                   /\ Before(a, b) /\ Before(a, c) /\ Before(b, c)

(* What was handed over, what is in the cache, and what is in the port. *)
Ordered ==
    /\ InTurn(took, Numbers(lines), Numbers(port))
    /\ UpTo(took, printed) /\ UpTo(Numbers(lines), printed)
    /\ UpTo(Numbers(port), printed)

(* An event that is whole, and a line that was handed over alone although  *)
(* it could open a listing.                                                *)
Whole(e) ==
    /\ Len(e.lines) >= 1
    /\ e.kind = "message" =>
           \/ Len(e.lines) = 1 /\ e.lines[1].look.single = "message"
           \/ Listing(e.lines, Len(e.lines))
Opener(e) == Len(e.lines) = 1 /\ e.lines[1].look.ls

Together ==
    /\ \A n \in 1..Len(events) : Whole(events[n])
    /\ \A n \in 1..Len(events) : n < Len(events) /\ Opener(events[n]) =>
           ~events[n + 1].lines[1].look.colon
    /\ events # <<>> /\ Opener(events[Len(events)]) =>
           lines # <<>> /\ ~lines[1].look.colon

Fresh ==
    /\ \A n \in 1..Len(port) : port[n].test = test
    /\ \A n \in 1..Len(lines) : lines[n].test = test \/ lines[n].no \in kept
    /\ \A n \in 1..Len(events) : \A k \in 1..Len(events[n].lines) :
           \/ events[n].lines[k].test = test
           \/ events[n].lines[k].no \in kept

LinesInv == Ordered /\ Together /\ Fresh

(***************************************************************************)
(* Types.                                                                  *)
(***************************************************************************)
(* What a hand over does to the variables. *)
LEMMA HandedOver ==
    ASSUME TypeOK, NEW k \in 1..Len(lines), NEW kind \in {"line", "message"},
           HandOver(kind, k)
    PROVE  /\ lines' \in Seq(LineType) /\ Len(lines') = Len(lines) - k
           /\ \A i \in 1..(Len(lines) - k) : lines'[i] = lines[k + i]
           /\ took' \in Seq(1..MaxPrinted) /\ Len(took') = Len(took) + k
           /\ \A i \in 1..(Len(took) + k) :
                 took'[i] = IF i <= Len(took) THEN took[i]
                            ELSE lines[i - Len(took)].no
           /\ events' \in Seq(EventType) /\ Len(events') = Len(events) + 1
           /\ \A i \in 1..Len(events) : events'[i] = events[i]
           /\ events'[Len(events) + 1].kind = kind
           /\ events'[Len(events) + 1].lines \in Seq(LineType)
           /\ Len(events'[Len(events) + 1].lines) = k
           /\ \A i \in 1..k : events'[Len(events) + 1].lines[i] = lines[i]
<1> DEFINE e == [kind |-> kind, lines |-> SubSeq(lines, 1, k)]
<1>1. /\ lines \in Seq(LineType) /\ took \in Seq(1..MaxPrinted)
      /\ events \in Seq(EventType)
  BY DEF TypeOK
<1>2. /\ events' = Append(events, e) /\ took' = took \o Heads(lines, k)
      /\ lines' = Rest(lines, k)
  BY DEF HandOver, Heads
<1>3. /\ lines' \in Seq(LineType) /\ Len(lines') = Len(lines) - k
      /\ \A i \in 1..(Len(lines) - k) : lines'[i] = lines[k + i]
  BY <1>1, <1>2, Cut
<1>4. /\ took' \in Seq(1..MaxPrinted) /\ Len(took') = Len(took) + k
      /\ \A i \in 1..(Len(took) + k) :
            took'[i] = IF i <= Len(took) THEN took[i]
                       ELSE lines[i - Len(took)].no
  <2> DEFINE V == 1..MaxPrinted
             h == Heads(lines, k)
  <2>1. h \in Seq(V) /\ Len(h) = k /\ \A i \in 1..k : h[i] = lines[i].no
    BY <1>1, Cut
  <2> HIDE DEF V, h
  <2>2. took \in Seq(V)
    BY <1>1 DEF V
  <2>3. /\ took \o h \in Seq(V) /\ Len(took \o h) = Len(took) + Len(h)
        /\ \A i \in 1..Len(took) + Len(h) :
              (took \o h)[i] = IF i <= Len(took) THEN took[i]
                               ELSE h[i - Len(took)]
    BY <2>1, <2>2, ConcatProperties
  <2>4. took' = took \o h
    BY <1>2 DEF h
  <2>5. Len(took) \in Nat /\ k \in Nat
    BY <1>1
  <2>6. ASSUME NEW i \in 1..(Len(took) + k)
        PROVE  took'[i] = IF i <= Len(took) THEN took[i]
                          ELSE lines[i - Len(took)].no
    <3>1. CASE i <= Len(took)
      BY <2>1, <2>3, <2>4, <3>1
    <3>2. CASE ~(i <= Len(took))
      <4>1. i - Len(took) \in 1..k
        BY <2>5, <3>2
      <4> QED BY <2>1, <2>3, <2>4, <3>2, <4>1
    <3> QED BY <3>1, <3>2
  <2>7. took' \in Seq(1..MaxPrinted)
    BY <2>3, <2>4 DEF V
  <2> QED BY <2>1, <2>3, <2>4, <2>6, <2>7
<1>5. SubSeq(lines, 1, k) \in Seq(LineType) /\ Len(SubSeq(lines, 1, k)) = k
      /\ \A i \in 1..k : SubSeq(lines, 1, k)[i] = lines[i]
  BY <1>1, Cut
<1>6. e \in EventType /\ e.kind = kind /\ e.lines = SubSeq(lines, 1, k)
  BY <1>5 DEF EventType
<1> HIDE DEF e
<1>7. /\ events' \in Seq(EventType) /\ Len(events') = Len(events) + 1
      /\ \A i \in 1..Len(events) : events'[i] = events[i]
      /\ events'[Len(events) + 1] = e
  BY <1>1, <1>2, <1>6, AppendProperties
<1> QED BY <1>3, <1>4, <1>5, <1>6, <1>7

(* The first line of the port goes to the cache, or is dropped. *)
LEMMA Fetched ==
    ASSUME TypeOK, FetchLine
    PROVE  /\ port' \in Seq(LineType) /\ lines' \in Seq(LineType)
           /\ Len(port) \in Nat /\ Len(port) >= 1 /\ Len(port') = Len(port) - 1
           /\ \A i \in 1..Len(port') : port'[i] = port[i + 1]
           /\ \/ lines' = lines
              \/ /\ Len(lines') = Len(lines) + 1
                 /\ \A i \in 1..Len(lines) : lines'[i] = lines[i]
                 /\ lines'[Len(lines) + 1] = port[1]
<1>1. port \in Seq(LineType) /\ lines \in Seq(LineType) /\ port # <<>>
  BY DEF TypeOK, FetchLine
<1>2. Len(port) \in Nat /\ Len(port) >= 1
  BY <1>1, EmptySeq
<1>3. Head(port) = port[1] /\ Head(port) \in LineType
  <2>1. Head(port) = port[1]
    BY <1>1
  <2>2. Head(port) \in LineType
    BY <1>1, HeadTailProperties
  <2> QED BY <2>1, <2>2
<1>4. /\ port' \in Seq(LineType) /\ Len(port') = Len(port) - 1
      /\ \A i \in 1..Len(port') : port'[i] = port[i + 1]
  BY <1>1, HeadTailProperties DEF FetchLine
<1>5. CASE Head(port).look.blank
  BY <1>1, <1>2, <1>4, <1>5 DEF FetchLine
<1>6. CASE ~Head(port).look.blank
  <2>1. lines' = Append(lines, Head(port))
    BY <1>6 DEF FetchLine
  <2>2. /\ lines' \in Seq(LineType) /\ Len(lines') = Len(lines) + 1
        /\ \A i \in 1..Len(lines) : lines'[i] = lines[i]
        /\ lines'[Len(lines) + 1] = port[1]
    BY <1>1, <1>3, <2>1, AppendProperties
  <2> QED BY <1>2, <1>4, <2>2
<1> QED BY <1>5, <1>6

(* The board adds a line that is newer than all others. *)
LEMMA Printed ==
    ASSUME TypeOK, BoardPrints
    PROVE  /\ port' \in Seq(LineType) /\ Len(port') = Len(port) + 1
           /\ \A i \in 1..Len(port) : port'[i] = port[i]
           /\ port'[Len(port) + 1].no = printed + 1
           /\ port'[Len(port) + 1].test = test
<1>1. /\ port \in Seq(LineType) /\ printed + 1 \in 1..MaxPrinted
      /\ test \in 0..MaxTests
  BY MessageDeviceAssumption DEF TypeOK, BoardPrints
<1>2. PICK look \in Looks :
         port' = Append(port, [no |-> printed + 1, test |-> test, look |-> look])
  BY DEF BoardPrints
<1> DEFINE l == [no |-> printed + 1, test |-> test, look |-> look]
<1>3. l \in LineType /\ l.no = printed + 1 /\ l.test = test
  BY <1>1 DEF LineType
<1> HIDE DEF l
<1>4. port' = Append(port, l)
  BY <1>2 DEF l
<1>5. /\ port' \in Seq(LineType) /\ Len(port') = Len(port) + 1
      /\ \A i \in 1..Len(port) : port'[i] = port[i]
      /\ port'[Len(port) + 1] = l
  BY <1>1, <1>3, <1>4, AppendProperties
<1> QED BY <1>3, <1>5

(* Every step keeps the types. *)
LEMMA TypeStep == TypeOK /\ [Next]_vars => TypeOK'
<1> SUFFICES ASSUME TypeOK, [Next]_vars PROVE TypeOK'
  OBVIOUS
<1>1. CASE MatchLines
  <2>1. UNCHANGED <<port, stopit, test, open, printed, kept>> /\ open
    BY <1>1 DEF MatchLines, TypeOK
  <2>2. lines \in Seq(LineType)
    BY DEF TypeOK
  <2>3. CASE UNCHANGED <<lines, events, took>> /\ reader' \in {"fetch", "dead"}
    BY <2>1, <2>3 DEF TypeOK
  <2>4. ASSUME NEW k \in 1..Len(lines), NEW kind \in {"line", "message"},
               HandOver(kind, k)
        PROVE  TypeOK'
    <3>1. /\ lines' \in Seq(LineType) /\ took' \in Seq(1..MaxPrinted)
          /\ events' \in Seq(EventType)
      BY <2>4, HandedOver
    <3>2. reader' = "head"
      BY <2>4 DEF HandOver
    <3> QED BY <2>1, <3>1, <3>2 DEF TypeOK
  <2> QED BY <1>1, <2>2, <2>3, <2>4, Matched
<1>2. CASE FetchLine
  <2>1. port' \in Seq(LineType) /\ lines' \in Seq(LineType)
    BY <1>2, Fetched
  <2> QED BY <1>2, <2>1 DEF FetchLine, TypeOK
<1>3. CASE BoardPrints
  <2>1. port' \in Seq(LineType)
    BY <1>3, Printed
  <2>2. printed' \in 0..MaxPrinted
    BY <1>3, MessageDeviceAssumption DEF BoardPrints, TypeOK
  <2> QED BY <1>3, <2>1, <2>2 DEF BoardPrints, TypeOK
<1>4. CASE StartTest
  <2>1. kept' \subseteq 1..MaxPrinted
    <3>1. \A n \in 1..Len(lines) : lines[n].no \in 1..MaxPrinted
      <4>1. \A n \in 1..Len(lines) : lines[n] \in LineType
        BY DEF TypeOK
      <4> QED BY <4>1 DEF LineType
    <3> QED BY <1>4, <3>1 DEF StartTest
  <2>2. port' \in Seq(LineType) /\ events' \in Seq(EventType)
    BY <1>4, EmptySeq DEF StartTest, Drained
  <2>3. test' \in 0..MaxTests
    BY <1>4, MessageDeviceAssumption DEF StartTest, TypeOK
  <2> QED BY <1>4, <2>1, <2>2, <2>3 DEF StartTest, TypeOK
<1>5. CASE LoopHead
  BY <1>5 DEF LoopHead, TypeOK
<1>6. CASE FetchTimeout
  BY <1>6 DEF FetchTimeout, AfterTimeout, TypeOK
<1>7. CASE StopReader \/ CloseDevice
  BY <1>7 DEF StopReader, CloseDevice, Joined, TypeOK
<1>8. CASE UNCHANGED vars
  BY <1>8 DEF vars, TypeOK
<1> QED BY <1>1, <1>2, <1>3, <1>4, <1>5, <1>6, <1>7, <1>8
        DEF Next, Reader, Main, Finished

(* At first nothing has been printed. *)
LEMMA TypeInit == Init => TypeOK
<1> SUFFICES ASSUME Init PROVE TypeOK
  OBVIOUS
<1>1. \A S : <<>> \in Seq(S)
  BY EmptySeq
<1>2. port \in Seq(LineType) /\ lines \in Seq(LineType)
  BY <1>1 DEF Init
<1>3. events \in Seq(EventType) /\ took \in Seq(1..MaxPrinted)
  BY <1>1 DEF Init
<1>4. test \in 0..MaxTests /\ printed \in 0..MaxPrinted
  BY MessageDeviceAssumption DEF Init
<1> QED BY <1>2, <1>3, <1>4 DEF Init, TypeOK

(* For any lines of the board, in any tests: self.lines and the port hold  *)
(* lines, an event is a line or a message, and the reader runs only while  *)
(* the device is open.                                                     *)
THEOREM DeviceTypeCorrect == Spec => []TypeOK
BY TypeInit, TypeStep, PTL DEF Spec

(***************************************************************************)
(* The order of the lines.                                                 *)
(***************************************************************************)
(* The numbers of a sequence of lines. *)
LEMMA NumbersOf ==
    ASSUME NEW s \in Seq(LineType)
    PROVE  /\ Numbers(s) \in Seq(Nat) /\ Len(Numbers(s)) = Len(s)
           /\ \A i \in 1..Len(s) : Numbers(s)[i] = s[i].no
<1>1. \A i \in 1..Len(s) : s[i].no \in Nat
  <2>1. \A i \in 1..Len(s) : s[i] \in LineType
    OBVIOUS
  <2>2. \A l \in LineType : l.no \in Nat
    BY MessageDeviceAssumption DEF LineType
  <2> QED BY <2>1, <2>2
<1> DEFINE f == Numbers(s)
           n == Len(s)
<1>2. n \in Nat
  OBVIOUS
<1>3. f \in [1..n -> Nat]
  BY <1>1 DEF Numbers
<1>4. \A i \in 1..n : f[i] = s[i].no
  BY DEF Numbers
<1> HIDE DEF f, n
<1>5. f \in Seq(Nat)
  BY <1>2, <1>3, Listed
<1>6. Len(f) = n
  BY <1>2, <1>3, <1>5, LenProperties
<1> QED BY <1>4, <1>5, <1>6 DEF f, n

(* Taking the first of the middle sequence to the end of the first one     *)
(* keeps the order.                                                        *)
LEMMA TurnTaken ==
    ASSUME NEW a \in Seq(Nat), NEW b \in Seq(Nat), NEW c \in Seq(Nat),
           NEW a2 \in Seq(Nat), NEW b2 \in Seq(Nat), NEW k \in 1..Len(b),
           NEW n \in Nat,
           InTurn(a, b, c), UpTo(a, n), UpTo(b, n),
           Len(a2) = Len(a) + k, Len(b2) = Len(b) - k,
           \A i \in 1..(Len(a) + k) :
              a2[i] = IF i <= Len(a) THEN a[i] ELSE b[i - Len(a)],
           \A i \in 1..(Len(b) - k) : b2[i] = b[k + i]
    PROVE  InTurn(a2, b2, c) /\ UpTo(a2, n) /\ UpTo(b2, n)
<1>1. Len(a) \in Nat /\ Len(b) \in Nat /\ k \in Nat /\ k <= Len(b)
  BY SMTT(60)
<1>2. \A i \in 1..Len(a2) :
         \/ i \in 1..Len(a) /\ a2[i] = a[i]
         \/ ~(i <= Len(a)) /\ i - Len(a) \in 1..k /\ a2[i] = b[i - Len(a)]
  <2> SUFFICES ASSUME NEW i \in 1..(Len(a) + k)
               PROVE  \/ i \in 1..Len(a) /\ a2[i] = a[i]
                      \/ /\ ~(i <= Len(a)) /\ i - Len(a) \in 1..k
                         /\ a2[i] = b[i - Len(a)]
    OBVIOUS
  <2>1. i \in 1..Len(a) \/ (~(i <= Len(a)) /\ i - Len(a) \in 1..k)
    BY <1>1
  <2>2. \A j \in 1..Len(a) : j <= Len(a)
    BY <1>1
  <2> QED BY <2>1, <2>2
<1>3. ASSUME NEW i \in 1..Len(b2)
      PROVE  k + i \in 1..Len(b) /\ b2[i] = b[k + i]
  <2>1. i \in 1..(Len(b) - k)
    OBVIOUS
  <2>2. k + i \in 1..Len(b)
    <3>1. \A l, m, h \in Nat :
             m <= l /\ h \in 1..(l - m) => m + h \in 1..l
      OBVIOUS
    <3>2. i \in Nat
      BY <1>1, <2>1
    <3> QED BY <1>1, <2>1, <3>1, <3>2, Zenon
  <2>3. b2[i] = b[k + i]
    BY <2>1
  <2> QED BY <2>2, <2>3
<1>4. \A i \in 1..k : i \in 1..Len(b)
  BY <1>1
<1>5. Ascend(a2)
  <2> SUFFICES ASSUME NEW i \in 1..Len(a2), NEW j \in 1..Len(a2), i < j
               PROVE  a2[i] < a2[j]
    BY DEF Ascend
  <2>0. i \in Nat /\ j \in Nat
    <3>1. \A l \in Nat : \A h \in 1..l : h \in Nat
      OBVIOUS
    <3>2. Len(a2) \in Nat
      BY <1>1
    <3> QED BY <3>1, <3>2, Zenon
  <2>1. CASE j <= Len(a)
    <3>1. i <= Len(a)
      BY <1>1, <2>0, <2>1
    <3>2. i \in 1..Len(a) /\ j \in 1..Len(a) /\ a2[i] = a[i] /\ a2[j] = a[j]
      BY <1>2, <2>1, <3>1
    <3> QED BY <3>2 DEF InTurn, Ascend
  <2>2. CASE ~(j <= Len(a)) /\ i <= Len(a)
    <3>1. i \in 1..Len(a) /\ a2[i] = a[i]
      BY <1>2, <2>2
    <3>2. j - Len(a) \in 1..Len(b) /\ a2[j] = b[j - Len(a)]
      <4>1. j - Len(a) \in 1..k /\ a2[j] = b[j - Len(a)]
        BY <1>2, <2>2
      <4> QED BY <1>4, <4>1
    <3> QED BY <3>1, <3>2 DEF InTurn, Before
  <2>3. CASE ~(j <= Len(a)) /\ ~(i <= Len(a))
    <3>1. i - Len(a) < j - Len(a)
      BY <1>1, <2>0
    <3>2. i - Len(a) \in 1..Len(b) /\ a2[i] = b[i - Len(a)]
      <4>1. i - Len(a) \in 1..k /\ a2[i] = b[i - Len(a)]
        BY <1>2, <2>3
      <4> QED BY <1>4, <4>1
    <3>3. j - Len(a) \in 1..Len(b) /\ a2[j] = b[j - Len(a)]
      <4>1. j - Len(a) \in 1..k /\ a2[j] = b[j - Len(a)]
        BY <1>2, <2>3
      <4> QED BY <1>4, <4>1
    <3> QED BY <3>1, <3>2, <3>3 DEF InTurn, Ascend
  <2> QED BY <2>1, <2>2, <2>3
<1>6. Ascend(b2)
  <2> SUFFICES ASSUME NEW i \in 1..Len(b2), NEW j \in 1..Len(b2), i < j
               PROVE  b2[i] < b2[j]
    BY DEF Ascend
  <2>1. k + i < k + j
    BY <1>1
  <2> QED BY <1>3, <2>1 DEF InTurn, Ascend
<1>7. Before(a2, b2)
  <2> SUFFICES ASSUME NEW i \in 1..Len(a2), NEW j \in 1..Len(b2)
               PROVE  a2[i] < b2[j]
    BY DEF Before
  <2>1. CASE i \in 1..Len(a) /\ a2[i] = a[i]
    BY <1>3, <2>1 DEF InTurn, Before
  <2>2. CASE i - Len(a) \in 1..k /\ a2[i] = b[i - Len(a)]
    <3>1. i - Len(a) < k + j
      BY <1>1, <2>2
    <3> QED BY <1>3, <1>4, <2>2, <3>1 DEF InTurn, Ascend
  <2> QED BY <1>2, <2>1, <2>2
<1>8. Before(a2, c)
  BY <1>2, <1>4 DEF InTurn, Before
<1>9. Before(b2, c)
  BY <1>3 DEF InTurn, Before
<1>10. UpTo(a2, n) /\ UpTo(b2, n)
  BY <1>2, <1>3, <1>4 DEF UpTo
<1> QED BY <1>5, <1>6, <1>7, <1>8, <1>9, <1>10 DEF InTurn

(* A sequence has stayed, or has grown by an element. *)
MayGrow(b, b2, x) ==
    \/ b2 = b
    \/ /\ Len(b2) = Len(b) + 1 /\ b2[Len(b) + 1] = x
       /\ \A i \in 1..Len(b) : b2[i] = b[i]

(* So does taking one of the last to the end of the middle one, and        *)
(* dropping it.                                                            *)
LEMMA TurnFetched ==
    ASSUME NEW a \in Seq(Nat), NEW b \in Seq(Nat), NEW c \in Seq(Nat),
           NEW b2 \in Seq(Nat), NEW c2 \in Seq(Nat), NEW n \in Nat,
           InTurn(a, b, c), UpTo(b, n), UpTo(c, n),
           Len(c) >= 1, Len(c2) = Len(c) - 1,
           \A i \in 1..Len(c2) : c2[i] = c[i + 1],
           MayGrow(b, b2, c[1])
    PROVE  InTurn(a, b2, c2) /\ UpTo(b2, n) /\ UpTo(c2, n)
<1>1. Len(b) \in Nat /\ Len(c) \in Nat /\ 1 \in 1..Len(c)
  OBVIOUS
<1>2. ASSUME NEW i \in 1..Len(c2)
      PROVE  i + 1 \in 1..Len(c) /\ 1 < i + 1 /\ c2[i] = c[i + 1]
  <2>1. i \in 1..(Len(c) - 1)
    OBVIOUS
  <2>2. i + 1 \in 1..Len(c) /\ 1 < i + 1
    BY <1>1, <2>1
  <2> QED BY <2>2
<1>3. ASSUME NEW i \in 1..Len(b2)
      PROVE  \/ i \in 1..Len(b) /\ b2[i] = b[i]
             \/ i = Len(b) + 1 /\ ~(i <= Len(b)) /\ b2[i] = c[1]
  <2>1. CASE b2 = b
    BY <2>1
  <2>2. CASE /\ Len(b2) = Len(b) + 1 /\ b2[Len(b) + 1] = c[1]
             /\ \A m \in 1..Len(b) : b2[m] = b[m]
    <3>1. i \in 1..Len(b) \/ (i = Len(b) + 1 /\ ~(i <= Len(b)))
      <4>1. i \in 1..(Len(b) + 1)
        BY <2>2
      <4> QED BY <1>1, <4>1, SMTT(60)
    <3> QED BY <2>2, <3>1
  <2> QED BY <2>1, <2>2 DEF MayGrow
<1>4. Ascend(c2)
  <2> SUFFICES ASSUME NEW i \in 1..Len(c2), NEW j \in 1..Len(c2), i < j
               PROVE  c2[i] < c2[j]
    BY DEF Ascend
  <2>1. i + 1 < j + 1
    OBVIOUS
  <2> QED BY <1>2, <2>1 DEF InTurn, Ascend
<1>5. Ascend(b2)
  <2> SUFFICES ASSUME NEW i \in 1..Len(b2), NEW j \in 1..Len(b2), i < j
               PROVE  b2[i] < b2[j]
    BY DEF Ascend
  <2>0. i \in Nat /\ j \in Nat /\ 1 <= i
    OBVIOUS
  <2>1. CASE j \in 1..Len(b) /\ b2[j] = b[j]
    <3>1. i <= Len(b)
      BY <1>1, <2>0, <2>1
    <3>2. i \in 1..Len(b) /\ b2[i] = b[i]
      BY <1>1, <1>3, <3>1
    <3> QED BY <2>1, <3>2 DEF InTurn, Ascend
  <2>2. CASE j = Len(b) + 1 /\ b2[j] = c[1]
    <3>1. i <= Len(b)
      BY <1>1, <2>0, <2>2
    <3>2. i \in 1..Len(b) /\ b2[i] = b[i]
      BY <1>1, <1>3, <3>1
    <3> QED BY <1>1, <2>2, <3>2 DEF InTurn, Before
  <2> QED BY <1>3, <2>1, <2>2
<1>6. Before(a, b2)
  BY <1>1, <1>3 DEF InTurn, Before
<1>7. Before(a, c2)
  BY <1>2 DEF InTurn, Before
<1>8. Before(b2, c2)
  <2> SUFFICES ASSUME NEW i \in 1..Len(b2), NEW j \in 1..Len(c2)
               PROVE  b2[i] < c2[j]
    BY DEF Before
  <2>1. CASE i \in 1..Len(b) /\ b2[i] = b[i]
    BY <1>2, <2>1 DEF InTurn, Before
  <2>2. CASE b2[i] = c[1]
    BY <1>1, <1>2, <2>2 DEF InTurn, Ascend
  <2> QED BY <1>3, <2>1, <2>2
<1>9. UpTo(b2, n) /\ UpTo(c2, n)
  BY <1>1, <1>2, <1>3 DEF UpTo
<1> QED BY <1>4, <1>5, <1>6, <1>7, <1>8, <1>9 DEF InTurn

(* So does adding one that is greater than all to the last. *)
LEMMA TurnPrinted ==
    ASSUME NEW a \in Seq(Nat), NEW b \in Seq(Nat), NEW c \in Seq(Nat),
           NEW c2 \in Seq(Nat), NEW n \in Nat,
           InTurn(a, b, c), UpTo(a, n), UpTo(b, n), UpTo(c, n),
           Len(c2) = Len(c) + 1, c2[Len(c) + 1] = n + 1,
           \A i \in 1..Len(c) : c2[i] = c[i]
    PROVE  /\ InTurn(a, b, c2)
           /\ UpTo(a, n + 1) /\ UpTo(b, n + 1) /\ UpTo(c2, n + 1)
<1>1. Len(c) \in Nat
  OBVIOUS
<1>2. ASSUME NEW i \in 1..Len(c2)
      PROVE  \/ i \in 1..Len(c) /\ c2[i] = c[i]
             \/ i = Len(c) + 1 /\ ~(i <= Len(c)) /\ c2[i] = n + 1
  <2>1. i \in 1..Len(c) \/ (i = Len(c) + 1 /\ ~(i <= Len(c)))
    <3>1. i \in 1..(Len(c) + 1)
      OBVIOUS
    <3> QED BY <1>1, <3>1
  <2> QED BY <2>1
<1>3. /\ \A i \in 1..Len(a) : a[i] \in Nat /\ a[i] <= n
      /\ \A i \in 1..Len(b) : b[i] \in Nat /\ b[i] <= n
      /\ \A i \in 1..Len(c) : c[i] \in Nat /\ c[i] <= n
  <2>1. \A s \in Seq(Nat) : \A i \in 1..Len(s) : s[i] \in Nat
    OBVIOUS
  <2>2. /\ \A i \in 1..Len(a) : a[i] <= n
        /\ \A i \in 1..Len(b) : b[i] <= n
        /\ \A i \in 1..Len(c) : c[i] <= n
    BY DEF UpTo
  <2> QED BY <2>1, <2>2, Zenon
<1>4. \A m \in Nat : m <= n => m < n + 1 /\ m <= n + 1
  OBVIOUS
<1>5. Ascend(c2)
  <2> SUFFICES ASSUME NEW i \in 1..Len(c2), NEW j \in 1..Len(c2), i < j
               PROVE  c2[i] < c2[j]
    BY DEF Ascend
  <2>0. i \in Nat /\ j \in Nat /\ 1 <= i
    OBVIOUS
  <2>1. CASE j \in 1..Len(c) /\ c2[j] = c[j]
    <3>1. i <= Len(c)
      BY <1>1, <2>0, <2>1
    <3>2. i \in 1..Len(c) /\ c2[i] = c[i]
      BY <1>1, <1>2, <3>1
    <3> QED BY <2>1, <3>2 DEF InTurn, Ascend
  <2>2. CASE j = Len(c) + 1 /\ c2[j] = n + 1
    <3>1. i <= Len(c)
      BY <1>1, <2>0, <2>2
    <3>2. i \in 1..Len(c) /\ c2[i] = c[i]
      BY <1>1, <1>2, <3>1
    <3> QED BY <1>3, <1>4, <2>2, <3>2
  <2> QED BY <1>2, <2>1, <2>2
<1>6. Before(a, c2) /\ Before(b, c2)
  BY <1>2, <1>3, <1>4 DEF InTurn, Before
<1>7. UpTo(a, n + 1) /\ UpTo(b, n + 1)
  BY <1>3, <1>4 DEF UpTo
<1>8. UpTo(c2, n + 1)
  <2> SUFFICES ASSUME NEW i \in 1..Len(c2) PROVE c2[i] <= n + 1
    BY DEF UpTo
  <2>1. CASE i \in 1..Len(c) /\ c2[i] = c[i]
    BY <1>3, <1>4, <2>1
  <2>2. CASE c2[i] = n + 1
    BY <2>2
  <2> QED BY <1>2, <2>1, <2>2
<1> QED BY <1>5, <1>6, <1>7, <1>8 DEF InTurn

(* Every step keeps the lines in order. *)
LEMMA OrderedStep == TypeOK /\ Ordered /\ [Next]_vars /\ TypeOK' => Ordered'
<1> SUFFICES ASSUME TypeOK, TypeOK', Ordered, [Next]_vars PROVE Ordered'
  OBVIOUS
<1> DEFINE ln == Numbers(lines)
           pn == Numbers(port)
<1>1. lines \in Seq(LineType) /\ lines' \in Seq(LineType)
  BY DEF TypeOK
<1>2. port \in Seq(LineType) /\ port' \in Seq(LineType)
  BY DEF TypeOK
<1>3. took \in Seq(Nat) /\ took' \in Seq(Nat)
  <2>1. \A s \in Seq(1..MaxPrinted) : s \in Seq(Nat)
    <3>1. 1..MaxPrinted \subseteq Nat
      BY MessageDeviceAssumption
    <3> QED BY <3>1, SeqMonotonic, Zenon
  <2> QED BY <2>1 DEF TypeOK
<1>4. printed \in Nat
  BY MessageDeviceAssumption DEF TypeOK
<1>5. /\ ln \in Seq(Nat) /\ Len(ln) = Len(lines)
      /\ \A i \in 1..Len(lines) : ln[i] = lines[i].no
  BY <1>1, NumbersOf
<1>6. /\ ln' \in Seq(Nat) /\ Len(ln') = Len(lines')
      /\ \A i \in 1..Len(lines') : ln'[i] = lines'[i].no
  <2>1. ln' = Numbers(lines')
    BY DEF Numbers
  <2> QED BY <1>1, <2>1, NumbersOf
<1>7. /\ pn \in Seq(Nat) /\ Len(pn) = Len(port)
      /\ \A i \in 1..Len(port) : pn[i] = port[i].no
  BY <1>2, NumbersOf
<1>8. /\ pn' \in Seq(Nat) /\ Len(pn') = Len(port')
      /\ \A i \in 1..Len(port') : pn'[i] = port'[i].no
  <2>1. pn' = Numbers(port')
    BY DEF Numbers
  <2> QED BY <1>2, <2>1, NumbersOf
<1>9. /\ InTurn(took, ln, pn)
      /\ UpTo(took, printed) /\ UpTo(ln, printed) /\ UpTo(pn, printed)
  BY DEF Ordered
<1>10. SUFFICES /\ InTurn(took', ln', pn')
                /\ UpTo(took', printed') /\ UpTo(ln', printed')
                /\ UpTo(pn', printed')
  BY DEF Ordered, InTurn, Ascend, Before, UpTo
<1>11. UNCHANGED lines => ln' = ln
  BY DEF Numbers
<1>12. UNCHANGED port => pn' = pn
  BY DEF Numbers
<1> HIDE DEF ln, pn
<1>13. CASE MatchLines
  <2>1. UNCHANGED <<port, printed>>
    BY <1>13 DEF MatchLines
  <2>2. CASE UNCHANGED <<lines, events, took>>
    BY <1>9, <1>11, <1>12, <2>1, <2>2
  <2>3. ASSUME NEW k \in 1..Len(lines), NEW kind \in {"line", "message"},
               HandOver(kind, k)
        PROVE  InTurn(took', ln', pn) /\ UpTo(took', printed) /\ UpTo(ln', printed)
    <3>1. /\ Len(lines') = Len(lines) - k /\ Len(took') = Len(took) + k
          /\ \A i \in 1..(Len(lines) - k) : lines'[i] = lines[k + i]
          /\ \A i \in 1..(Len(took) + k) :
                took'[i] = IF i <= Len(took) THEN took[i]
                           ELSE lines[i - Len(took)].no
      BY <2>3, HandedOver
    <3>2. Len(lines) \in Nat /\ Len(took) \in Nat /\ k \in Nat /\ k <= Len(lines)
      BY <1>1, <1>3
    <3>3. ASSUME NEW i \in 1..(Len(took) + k)
          PROVE  took'[i] = IF i <= Len(took) THEN took[i] ELSE ln[i - Len(took)]
      <4>1. CASE i <= Len(took)
        BY <3>1, <4>1
      <4>2. CASE ~(i <= Len(took))
        <5>1. i - Len(took) \in 1..Len(lines)
          BY <3>2, <4>2
        <5> QED BY <1>5, <3>1, <4>2, <5>1
      <4> QED BY <4>1, <4>2
    <3>4. ASSUME NEW i \in 1..(Len(lines) - k) PROVE ln'[i] = ln[k + i]
      <4>1. k + i \in 1..Len(lines)
        BY <3>2
      <4>2. i \in 1..Len(lines')
        BY <3>1
      <4> QED BY <1>5, <1>6, <3>1, <4>1, <4>2
    <3>5. k \in 1..Len(ln) /\ Len(ln') = Len(ln) - k
      BY <1>5, <1>6, <3>1
    <3>6. \A i \in 1..(Len(ln) - k) : ln'[i] = ln[k + i]
      BY <1>5, <3>4
    <3>7. ln \in Seq(Nat) /\ ln' \in Seq(Nat) /\ pn \in Seq(Nat)
      BY <1>5, <1>6, <1>7
    <3>8. Len(took') = Len(took) + k
      BY <3>1
    <3> QED BY <1>3, <1>4, <1>9, <3>3, <3>5, <3>6, <3>7, <3>8, TurnTaken
  <2> QED BY <1>1, <1>9, <1>12, <1>13, <2>1, <2>2, <2>3, Matched
<1>14. CASE FetchLine
  <2>1. UNCHANGED <<took, printed>>
    BY <1>14 DEF FetchLine
  <2>2. /\ Len(port) \in Nat /\ Len(port) >= 1 /\ Len(port') = Len(port) - 1
        /\ \A i \in 1..Len(port') : port'[i] = port[i + 1]
        /\ \/ lines' = lines
           \/ /\ Len(lines') = Len(lines) + 1
              /\ \A i \in 1..Len(lines) : lines'[i] = lines[i]
              /\ lines'[Len(lines) + 1] = port[1]
    BY <1>14, Fetched
  <2>3. ASSUME NEW i \in 1..Len(pn') PROVE pn'[i] = pn[i + 1]
    <3>1. i \in 1..Len(port') /\ i + 1 \in 1..Len(port)
      BY <1>8, <2>2
    <3>2. pn'[i] = port'[i].no /\ pn[i + 1] = port[i + 1].no
      BY <1>7, <1>8, <3>1
    <3>3. port'[i] = port[i + 1]
      BY <2>2, <3>1
    <3> QED BY <3>2, <3>3, Zenon
  <2>4. MayGrow(ln, ln', pn[1])
    <3>1. CASE lines' = lines
      BY <1>11, <3>1 DEF MayGrow
    <3>2. CASE /\ Len(lines') = Len(lines) + 1
               /\ \A i \in 1..Len(lines) : lines'[i] = lines[i]
               /\ lines'[Len(lines) + 1] = port[1]
      <4>1. Len(lines) \in Nat /\ 1 \in 1..Len(port)
        BY <1>1, <2>2
      <4>2. Len(lines) + 1 \in 1..Len(lines')
        BY <3>2, <4>1
      <4>3. \A i \in 1..Len(lines) : i \in 1..Len(lines')
        BY <3>2, <4>1
      <4>4. Len(ln') = Len(ln) + 1 /\ ln'[Len(ln) + 1] = pn[1]
        <5>1. Len(ln') = Len(ln) + 1
          BY <1>5, <1>6, <3>2
        <5>2. ln'[Len(ln) + 1] = lines'[Len(lines) + 1].no
          BY <1>5, <1>6, <4>2
        <5>3. pn[1] = port[1].no
          BY <1>7, <4>1
        <5> QED BY <3>2, <5>1, <5>2, <5>3
      <4>5. \A i \in 1..Len(ln) : ln'[i] = ln[i]
        BY <1>5, <1>6, <3>2, <4>3
      <4> QED BY <4>4, <4>5 DEF MayGrow
    <3> QED BY <2>2, <3>1, <3>2
  <2>5. Len(pn) >= 1 /\ Len(pn') = Len(pn) - 1
    BY <1>7, <1>8, <2>2
  <2>6. InTurn(took, ln', pn') /\ UpTo(ln', printed) /\ UpTo(pn', printed)
    <3>1. /\ ln \in Seq(Nat) /\ ln' \in Seq(Nat)
          /\ pn \in Seq(Nat) /\ pn' \in Seq(Nat)
      BY <1>5, <1>6, <1>7, <1>8
    <3>2. took \in Seq(Nat) /\ InTurn(took, ln, pn)
      BY <1>3, <1>9
    <3>3. UpTo(ln, printed) /\ UpTo(pn, printed)
      BY <1>9
    <3>4. Len(pn) >= 1
      BY <2>5
    <3>5. Len(pn') = Len(pn) - 1
      BY <2>5
    <3>6. \A i \in 1..Len(pn') : pn'[i] = pn[i + 1]
      BY <2>3
    <3>7. printed \in Nat
      BY <1>4
    <3> QED BY <2>4, <3>1, <3>2, <3>3, <3>4, <3>5, <3>6, <3>7, TurnFetched,
             ZenonT(60)
  <2> QED BY <1>9, <2>1, <2>6
<1>15. CASE BoardPrints
  <2>1. UNCHANGED <<took, lines>> /\ printed' = printed + 1
    BY <1>15 DEF BoardPrints
  <2>2. /\ Len(port') = Len(port) + 1 /\ port'[Len(port) + 1].no = printed + 1
        /\ \A i \in 1..Len(port) : port'[i] = port[i]
    BY <1>15, Printed
  <2>3. Len(port) \in Nat
    BY <1>2
  <2>4. Len(port) + 1 \in 1..Len(port')
    BY <2>2, <2>3
  <2>5. \A i \in 1..Len(port) : i \in 1..Len(port')
    BY <2>2, <2>3
  <2>6. Len(pn') = Len(pn) + 1 /\ pn'[Len(pn) + 1] = printed + 1
    BY <1>7, <1>8, <2>2, <2>4
  <2>7. \A i \in 1..Len(pn) : pn'[i] = pn[i]
    BY <1>7, <1>8, <2>2, <2>5
  <2>8. /\ InTurn(took, ln, pn')
        /\ UpTo(took, printed + 1) /\ UpTo(ln, printed + 1)
        /\ UpTo(pn', printed + 1)
    BY <1>3, <1>4, <1>5, <1>7, <1>8, <1>9, <2>6, <2>7, TurnPrinted
  <2> QED BY <1>11, <2>1, <2>8
<1>16. CASE StartTest
  <2>1. UNCHANGED <<took, lines, printed>> /\ port' = <<>>
    BY <1>16 DEF StartTest, Drained
  <2>2. Len(pn') = 0
    BY <1>8, <2>1, EmptySeq
  <2>3. Ascend(pn') /\ Before(took, pn') /\ Before(ln, pn') /\ UpTo(pn', printed)
    BY <2>2 DEF Ascend, Before, UpTo
  <2> QED BY <1>9, <1>11, <2>1, <2>3 DEF InTurn
<1>17. CASE LoopHead \/ FetchTimeout \/ StopReader \/ CloseDevice \/ UNCHANGED vars
  <2>1. UNCHANGED <<took, lines, port, printed>>
    BY <1>17 DEF LoopHead, FetchTimeout, StopReader, CloseDevice, vars
  <2> QED BY <1>9, <1>11, <1>12, <2>1
<1> QED BY <1>13, <1>14, <1>15, <1>16, <1>17 DEF Next, Reader, Main, Finished

(***************************************************************************)
(* What the events are made of.                                            *)
(***************************************************************************)
(* The new event of a hand over is whole, and what follows it in the cache *)
(* does not continue it.                                                   *)
LEMMA TogetherMatch ==
    ASSUME TypeOK, Together, NEW k \in 1..Len(lines),
           NEW kind \in {"line", "message"}, HandOver(kind, k),
           kind = "message" => \/ Listing(lines, k)
                               \/ k = 1 /\ lines[1].look.single = "message",
           k = 1 => Alone(lines)
    PROVE  Together'
<1> DEFINE n == Len(events) + 1
           e == events'[n]
<1>1. lines \in Seq(LineType) /\ events \in Seq(EventType)
  BY DEF TypeOK
<1>2. Len(lines) \in Nat /\ Len(events) \in Nat /\ k \in Nat /\ 1 <= k
      /\ k <= Len(lines)
  BY <1>1
<1>3. /\ lines' \in Seq(LineType) /\ Len(lines') = Len(lines) - k
      /\ \A i \in 1..(Len(lines) - k) : lines'[i] = lines[k + i]
  BY HandedOver
<1>4. /\ events' \in Seq(EventType) /\ Len(events') = n
      /\ \A i \in 1..Len(events) : events'[i] = events[i]
  BY HandedOver
<1>5. /\ e.kind = kind /\ Len(e.lines) = k
      /\ \A i \in 1..k : e.lines[i] = lines[i]
  BY HandedOver
<1> HIDE DEF e
<1>6. Whole(e)
  <2>1. e.lines[1] = lines[1] /\ e.lines[k] = lines[k]
    BY <1>2, <1>5
  <2>2. CASE Listing(lines, k)
    <3>1. k >= 3 /\ 2 \in 1..k
      BY <2>2 DEF Listing
    <3>2. k \in 3..k
      BY <1>2, <3>1
    <3>3. e.lines[2] = lines[2]
      BY <1>5, <3>1
    <3>4. \A i \in 3..(k - 1) : i \in 1..k
      BY <1>2
    <3>5. \A i \in 3..(k - 1) : ~e.lines[i].look.prompt
      BY <1>5, <2>2, <3>4 DEF Listing
    <3>6. Listing(e.lines, k)
      BY <1>5, <2>1, <2>2, <3>2, <3>3, <3>5 DEF Listing
    <3> QED BY <1>2, <1>5, <3>6 DEF Whole
  <2>3. CASE k = 1 /\ lines[1].look.single = "message"
    BY <1>5, <2>1, <2>3 DEF Whole
  <2>4. CASE kind = "line"
    <3>1. e.kind # "message"
      BY <1>5, <2>4
    <3> QED BY <1>2, <1>5, <3>1 DEF Whole
  <2> QED BY <2>2, <2>3, <2>4
<1>7. \A i \in 1..n : i \in 1..Len(events) \/ i = n
  BY <1>2
<1>8. \A i \in 1..n : Whole(events'[i])
  BY <1>4, <1>6, <1>7 DEF Together, e
<1>9. ASSUME NEW i \in 1..n, i < n, Opener(events'[i])
      PROVE  ~events'[i + 1].lines[1].look.colon
  <2>1. i \in 1..Len(events) /\ (i < Len(events) \/ i = Len(events))
    BY <1>2, <1>9
  <2>2. Opener(events[i])
    BY <1>4, <1>9, <2>1
  <2>3. CASE i < Len(events)
    <3>1. i + 1 \in 1..Len(events)
      BY <1>2, <2>1, <2>3
    <3> QED BY <1>4, <2>1, <2>2, <2>3, <3>1 DEF Together
  <2>4. CASE i = Len(events)
    <3>1. events # <<>>
      BY <2>1, <2>4, EmptySeq
    <3>2. ~lines[1].look.colon
      BY <2>2, <2>4, <3>1 DEF Together
    <3>3. e.lines[1] = lines[1] /\ events'[i + 1] = e
      BY <1>2, <1>5, <2>4 DEF e
    <3> QED BY <3>2, <3>3
  <2> QED BY <2>1, <2>3, <2>4
<1>10. ASSUME Opener(e) PROVE lines' # <<>> /\ ~lines'[1].look.colon
  <2>1. k = 1 /\ lines[1].look.ls
    BY <1>2, <1>5, <1>10 DEF Opener
  <2>2. Len(lines) >= 2 /\ ~lines[2].look.colon
    BY <2>1 DEF Alone
  <2>3. 1 \in 1..(Len(lines) - k) /\ k + 1 = 2 /\ Len(lines') # 0
    BY <1>2, <1>3, <2>1, <2>2
  <2> QED BY <1>3, <2>2, <2>3, EmptySeq
<1> QED BY <1>4, <1>8, <1>9, <1>10 DEF Together, Whole, Opener, e

(* Every step keeps the events whole. *)
LEMMA TogetherStep == TypeOK /\ Together /\ [Next]_vars => Together'
<1> SUFFICES ASSUME TypeOK, Together, [Next]_vars PROVE Together'
  OBVIOUS
<1>1. CASE MatchLines
  <2>1. lines \in Seq(LineType)
    BY DEF TypeOK
  <2>2. CASE UNCHANGED <<lines, events, took>>
    BY <2>2 DEF Together, Whole, Opener
  <2> QED BY <1>1, <2>1, <2>2, Matched, TogetherMatch
<1>2. CASE FetchLine
  <2>1. UNCHANGED events
    BY <1>2 DEF FetchLine
  <2>2. lines # <<>> => lines' # <<>> /\ lines'[1] = lines[1]
    <3>1. lines \in Seq(LineType) /\ lines' \in Seq(LineType)
      BY <1>2, Fetched DEF TypeOK
    <3>2. \/ lines' = lines
          \/ /\ Len(lines') = Len(lines) + 1
             /\ \A i \in 1..Len(lines) : lines'[i] = lines[i]
      BY <1>2, Fetched
    <3>3. lines # <<>> => 1 \in 1..Len(lines) /\ Len(lines) + 1 # 0
      BY <3>1, EmptySeq
    <3> QED BY <3>1, <3>2, <3>3, EmptySeq
  <2> QED BY <2>1, <2>2 DEF Together, Whole, Opener
<1>3. CASE StartTest
  <2>1. events' = <<>> /\ Len(events') = 0
    BY <1>3, EmptySeq DEF StartTest
  <2> QED BY <2>1 DEF Together
<1>4. CASE \/ LoopHead \/ FetchTimeout \/ StopReader \/ CloseDevice
           \/ BoardPrints \/ UNCHANGED vars
  <2>1. UNCHANGED <<events, lines>>
    BY <1>4 DEF LoopHead, FetchTimeout, StopReader, CloseDevice, BoardPrints, vars
  <2> QED BY <2>1 DEF Together, Whole, Opener
<1> QED BY <1>1, <1>2, <1>3, <1>4 DEF Next, Reader, Main, Finished

(* Every step keeps what is old out of the test, but for what the cache    *)
(* has kept.                                                               *)
LEMMA FreshStep == TypeOK /\ Fresh /\ [Next]_vars => Fresh'
<1> SUFFICES ASSUME TypeOK, Fresh, [Next]_vars PROVE Fresh'
  OBVIOUS
<1>1. lines \in Seq(LineType) /\ port \in Seq(LineType) /\ events \in Seq(EventType)
  BY DEF TypeOK
<1>2. Len(lines) \in Nat /\ Len(port) \in Nat /\ Len(events) \in Nat
  BY <1>1
<1>3. CASE MatchLines
  <2>1. UNCHANGED <<port, test, kept>>
    BY <1>3 DEF MatchLines
  <2>2. CASE UNCHANGED <<lines, events, took>>
    BY <2>1, <2>2 DEF Fresh
  <2>3. ASSUME NEW k \in 1..Len(lines), NEW kind \in {"line", "message"},
               HandOver(kind, k)
        PROVE  Fresh'
    <3> DEFINE n == Len(events) + 1
               e == events'[n]
    <3>1. /\ Len(lines') = Len(lines) - k
          /\ \A i \in 1..(Len(lines) - k) : lines'[i] = lines[k + i]
          /\ Len(events') = n
          /\ \A i \in 1..Len(events) : events'[i] = events[i]
          /\ Len(e.lines) = k /\ \A i \in 1..k : e.lines[i] = lines[i]
      BY <2>3, HandedOver
    <3>2. k \in Nat /\ k <= Len(lines)
      BY <1>2
    <3> HIDE DEF e
    <3>3. ASSUME NEW i \in 1..Len(lines')
          PROVE  lines'[i].test = test \/ lines'[i].no \in kept
      <4>1. i \in 1..(Len(lines) - k)
        BY <3>1
      <4>2. k + i \in 1..Len(lines)
        BY <1>2, <3>2, <4>1
      <4> QED BY <3>1, <4>1, <4>2 DEF Fresh
    <3>4. ASSUME NEW i \in 1..Len(e.lines)
          PROVE  e.lines[i].test = test \/ e.lines[i].no \in kept
      <4>1. i \in 1..k /\ i \in 1..Len(lines)
        BY <1>2, <3>1, <3>2
      <4> QED BY <3>1, <4>1 DEF Fresh
    <3>5. \A i \in 1..Len(events') : i \in 1..Len(events) \/ i = n
      BY <1>2, <3>1
    <3>6. ASSUME NEW m \in 1..Len(events'), NEW i \in 1..Len(events'[m].lines)
          PROVE  \/ events'[m].lines[i].test = test
                 \/ events'[m].lines[i].no \in kept
      BY <3>1, <3>4, <3>5 DEF Fresh, e
    <3> QED BY <2>1, <3>3, <3>6 DEF Fresh
  <2> QED BY <1>1, <1>3, <2>2, <2>3, Matched
<1>4. CASE FetchLine
  <2>1. UNCHANGED <<test, kept, events>>
    BY <1>4 DEF FetchLine
  <2>2. /\ Len(port) >= 1 /\ Len(port') = Len(port) - 1
        /\ \A i \in 1..Len(port') : port'[i] = port[i + 1]
        /\ \/ lines' = lines
           \/ /\ Len(lines') = Len(lines) + 1
              /\ \A i \in 1..Len(lines) : lines'[i] = lines[i]
              /\ lines'[Len(lines) + 1] = port[1]
    BY <1>4, Fetched
  <2>3. ASSUME NEW i \in 1..Len(port') PROVE port'[i].test = test
    <3>1. i + 1 \in 1..Len(port)
      BY <1>2, <2>2
    <3> QED BY <2>2, <3>1 DEF Fresh
  <2>4. ASSUME NEW i \in 1..Len(lines')
        PROVE  lines'[i].test = test \/ lines'[i].no \in kept
    <3>1. CASE lines' = lines
      BY <3>1 DEF Fresh
    <3>2. CASE /\ Len(lines') = Len(lines) + 1
               /\ \A j \in 1..Len(lines) : lines'[j] = lines[j]
               /\ lines'[Len(lines) + 1] = port[1]
      <4>1. i \in 1..Len(lines) \/ i = Len(lines) + 1
        BY <1>2, <3>2
      <4>2. port[1].test = test
        <5>1. 1 \in 1..Len(port)
          BY <1>2, <2>2
        <5> QED BY <5>1 DEF Fresh
      <4> QED BY <3>2, <4>1, <4>2 DEF Fresh
    <3> QED BY <2>2, <3>1, <3>2
  <2> QED BY <2>1, <2>3, <2>4 DEF Fresh
<1>5. CASE BoardPrints
  <2>1. UNCHANGED <<test, kept, events, lines>>
    BY <1>5 DEF BoardPrints
  <2>2. /\ Len(port') = Len(port) + 1 /\ port'[Len(port) + 1].test = test
        /\ \A i \in 1..Len(port) : port'[i] = port[i]
    BY <1>5, Printed
  <2>3. \A i \in 1..Len(port') : i \in 1..Len(port) \/ i = Len(port) + 1
    BY <1>2, <2>2
  <2>4. \A i \in 1..Len(port') : port'[i].test = test
    BY <2>2, <2>3 DEF Fresh
  <2> QED BY <2>1, <2>4 DEF Fresh
<1>6. CASE StartTest
  <2>1. /\ port' = <<>> /\ events' = <<>> /\ lines' = lines
        /\ kept' = {lines[n].no : n \in 1..Len(lines)}
    BY <1>6 DEF StartTest, Drained
  <2>2. Len(port') = 0 /\ Len(events') = 0
    BY <2>1, EmptySeq
  <2>3. \A n \in 1..Len(lines') : lines'[n].no \in kept'
    BY <2>1
  <2> QED BY <2>2, <2>3 DEF Fresh
<1>7. CASE LoopHead \/ FetchTimeout \/ StopReader \/ CloseDevice \/ UNCHANGED vars
  <2>1. UNCHANGED <<test, kept, events, lines, port>>
    BY <1>7 DEF LoopHead, FetchTimeout, StopReader, CloseDevice, vars
  <2> QED BY <2>1 DEF Fresh
<1> QED BY <1>3, <1>4, <1>5, <1>6, <1>7 DEF Next, Reader, Main, Finished

(***************************************************************************)
(* What a test is told.                                                    *)
(***************************************************************************)
(* The three sequences one after the other go up from each number to the   *)
(* next.                                                                   *)
LEMMA OneAfterTheOther ==
    ASSUME NEW a \in Seq(Nat), NEW b \in Seq(Nat), NEW c \in Seq(Nat),
           InTurn(a, b, c)
    PROVE  LET s == a \o b \o c IN \A n \in 1..Len(s) - 1 : s[n] < s[n + 1]
<1> DEFINE ab == a \o b
           s == ab \o c
<1>1. Len(a) \in Nat /\ Len(b) \in Nat /\ Len(c) \in Nat
  OBVIOUS
<1>2. /\ ab \in Seq(Nat) /\ Len(ab) = Len(a) + Len(b)
      /\ \A i \in 1..Len(a) + Len(b) :
            ab[i] = IF i <= Len(a) THEN a[i] ELSE b[i - Len(a)]
  BY ConcatProperties
<1> HIDE DEF ab
<1>3. /\ Len(s) = Len(ab) + Len(c)
      /\ \A i \in 1..Len(ab) + Len(c) :
            s[i] = IF i <= Len(ab) THEN ab[i] ELSE c[i - Len(ab)]
  <2>1. ab \in Seq(Nat)
    BY <1>2
  <2> QED BY <2>1, ConcatProperties
<1> HIDE DEF s
<1>4. ASSUME NEW i \in 1..Len(s)
      PROVE  \/ i \in 1..Len(a) /\ s[i] = a[i]
             \/ i - Len(a) \in 1..Len(b) /\ s[i] = b[i - Len(a)]
             \/ /\ i - (Len(a) + Len(b)) \in 1..Len(c)
                /\ s[i] = c[i - (Len(a) + Len(b))]
  <2>0. i \in 1..Len(ab) + Len(c)
    BY <1>3
  <2>1. CASE i <= Len(a)
    <3>1. i \in 1..Len(a) /\ i \in 1..Len(a) + Len(b) /\ i <= Len(ab)
      BY <1>1, <1>2, <2>1
    <3> QED BY <1>2, <1>3, <2>0, <2>1, <3>1
  <2>2. CASE ~(i <= Len(a)) /\ i <= Len(ab)
    <3>1. i - Len(a) \in 1..Len(b) /\ i \in 1..Len(a) + Len(b)
      BY <1>1, <1>2, <2>2
    <3> QED BY <1>2, <1>3, <2>0, <2>2, <3>1
  <2>3. CASE ~(i <= Len(ab))
    <3>1. i - (Len(a) + Len(b)) \in 1..Len(c)
      BY <1>1, <1>2, <2>0, <2>3
    <3> QED BY <1>2, <1>3, <2>0, <2>3, <3>1
  <2> QED BY <2>1, <2>2, <2>3
<1>5. ASSUME NEW n \in 1..Len(s) - 1 PROVE s[n] < s[n + 1]
  <2>1. Len(s) \in Nat /\ n \in Nat
    BY <1>1, <1>2, <1>3
  <2>2. n \in 1..Len(s) /\ n + 1 \in 1..Len(s)
    BY <2>1
  <2> DEFINE la == Len(a)
             lb == Len(b)
             m == n + 1
  <2>3. CASE n \in 1..Len(a) /\ s[n] = a[n]
    <3>1. CASE m \in 1..Len(a) /\ s[m] = a[m]
      BY <2>1, <2>3, <3>1 DEF InTurn, Ascend
    <3>2. CASE m - la \in 1..Len(b) /\ s[m] = b[m - la]
      BY <2>3, <3>2 DEF InTurn, Before
    <3>3. CASE m - (la + lb) \in 1..Len(c) /\ s[m] = c[m - (la + lb)]
      BY <2>3, <3>3 DEF InTurn, Before
    <3> QED BY <1>4, <2>2, <3>1, <3>2, <3>3
  <2>4. CASE n - la \in 1..Len(b) /\ s[n] = b[n - la]
    <3>1. ~(m <= la)
      BY <1>1, <2>1, <2>4
    <3>2. CASE m - la \in 1..Len(b) /\ s[m] = b[m - la]
      <4>1. n - la < m - la
        BY <1>1, <2>1
      <4> QED BY <2>4, <3>2, <4>1 DEF InTurn, Ascend
    <3>3. CASE m - (la + lb) \in 1..Len(c) /\ s[m] = c[m - (la + lb)]
      BY <2>4, <3>3 DEF InTurn, Before
    <3> QED BY <1>1, <1>4, <2>2, <3>1, <3>2, <3>3
  <2>5. CASE n - (la + lb) \in 1..Len(c) /\ s[n] = c[n - (la + lb)]
    <3>1. ~(m <= la) /\ ~(m - la <= lb)
      BY <1>1, <2>1, <2>5
    <3>2. CASE m - (la + lb) \in 1..Len(c) /\ s[m] = c[m - (la + lb)]
      <4>1. n - (la + lb) < m - (la + lb)
        BY <1>1, <2>1
      <4> QED BY <2>5, <3>2, <4>1 DEF InTurn, Ascend
    <3> QED BY <1>1, <1>4, <2>2, <3>1, <3>2
  <2> QED BY <1>4, <2>2, <2>3, <2>4, <2>5
<1> QED BY <1>5 DEF s, ab

(* The invariant says what a test is told. *)
LEMMA Told == TypeOK /\ LinesInv => LinesAsPrinted
<1> SUFFICES ASSUME TypeOK, LinesInv PROVE LinesAsPrinted
  OBVIOUS
<1>1. OnceAndInOrder
  <2> DEFINE ln == Numbers(lines)
             pn == Numbers(port)
  <2>1. ln \in Seq(Nat) /\ pn \in Seq(Nat)
    BY NumbersOf DEF TypeOK
  <2>2. took \in Seq(Nat)
    <3>1. 1..MaxPrinted \subseteq Nat
      BY MessageDeviceAssumption
    <3> QED BY <3>1, SeqMonotonic DEF TypeOK
  <2>3. InTurn(took, ln, pn)
    BY DEF LinesInv, Ordered
  <2> HIDE DEF ln, pn
  <2>4. LET s == took \o ln \o pn IN \A n \in 1..Len(s) - 1 : s[n] < s[n + 1]
    BY <2>1, <2>2, <2>3, OneAfterTheOther
  <2> QED BY <2>4 DEF OnceAndInOrder, ln, pn
<1>2. MessagesAreWhole
  <2> SUFFICES ASSUME NEW n \in 1..Len(events)
               PROVE  LET e == events[n] IN
                      /\ e.kind = "message" =>
                           \/ Len(e.lines) = 1 /\ e.lines[1].look.single = "message"
                           \/ /\ Len(e.lines) >= 3
                              /\ e.lines[1].look.ls /\ e.lines[2].look.colon
                              /\ Last(e.lines).look.prompt
                              /\ \A k \in 3..Len(e.lines) - 1 :
                                    ~e.lines[k].look.prompt
                      /\ n < Len(events) /\ Len(e.lines) = 1 /\ e.lines[1].look.ls
                           => ~events[n + 1].lines[1].look.colon
    BY DEF MessagesAreWhole
  <2> DEFINE e == events[n]
  <2>1. Whole(e)
    BY DEF LinesInv, Together
  <2>2. n < Len(events) /\ Opener(e) => ~events[n + 1].lines[1].look.colon
    BY DEF LinesInv, Together
  <2> HIDE DEF e
  <2>3. ASSUME Listing(e.lines, Len(e.lines))
        PROVE  /\ Len(e.lines) >= 3
               /\ e.lines[1].look.ls /\ e.lines[2].look.colon
               /\ Last(e.lines).look.prompt
               /\ \A k \in 3..Len(e.lines) - 1 : ~e.lines[k].look.prompt
    BY <2>3 DEF Listing, Last
  <2> QED BY <2>1, <2>2, <2>3 DEF Whole, Opener, e
<1>3. NothingStale
  BY DEF LinesInv, Fresh, NothingStale
<1> QED BY <1>1, <1>2, <1>3 DEF LinesAsPrinted

(* For any lines of the board, in any number of tests: each line is handed *)
(* over at most once and in the order the board has printed it, a message  *)
(* is made of lines that belong together, and a test is told nothing that  *)
(* is older than it but what the cache had kept when it began.             *)
THEOREM ToldAsPrinted == Spec => []LinesAsPrinted
<1>1. Init => LinesInv
  <2> SUFFICES ASSUME Init PROVE LinesInv
    OBVIOUS
  <2>1. Len(lines) = 0 /\ Len(port) = 0 /\ Len(took) = 0 /\ Len(events) = 0
    BY EmptySeq DEF Init
  <2>2. Numbers(lines) = <<>> /\ Numbers(port) = <<>>
    BY <2>1 DEF Numbers
  <2>3. Ordered
    BY <2>1, <2>2, EmptySeq DEF Ordered, InTurn, Ascend, Before, UpTo, Init
  <2>4. Together
    BY <2>1 DEF Together, Init
  <2>5. Fresh
    BY <2>1 DEF Fresh
  <2> QED BY <2>3, <2>4, <2>5 DEF LinesInv
<1>2. TypeOK /\ LinesInv /\ [Next]_vars => LinesInv'
  BY TypeStep, OrderedStep, TogetherStep, FreshStep DEF LinesInv
<1> QED BY <1>1, <1>2, TypeInit, TypeStep, Told, PTL DEF Spec

-----------------------------------------------------------------------------
(* MessageParser: the messages collected from the lines. *)

(* The lines of s are those of q from k to m, and k opens a message. *)
RunOf(q, s, k, m) ==
    /\ Len(s) = m - k + 1
    /\ \A i \in 1..Len(s) : s[i] = q[k + i - 1]
    /\ IsOpen(q[k].kind)

(* Line k is the first behind p with an open tag; line c the first from k  *)
(* on with a close tag, or the one counting begins at.                     *)
FirstOpen(q, p, k) ==
    p < k /\ IsOpen(q[k].kind) /\ \A i \in (p + 1)..(k - 1) : ~IsOpen(q[i].kind)
FirstClose(q, k, c) ==
    IsClose(q[c].kind) /\ \A i \in k..(c - 1) : ~IsClose(q[i].kind)
CountedFrom(q, d, k, c) == IF d.close_tag THEN FirstClose(q, k, c) ELSE c = k

Behind(d) == IF d.line_count = 0 THEN 0 ELSE d.line_count - 1

(* The message in the lines behind p is that from k to m. *)
MessageAt(q, d, p, k, m) ==
    /\ FirstOpen(q, p, k)
    /\ \E c \in k..m : CountedFrom(q, d, k, c) /\ m = c + Behind(d)

NumberedLines == \A k \in 1..Len(seen) : seen[k].no = k

(* Where the lines of the buffer begin. *)
Start == Len(seen) - Len(msg_buff) + 1

Runs ==
    /\ \A n \in 1..Len(parsed) :
          /\ parsed[n].no \in 1..Len(seen)
          /\ ~parsed[n].left =>
                \E k \in 1..parsed[n].no :
                    RunOf(seen, parsed[n].lines, k, parsed[n].no)
    /\ msg_buff # NoBuffer /\ ~left =>
          Start \in 1..Len(seen) /\ RunOf(seen, msg_buff, Start, Len(seen))

Described ==
    \A n \in 1..Len(parsed) :
       ~parsed[n].left =>
          \E k \in 1..parsed[n].no :
              /\ RunOf(seen, parsed[n].lines, k, parsed[n].no)
              /\ MessageAt(seen, descr, End(n - 1), k, parsed[n].no)

Collecting ==
    /\ ~do_decrement =>
          /\ descr.close_tag /\ line_count = descr.line_count
          /\ \A i \in Start..Len(seen) : ~IsClose(seen[i].kind)
    /\ do_decrement =>
          /\ line_count > 0
          /\ \E c \in Start..Len(seen) :
                /\ CountedFrom(seen, descr, Start, c)
                /\ line_count = descr.line_count - (Len(seen) - c + 1)

Current ==
    /\ ~left /\ msg_buff = NoBuffer =>
          \A i \in (End(Len(parsed)) + 1)..Len(seen) : ~IsOpen(seen[i].kind)
    /\ ~left /\ msg_buff # NoBuffer =>
          FirstOpen(seen, End(Len(parsed)), Start) /\ Collecting

(* What is left over is complete with any line, and ends with the last.    *)
Leftover ==
    /\ ~left => pos = Len(msg_buff)
    /\ left => /\ msg_buff # NoBuffer /\ do_decrement /\ line_count <= 0
               /\ Len(parsed) > 0 /\ parsed[Len(parsed)].no = Len(seen)

(* A buffer left over is given with the line after the one it was given    *)
(* with before.                                                            *)
GivenAgain ==
    \A n \in 1..Len(parsed) :
       parsed[n].left =>
          /\ n > 1 /\ parsed[n].no = parsed[n - 1].no + 1
          /\ \E i \in 1..Len(parsed[n].lines) :
                parsed[n].lines[i] = seen[parsed[n].no]

ParserInv == NumberedLines /\ Runs /\ Described /\ Current /\ Leftover /\ GivenAgain

-----------------------------------------------------------------------------
(* What a write at pos makes of the buffer: it has the line in it; at the  *)
(* end it is the buffer with the line appended.                            *)
LEMMA WrittenIs ==
    ASSUME ParserTypeOK, NEW line \in Line, NEW b \in Written(line)
    PROVE  /\ b \in Seq(Line) /\ Len(b) > 0 /\ pos + 1 \in 0..Len(b)
           /\ \E i \in 1..Len(b) : b[i] = line
           /\ pos = Len(msg_buff) => b = Append(msg_buff, line)
<1>1. /\ msg_buff \in Seq(Line) /\ Len(msg_buff) \in Nat /\ pos \in 0..Len(msg_buff)
      /\ \A i \in 1..Len(msg_buff) : msg_buff[i] \in Line
  BY DEF ParserTypeOK
<1> DEFINE front == SubSeq(msg_buff, 1, pos)
<1>2. PICK rest \in Tails : b = front \o <<line>> \o rest
  BY DEF Written
<1>3. /\ front \in Seq(Line) /\ Len(front) = pos
      /\ \A i \in 1..pos : front[i] = msg_buff[i]
  <2>1. 1 \in Int /\ pos \in Int /\ \A i \in 1..pos : msg_buff[i] \in Line
    BY <1>1
  <2>2. CASE pos = 0
    BY <1>1, <2>2
  <2>3. CASE pos # 0
    <3>1. 1 <= pos /\ pos <= Len(msg_buff)
      BY <1>1, <2>3
    <3> QED BY <1>1, <2>1, <3>1
  <2> QED BY <2>2, <2>3
<1>4. rest \in Seq(Line)
  <2>1. CASE pos = Len(msg_buff)
    BY <2>1 DEF Tails
  <2>2. CASE pos # Len(msg_buff)
    <3>1. PICK j \in (pos + 1)..Len(msg_buff) :
             \/ rest = SubSeq(msg_buff, j + 1, Len(msg_buff))
             \/ rest = <<[msg_buff[j] EXCEPT !.kind = "rest"]>>
                          \o SubSeq(msg_buff, j + 1, Len(msg_buff))
      BY <2>2 DEF Tails
    <3>2. SubSeq(msg_buff, j + 1, Len(msg_buff)) \in Seq(Line)
      BY <1>1
    <3>3. [msg_buff[j] EXCEPT !.kind = "rest"] \in Line
      <4>1. msg_buff[j] \in Line
        BY <1>1
      <4> QED BY <4>1 DEF Line
    <3>4. CASE rest = SubSeq(msg_buff, j + 1, Len(msg_buff))
      BY <3>2, <3>4
    <3>5. CASE rest = <<[msg_buff[j] EXCEPT !.kind = "rest"]>>
                         \o SubSeq(msg_buff, j + 1, Len(msg_buff))
      <4> DEFINE x == [msg_buff[j] EXCEPT !.kind = "rest"]
                 r == SubSeq(msg_buff, j + 1, Len(msg_buff))
      <4>1. x \in Line /\ r \in Seq(Line)
        BY <3>2, <3>3
      <4> HIDE DEF x, r
      <4>2. <<x>> \o r \in Seq(Line)
        BY <4>1
      <4> QED BY <3>5, <4>2 DEF x, r
    <3> QED BY <3>1, <3>4, <3>5
  <2> QED BY <2>1, <2>2
<1> HIDE DEF front
<1>5. /\ front \o <<line>> \in Seq(Line) /\ Len(front \o <<line>>) = pos + 1
      /\ (front \o <<line>>)[pos + 1] = line
      /\ \A i \in 1..pos : (front \o <<line>>)[i] = front[i]
  BY <1>1, <1>3
<1>6. /\ b \in Seq(Line) /\ Len(b) = pos + 1 + Len(rest) /\ b[pos + 1] = line
      /\ Len(rest) \in Nat
      /\ \A i \in 1..(pos + 1) : b[i] = (front \o <<line>>)[i]
  <2> DEFINE f == front \o <<line>>
  <2>1. f \in Seq(Line) /\ Len(f) = pos + 1 /\ f[pos + 1] = line /\ b = f \o rest
    BY <1>2, <1>5
  <2> HIDE DEF f
  <2>2. b \in Seq(Line) /\ Len(b) = Len(f) + Len(rest) /\ Len(rest) \in Nat
        /\ \A i \in 1..Len(f) : b[i] = f[i]
    <3>1. /\ f \o rest \in Seq(Line) /\ Len(f \o rest) = Len(f) + Len(rest)
          /\ \A i \in 1..(Len(f) + Len(rest)) :
                (f \o rest)[i] = IF i <= Len(f) THEN f[i] ELSE rest[i - Len(f)]
      BY <1>4, <2>1, ConcatProperties
    <3>2. Len(rest) \in Nat /\ Len(f) \in Nat
      BY <1>4, <2>1
    <3>3. \A i \in 1..Len(f) : i \in 1..(Len(f) + Len(rest)) /\ i <= Len(f)
      BY <3>2
    <3> QED BY <2>1, <3>1, <3>2, <3>3
  <2>3. pos + 1 \in 1..Len(f)
    BY <1>1, <2>1
  <2> QED BY <2>1, <2>2, <2>3 DEF f
<1>7. ASSUME pos = Len(msg_buff) PROVE b = Append(msg_buff, line)
  <2>1. rest = <<>> /\ Len(rest) = 0
    BY <1>7, EmptySeq DEF Tails
  <2>2. /\ Append(msg_buff, line) \in Seq(Line)
        /\ Len(Append(msg_buff, line)) = pos + 1
        /\ Append(msg_buff, line)[pos + 1] = line
        /\ \A i \in 1..pos : Append(msg_buff, line)[i] = msg_buff[i]
    BY <1>1, <1>7, AppendProperties
  <2>3. \A i \in 1..(pos + 1) : b[i] = Append(msg_buff, line)[i]
    <3>1. \A i \in 1..(pos + 1) : i \in 1..pos \/ i = pos + 1
      BY <1>1
    <3> QED BY <1>3, <1>5, <1>6, <2>2, <3>1
  <2> QED BY <1>1, <1>6, <2>1, <2>2, <2>3, SeqEqual
<1> QED BY <1>1, <1>6, <1>7

(* A line is in no message, in one that goes on, or is the last of one.    *)
Skipped == UNCHANGED <<storage, raised, left, parsed>>
Collects(kind) ==
    /\ InMessage(kind) /\ ~Complete(kind)
    /\ msg_buff' \in Written(Fed(kind)) /\ pos' = pos + 1
    /\ do_decrement' = Counting(kind)
    /\ line_count' = IF Counting(kind) THEN Count(kind) - 1 ELSE Count(kind)
    /\ UNCHANGED <<raised, left, parsed>>
Gives(kind, b) ==
    /\ InMessage(kind) /\ Complete(kind)
    /\ parsed' = Append(parsed, [lines |-> b, no |-> Len(seen) + 1, left |-> left])
    /\ ParseReturns \/ ParseRaises(kind, b)

LEMMA ParserTypes == ParserTypeOK /\ [ParserNext]_parserVars => ParserTypeOK'
<1> SUFFICES ASSUME ParserTypeOK, [ParserNext]_parserVars PROVE ParserTypeOK'
  OBVIOUS
<1> USE MessageParserAssumption
<1>1. ASSUME NEW kind \in LineKinds, TryMessageParse(kind) PROVE ParserTypeOK'
  <2>1. Fed(kind) \in Line /\ Len(seen) + 1 \in 1..MaxLines
    <3>1. Len(seen) \in Nat /\ Len(seen) < MaxLines
      BY <1>1 DEF ParserTypeOK, TryMessageParse
    <3>2. Len(seen) + 1 \in 1..MaxLines
      BY <3>1
    <3> QED BY <3>2, Zenon DEF Fed, Line, LineKinds
  <2>2. seen' \in Seq(Line)
    <3>1. seen' = Append(seen, Fed(kind))
      BY <1>1 DEF TryMessageParse
    <3>2. seen \in Seq(Line)
      BY DEF ParserTypeOK
    <3> HIDE MessageParserAssumption
    <3> QED BY <2>1, <3>1, <3>2, AppendProperties
  <2>3. descr' = descr /\ attempt' = attempt
    BY <1>1 DEF TryMessageParse
  <2>4. descr.line_count \in Nat /\ Count(kind) \in Int /\ Counting(kind) \in BOOLEAN
    BY DEF ParserTypeOK, Count, Counting, IsClose
  <2>5. CASE Skipped
    BY <2>2, <2>3, <2>5 DEF ParserTypeOK, storage, Skipped
  <2>6. CASE Collects(kind)
    <3>1. msg_buff' \in Seq(Line) /\ Len(msg_buff') > 0 /\ pos' \in 0..Len(msg_buff')
      BY <2>1, <2>6, WrittenIs DEF Collects
    <3>2. line_count' \in Int /\ do_decrement' \in BOOLEAN
      BY <2>4, <2>6 DEF Collects
    <3>3. msg_buff' # NoBuffer
      BY <3>1, EmptySeq DEF NoBuffer
    <3>4. raised' = raised /\ left' = left /\ parsed' = parsed
      BY <2>6 DEF Collects
    <3> QED BY <2>2, <2>3, <3>1, <3>2, <3>3, <3>4, Zenon DEF ParserTypeOK
  <2>7. ASSUME NEW b \in Written(Fed(kind)), Gives(kind, b) PROVE ParserTypeOK'
    <3>1. b \in Seq(Line) /\ Len(b) > 0 /\ b # NoBuffer
      BY <2>1, WrittenIs, EmptySeq DEF NoBuffer
    <3>2. parsed' \in Seq(Given)
      <4>1. [lines |-> b, no |-> Len(seen) + 1, left |-> left] \in Given
        BY <2>1, <3>1 DEF Given, ParserTypeOK
      <4>2. parsed \in Seq(Given)
        BY DEF ParserTypeOK
      <4> HIDE MessageParserAssumption
      <4> QED BY <2>7, <4>1, <4>2, AppendProperties DEF Gives
    <3>3. CASE ParseReturns
      <4>1. msg_buff' = NoBuffer /\ line_count' = 0 /\ ~do_decrement' /\ pos' = 0
            /\ ~left' /\ raised' = raised /\ do_decrement' \in BOOLEAN
            /\ left' \in BOOLEAN
        BY <3>3 DEF ParseReturns, FlagAfter
      <4>2. NoBuffer \in Seq(Line) /\ Len(NoBuffer) = 0
        BY DEF NoBuffer
      <4>3. pos' \in 0..Len(msg_buff')
        BY <4>1, <4>2
      <4>4. line_count' \in Int
        BY <4>1
      <4> QED BY <2>2, <2>3, <3>2, <4>1, <4>2, <4>3, <4>4, Zenon DEF ParserTypeOK
    <3>4. CASE ParseRaises(kind, b)
      <4>1. msg_buff' = b /\ do_decrement' /\ raised' /\ left'
            /\ pos' \in 0..Len(msg_buff') /\ do_decrement' \in BOOLEAN
            /\ raised' \in BOOLEAN /\ left' \in BOOLEAN
        BY <3>4 DEF ParseRaises
      <4>2. line_count' \in Int
        BY <2>4, <3>4 DEF ParseRaises
      <4> QED BY <2>2, <2>3, <3>1, <3>2, <4>1, <4>2, Zenon DEF ParserTypeOK
    <3> QED BY <2>7, <3>3, <3>4 DEF Gives
  <2> QED
    BY <1>1, <2>5, <2>6, <2>7 DEF TryMessageParse, Skipped, Collects, Gives
<1>2. ASSUME RepeatTest PROVE ParserTypeOK'
  <2>1. attempt' \in 1..MaxAttempts
    BY <1>2 DEF RepeatTest, ParserTypeOK
  <2> QED BY <1>2, <2>1, Zenon DEF RepeatTest, ParserTypeOK, storage
<1>3. ASSUME UNCHANGED parserVars PROVE ParserTypeOK'
  BY <1>3 DEF parserVars, storage, ParserTypeOK
<1> QED BY <1>1, <1>2, <1>3 DEF ParserNext, LinesEnded

(* What a line that is fed adds to the lines seen. *)
Longer(q, q2) == Len(q2) = Len(q) + 1 /\ \A i \in 1..Len(q) : q2[i] = q[i]

LEMMA RunKept ==
    ASSUME NEW q \in Seq(Line), NEW q2 \in Seq(Line), Longer(q, q2),
           NEW s \in Seq(Line), NEW m \in 1..Len(q), NEW k \in 1..m,
           RunOf(q, s, k, m)
    PROVE  RunOf(q2, s, k, m)
<1>1. Len(s) \in Nat /\ Len(q) \in Nat /\ Len(s) = m - k + 1
  BY DEF RunOf
<1>2. \A i \in 1..Len(s) : k + i - 1 \in 1..Len(q)
  BY <1>1
<1>3. k \in 1..Len(q)
  OBVIOUS
<1> QED BY <1>2, <1>3 DEF RunOf, Longer

LEMMA MessageKept ==
    ASSUME NEW q \in Seq(Line), NEW q2 \in Seq(Line), Longer(q, q2),
           NEW d, NEW p \in Nat, NEW m \in 1..Len(q), NEW k \in 1..m,
           MessageAt(q, d, p, k, m)
    PROVE  MessageAt(q2, d, p, k, m)
<1>1. FirstOpen(q2, p, k)
  <2>1. \A i \in (p + 1)..(k - 1) : i \in 1..Len(q)
    OBVIOUS
  <2>2. k \in 1..Len(q)
    OBVIOUS
  <2> QED BY <2>1, <2>2 DEF FirstOpen, MessageAt, Longer
<1>2. PICK c \in k..m : CountedFrom(q, d, k, c) /\ m = c + Behind(d)
  BY DEF MessageAt
<1>3. CountedFrom(q2, d, k, c)
  <2>1. \A i \in k..(c - 1) : i \in 1..Len(q)
    OBVIOUS
  <2>2. c \in 1..Len(q)
    OBVIOUS
  <2> QED BY <1>2, <2>1, <2>2 DEF CountedFrom, FirstClose, Longer
<1> QED BY <1>1, <1>2, <1>3 DEF MessageAt

LEMMA EndIsPlace ==
    ASSUME ParserTypeOK, Runs, NEW n \in 0..Len(parsed)
    PROVE  End(n) \in 0..Len(seen)
<1>1. Len(seen) \in Nat /\ Len(parsed) \in Nat
  BY DEF ParserTypeOK
<1>2. CASE n = 0
  BY <1>1, <1>2 DEF End
<1>3. CASE n # 0
  <2>1. n \in 1..Len(parsed)
    BY <1>1, <1>3
  <2>2. parsed[n].no \in 1..Len(seen)
    BY <2>1 DEF Runs
  <2> QED BY <1>1, <1>3, <2>2 DEF End
<1> QED BY <1>2, <1>3

-----------------------------------------------------------------------------
(* A line that is fed. *)
LEMMA FedLine ==
    ASSUME ParserTypeOK, NEW kind \in LineKinds, TryMessageParse(kind)
    PROVE  /\ seen' = Append(seen, Fed(kind)) /\ seen' \in Seq(Line)
           /\ Fed(kind) \in Line
           /\ Longer(seen, seen') /\ seen'[Len(seen) + 1] = Fed(kind)
           /\ descr' = descr
<1>1. seen' = Append(seen, Fed(kind)) /\ Len(seen) < MaxLines /\ descr' = descr
  BY DEF TryMessageParse
<1>2. Fed(kind) \in Line
  <2>1. Len(seen) + 1 \in 1..MaxLines
    BY <1>1, MessageParserAssumption DEF ParserTypeOK
  <2> QED BY <2>1 DEF Fed, Line
<1>3. seen \in Seq(Line)
  BY DEF ParserTypeOK
<1> QED BY <1>1, <1>2, <1>3, AppendProperties DEF Longer

LEMMA NumbersKept ==
    ASSUME ParserTypeOK, NumberedLines, NEW kind \in LineKinds,
           TryMessageParse(kind)
    PROVE  NumberedLines'
<1>1. Len(seen) \in Nat
  BY DEF ParserTypeOK
<1>2. Len(seen') = Len(seen) + 1 /\ \A i \in 1..Len(seen) : seen'[i] = seen[i]
  BY FedLine DEF Longer
<1>3. seen'[Len(seen) + 1].no = Len(seen) + 1
  <2>1. seen'[Len(seen) + 1] = Fed(kind)
    BY FedLine
  <2>2. Fed(kind).no = Len(seen) + 1
    BY DEF Fed
  <2> QED BY <2>1, <2>2
<1> SUFFICES ASSUME NEW k \in 1..Len(seen') PROVE seen'[k].no = k
  BY DEF NumberedLines
<1>4. k \in 1..Len(seen) \/ k = Len(seen) + 1
  BY <1>1, <1>2
<1> QED BY <1>2, <1>3, <1>4 DEF NumberedLines

(* What a line does, when it is known what the buffer holds. *)
LEMMA Outcome ==
    ASSUME ParserTypeOK, Leftover, NEW kind \in LineKinds, TryMessageParse(kind)
    PROVE  \/ ~InMessage(kind) /\ Skipped
           \/ Collects(kind) /\ ~left /\ msg_buff' = Append(msg_buff, Fed(kind))
           \/ \E b \in Seq(Line) :
                 /\ Gives(kind, b) /\ Len(b) > 0
                 /\ \E i \in 1..Len(b) : b[i] = Fed(kind)
                 /\ ~left => b = Append(msg_buff, Fed(kind))
<1>1. Fed(kind) \in Line
  BY FedLine
<1>2. ASSUME NEW b \in Written(Fed(kind))
      PROVE  /\ b \in Seq(Line) /\ Len(b) > 0
             /\ \E i \in 1..Len(b) : b[i] = Fed(kind)
             /\ ~left => b = Append(msg_buff, Fed(kind))
  BY <1>1, WrittenIs DEF Leftover
<1>3. CASE Collects(kind)
  <2>1. ~left
    <3>1. SUFFICES ASSUME left PROVE FALSE
      OBVIOUS
    <3>2. msg_buff # NoBuffer /\ do_decrement /\ line_count <= 0
      BY <3>1 DEF Leftover
    <3>3. Counting(kind) /\ Count(kind) = line_count /\ line_count \in Int
      BY <3>2 DEF Counting, Count, Begins, ParserTypeOK
    <3>4. Complete(kind)
      BY <3>2, <3>3 DEF Complete
    <3> QED BY <1>3, <3>4 DEF Collects
  <2>2. msg_buff' \in Written(Fed(kind))
    BY <1>3 DEF Collects
  <2> QED BY <1>2, <1>3, <2>1, <2>2
<1>4. CASE \E b \in Written(Fed(kind)) : Gives(kind, b)
  BY <1>2, <1>4
<1> QED BY <1>3, <1>4 DEF TryMessageParse, Skipped, Collects, Gives

(* The place where the buffer begins, with the line that is fed in it. *)
From == Len(seen) + 1 - Len(msg_buff)

(* A line in a message: the buffer with it is a run from the open tag on.  *)
LEMMA BufferRun ==
    ASSUME ParserTypeOK, Runs, ~left, NEW kind \in LineKinds,
           TryMessageParse(kind), InMessage(kind)
    PROVE  /\ From \in 1..(Len(seen) + 1)
           /\ RunOf(seen', Append(msg_buff, Fed(kind)), From, Len(seen) + 1)
<1> DEFINE b == Append(msg_buff, Fed(kind))
<1>1. Len(seen) \in Nat /\ Len(msg_buff) \in Nat
  BY DEF ParserTypeOK
<1>2. /\ b \in Seq(Line) /\ Len(b) = Len(msg_buff) + 1
      /\ \A i \in 1..Len(msg_buff) : b[i] = msg_buff[i]
      /\ b[Len(msg_buff) + 1] = Fed(kind)
  BY FedLine, AppendProperties DEF ParserTypeOK
<1> HIDE DEF b
<1>3. seen'[Len(seen) + 1] = Fed(kind) /\ \A i \in 1..Len(seen) : seen'[i] = seen[i]
  BY FedLine DEF Longer
<1>4. CASE msg_buff = NoBuffer
  <2>1. Len(msg_buff) = 0 /\ From = Len(seen) + 1
    BY <1>1, <1>4, EmptySeq DEF NoBuffer, From
  <2>2. IsOpen(kind) /\ Fed(kind).kind = kind
    BY <1>4 DEF InMessage, Begins, Fed
  <2>3. Len(b) = Len(seen) + 1 - From + 1
    BY <1>1, <1>2, <2>1
  <2>4. \A i \in 1..Len(b) : b[i] = seen'[From + i - 1]
    <3>1. \A i \in 1..Len(b) : i = 1 /\ From + i - 1 = Len(seen) + 1
      BY <1>1, <1>2, <2>1
    <3>2. b[1] = Fed(kind)
      BY <1>2, <2>1
    <3> QED BY <1>3, <3>1, <3>2
  <2> QED BY <1>1, <1>3, <2>1, <2>2, <2>3, <2>4 DEF RunOf, b
<1>5. CASE msg_buff # NoBuffer
  <2>1. Start \in 1..Len(seen) /\ RunOf(seen, msg_buff, Start, Len(seen))
    BY <1>5 DEF Runs
  <2>2. From = Start
    BY <1>1 DEF From, Start
  <2>3. From \in 1..Len(seen) /\ IsOpen(seen[From].kind)
    BY <2>1, <2>2 DEF RunOf
  <2>4. \A i \in 1..Len(msg_buff) : msg_buff[i] = seen[From + i - 1]
    BY <2>1, <2>2 DEF RunOf
  <2>5. ASSUME NEW i \in 1..Len(b) PROVE b[i] = seen'[From + i - 1]
    <3>1. CASE i \in 1..Len(msg_buff)
      <4>1. From + i - 1 \in 1..Len(seen)
        BY <1>1, <2>3, <3>1 DEF From
      <4> QED BY <1>2, <1>3, <2>4, <3>1, <4>1
    <3>2. CASE i = Len(msg_buff) + 1
      <4>1. From + i - 1 = Len(seen) + 1
        BY <1>1, <3>2 DEF From
      <4> QED BY <1>2, <1>3, <3>2, <4>1
    <3> QED BY <1>1, <1>2, <3>1, <3>2
  <2>6. Len(b) = Len(seen) + 1 - From + 1
    BY <1>1, <1>2 DEF From
  <2>7. IsOpen(seen'[From].kind)
    BY <1>3, <2>3
  <2> QED BY <1>1, <2>3, <2>5, <2>6, <2>7 DEF RunOf, b
<1> QED BY <1>4, <1>5

(* What has been given so far is as it was, and its ends do not move. *)
LEMMA GivenKept ==
    ASSUME ParserTypeOK, Leftover, NEW kind \in LineKinds, TryMessageParse(kind)
    PROVE  /\ \A n \in 1..Len(parsed) : parsed'[n] = parsed[n]
           /\ \A n \in 0..Len(parsed) : End(n)' = End(n)
           /\ \/ parsed' = parsed
              \/ /\ Len(parsed') = Len(parsed) + 1
                 /\ parsed'[Len(parsed) + 1].no = Len(seen) + 1
                 /\ parsed'[Len(parsed) + 1].left = left
<1>1. parsed \in Seq(Given) /\ Len(parsed) \in Nat /\ left \in BOOLEAN
      /\ Len(seen) + 1 \in 1..MaxLines
  <2>1. Len(seen) \in Nat /\ Len(seen) < MaxLines /\ MaxLines \in Nat
    BY MessageParserAssumption DEF ParserTypeOK, TryMessageParse
  <2> QED BY <2>1 DEF ParserTypeOK
<1>2. CASE parsed' = parsed
  BY <1>2 DEF End
<1>3. ASSUME NEW b \in Seq(Line), Gives(kind, b)
      PROVE  /\ Len(parsed') = Len(parsed) + 1
             /\ parsed'[Len(parsed) + 1] = [lines |-> b, no |-> Len(seen) + 1, left |-> left]
             /\ \A n \in 1..Len(parsed) : parsed'[n] = parsed[n]
  <2>1. [lines |-> b, no |-> Len(seen) + 1, left |-> left] \in Given
    BY <1>1 DEF Given
  <2> QED BY <1>1, <1>3, <2>1, AppendProperties DEF Gives
<1>4. CASE \E b \in Seq(Line) : Gives(kind, b)
  <2>1. /\ \A n \in 1..Len(parsed) : parsed'[n] = parsed[n]
        /\ Len(parsed') = Len(parsed) + 1
        /\ parsed'[Len(parsed) + 1].no = Len(seen) + 1
        /\ parsed'[Len(parsed) + 1].left = left
    <3>1. PICK b \in Seq(Line) : Gives(kind, b)
      BY <1>4
    <3>2. /\ Len(parsed') = Len(parsed) + 1
          /\ parsed'[Len(parsed) + 1]
                = [lines |-> b, no |-> Len(seen) + 1, left |-> left]
          /\ \A n \in 1..Len(parsed) : parsed'[n] = parsed[n]
      BY <1>3, <3>1
    <3> QED BY <3>2
  <2>2. ASSUME NEW n \in 0..Len(parsed) PROVE End(n)' = End(n)
    <3>1. n # 0 => n \in 1..Len(parsed)
      BY <1>1
    <3> QED BY <2>1, <3>1 DEF End
  <2> QED BY <2>1, <2>2
<1> QED BY <1>2, <1>4, Outcome DEF Skipped, Collects

(* The same of a buffer that has been kept, and of one that is empty. *)
LEMMA RunsKept ==
    ASSUME ParserTypeOK, Runs, Leftover, NEW kind \in LineKinds,
           TryMessageParse(kind)
    PROVE  Runs'
<1> DEFINE b == Append(msg_buff, Fed(kind))
<1>1. /\ seen \in Seq(Line) /\ seen' \in Seq(Line) /\ Longer(seen, seen')
      /\ Len(seen) \in Nat /\ Len(seen') = Len(seen) + 1
  BY FedLine DEF ParserTypeOK, Longer
<1>2. b \in Seq(Line) /\ Len(b) = Len(msg_buff) + 1 /\ Len(msg_buff) \in Nat
  BY FedLine, AppendProperties DEF ParserTypeOK
<1>3. ~left /\ InMessage(kind) =>
         From \in 1..(Len(seen) + 1) /\ RunOf(seen', b, From, Len(seen) + 1)
  BY <1>1, BufferRun
<1>4. parsed \in Seq(Given) /\ Len(parsed) \in Nat
  BY DEF ParserTypeOK
<1>5. ASSUME NEW n \in 1..Len(parsed)
      PROVE  /\ parsed'[n].no \in 1..Len(seen')
             /\ ~parsed'[n].left => \E k \in 1..parsed'[n].no :
                   RunOf(seen', parsed'[n].lines, k, parsed'[n].no)
  <2>1. parsed'[n] = parsed[n] /\ parsed[n].no \in 1..Len(seen)
        /\ parsed[n].lines \in Seq(Line)
    <3>1. parsed[n] \in Given
      BY <1>4
    <3>2. parsed'[n] = parsed[n]
      BY GivenKept
    <3> QED BY <3>1, <3>2 DEF Runs, Given
  <2>2. parsed[n].no \in 1..Len(seen')
    BY <1>1, <2>1
  <2>3. ASSUME ~parsed[n].left
        PROVE  \E k \in 1..parsed[n].no : RunOf(seen', parsed[n].lines, k, parsed[n].no)
    <3>1. PICK k \in 1..parsed[n].no : RunOf(seen, parsed[n].lines, k, parsed[n].no)
      BY <2>3 DEF Runs
    <3> QED BY <1>1, <2>1, <3>1, RunKept
  <2> QED BY <2>1, <2>2, <2>3
<1>6. ASSUME NEW n \in 1..Len(parsed'), n \notin 1..Len(parsed)
      PROVE  /\ parsed'[n].no \in 1..Len(seen')
             /\ ~parsed'[n].left => \E k \in 1..parsed'[n].no :
                   RunOf(seen', parsed'[n].lines, k, parsed'[n].no)
  <2>1. PICK g \in Seq(Line) : Gives(kind, g) /\ (~left => g = b)
    BY <1>6, Outcome DEF Skipped, Collects
  <2>2. /\ parsed' = Append(parsed, [lines |-> g, no |-> Len(seen) + 1, left |-> left])
        /\ InMessage(kind)
    BY <2>1 DEF Gives
  <2>3. Len(parsed') = Len(parsed) + 1 /\ n = Len(parsed) + 1
    <3>1. Len(parsed') = Len(parsed) + 1
      BY <1>4, <2>2
    <3> QED BY <1>4, <1>6, <3>1
  <2>4. parsed'[n] = [lines |-> g, no |-> Len(seen) + 1, left |-> left]
    BY <1>4, <2>2, <2>3
  <2>5. parsed'[n].no = Len(seen) + 1 /\ parsed'[n].lines = g /\ parsed'[n].left = left
    BY <2>4
  <2> HIDE DEF b
  <2> QED BY <1>1, <1>3, <2>1, <2>2, <2>5
<1>7. ASSUME msg_buff' # NoBuffer, ~left'
      PROVE  Start' \in 1..Len(seen') /\ RunOf(seen', msg_buff', Start', Len(seen'))
  <2>1. ~left /\ InMessage(kind) /\ msg_buff' = b
    <3>1. CASE ~InMessage(kind) /\ Skipped
      <4>1. msg_buff' = NoBuffer
        BY <3>1 DEF InMessage, Skipped, storage
      <4> QED BY <1>7, <4>1
    <3>2. CASE Collects(kind) /\ ~left /\ msg_buff' = b
      BY <3>2 DEF Collects
    <3>3. CASE \E g \in Seq(Line) : Gives(kind, g)
      BY <1>7, <3>3 DEF Gives, ParseReturns, ParseRaises
    <3> QED BY <3>1, <3>2, <3>3, Outcome
  <2>2. Start' = From
    <3>1. Start' = Len(seen') - Len(b) + 1
      BY <2>1 DEF Start
    <3> HIDE DEF b
    <3> QED BY <1>1, <1>2, <3>1 DEF From
  <2> QED BY <1>1, <1>3, <2>1, <2>2
<1>8. ASSUME NEW n \in 1..Len(parsed')
      PROVE  /\ parsed'[n].no \in 1..Len(seen')
             /\ ~parsed'[n].left => \E k \in 1..parsed'[n].no :
                   RunOf(seen', parsed'[n].lines, k, parsed'[n].no)
  BY <1>5, <1>6
<1> QED BY <1>7, <1>8, Zenon DEF Runs

LEMMA LeftoverKept ==
    ASSUME ParserTypeOK, Runs, Leftover, NEW kind \in LineKinds,
           TryMessageParse(kind)
    PROVE  Leftover'
<1>1. /\ msg_buff \in Seq(Line) /\ Len(msg_buff) \in Nat /\ Fed(kind) \in Line
      /\ Len(seen) \in Nat /\ Len(seen') = Len(seen) + 1 /\ Len(parsed) \in Nat
  BY FedLine DEF ParserTypeOK, Longer
<1>2. CASE ~InMessage(kind) /\ Skipped
  <2>1. msg_buff = NoBuffer
    BY <1>2 DEF InMessage
  <2> QED BY <1>2, <2>1, Zenon DEF Leftover, Skipped, storage
<1>3. CASE Collects(kind) /\ ~left /\ msg_buff' = Append(msg_buff, Fed(kind))
  <2>1. pos = Len(msg_buff) /\ pos' = pos + 1 /\ left' = left
    BY <1>3 DEF Leftover, Collects
  <2>2. Len(msg_buff') = Len(msg_buff) + 1
    BY <1>1, <1>3, AppendProperties
  <2> QED BY <1>3, <2>1, <2>2 DEF Leftover
<1>4. ASSUME NEW b \in Seq(Line), Gives(kind, b), Len(b) > 0 PROVE Leftover'
  <2>1. CASE ParseReturns
    <3>1. ~left' /\ pos' = 0 /\ msg_buff' = <<>>
      BY <2>1 DEF ParseReturns, NoBuffer
    <3>2. Len(msg_buff') = 0
      BY <3>1
    <3> QED BY <3>1, <3>2 DEF Leftover
  <2>2. CASE ParseRaises(kind, b)
    <3>1. left' /\ do_decrement' /\ msg_buff' # NoBuffer
      BY <1>4, <2>2, EmptySeq DEF ParseRaises, NoBuffer
    <3>2. line_count' <= 0
      BY <1>4, <2>2 DEF ParseRaises, Gives, Complete
    <3>3. /\ Len(parsed') = Len(parsed) + 1
          /\ parsed'[Len(parsed) + 1].no = Len(seen) + 1
      <4>1. parsed' # parsed
        <5>1. parsed \in Seq(Given)
          BY DEF ParserTypeOK
        <5>2. Len(Append(parsed, [lines |-> b, no |-> Len(seen) + 1, left |-> left]))
                = Len(parsed) + 1
          BY <5>1
        <5> QED BY <1>1, <1>4, <5>2 DEF Gives
      <4> QED BY <4>1, GivenKept
    <3> QED BY <1>1, <3>1, <3>2, <3>3 DEF Leftover
  <2> QED BY <1>4, <2>1, <2>2 DEF Gives
<1> QED BY <1>2, <1>3, <1>4, Outcome

LEMMA AgainKept ==
    ASSUME ParserTypeOK, Runs, Leftover, GivenAgain, NEW kind \in LineKinds,
           TryMessageParse(kind)
    PROVE  GivenAgain'
<1>1. /\ parsed \in Seq(Given) /\ Len(parsed) \in Nat /\ Len(seen) \in Nat
      /\ \A i \in 1..Len(seen) : seen'[i] = seen[i]
      /\ seen'[Len(seen) + 1] = Fed(kind)
  BY FedLine DEF ParserTypeOK, Longer
<1> SUFFICES ASSUME NEW n \in 1..Len(parsed'), parsed'[n].left
             PROVE  /\ n > 1 /\ parsed'[n].no = parsed'[n - 1].no + 1
                    /\ \E i \in 1..Len(parsed'[n].lines) :
                          parsed'[n].lines[i] = seen'[parsed'[n].no]
  BY DEF GivenAgain
<1>2. CASE n \in 1..Len(parsed)
  <2>1. parsed'[n] = parsed[n] /\ parsed[n].left /\ parsed[n].no \in 1..Len(seen)
    BY <1>2, GivenKept DEF Runs
  <2>2. n > 1 /\ parsed[n].no = parsed[n - 1].no + 1
        /\ \E i \in 1..Len(parsed[n].lines) : parsed[n].lines[i] = seen[parsed[n].no]
    BY <1>2, <2>1 DEF GivenAgain
  <2>3. parsed'[n - 1] = parsed[n - 1]
    <3>1. n - 1 \in 1..Len(parsed)
      BY <1>2, <2>2
    <3> QED BY <3>1, GivenKept
  <2>4. seen'[parsed[n].no] = seen[parsed[n].no]
    BY <1>1, <2>1
  <2> QED BY <2>1, <2>2, <2>3, <2>4
<1>3. CASE n \notin 1..Len(parsed)
  <2>1. PICK g \in Seq(Line) : /\ Gives(kind, g)
                               /\ \E i \in 1..Len(g) : g[i] = Fed(kind)
    BY <1>3, Outcome DEF Skipped, Collects
  <2>2. parsed' = Append(parsed, [lines |-> g, no |-> Len(seen) + 1, left |-> left])
    BY <2>1 DEF Gives
  <2>3. Len(parsed') = Len(parsed) + 1 /\ n = Len(parsed) + 1
    <3>1. Len(parsed') = Len(parsed) + 1
      BY <1>1, <2>2
    <3> QED BY <1>1, <1>3, <3>1
  <2>4. parsed'[n] = [lines |-> g, no |-> Len(seen) + 1, left |-> left]
    BY <1>1, <2>2, <2>3
  <2>5. parsed'[n].no = Len(seen) + 1 /\ parsed'[n].lines = g /\ left
    BY <2>4
  <2>6. Len(parsed) > 0 /\ parsed[Len(parsed)].no = Len(seen)
    BY <2>5 DEF Leftover
  <2>7. n - 1 = Len(parsed) /\ n > 1
    BY <1>1, <2>3, <2>6
  <2>8. parsed'[n - 1] = parsed[n - 1]
    <3>1. n - 1 \in 1..Len(parsed)
      BY <1>1, <2>7, <2>6
    <3> QED BY <3>1, GivenKept
  <2>9. parsed'[n - 1].no = Len(seen)
    BY <2>6, <2>7, <2>8
  <2> QED BY <1>1, <2>1, <2>5, <2>7, <2>9
<1> QED BY <1>2, <1>3

(* What is known of a line in a message, as long as nothing has raised: the *)
(* message begins at From, and counting is where it should be.              *)
LEMMA LineCounted ==
    ASSUME ParserTypeOK, NumberedLines, Runs, Current, ~left,
           NEW kind \in LineKinds, TryMessageParse(kind), InMessage(kind)
    PROVE  /\ FirstOpen(seen', End(Len(parsed)), From)
           /\ ~Counting(kind) =>
                 /\ descr.close_tag /\ Count(kind) = descr.line_count
                 /\ \A i \in From..(Len(seen) + 1) : ~IsClose(seen'[i].kind)
           /\ Counting(kind) =>
                 \E c \in From..(Len(seen) + 1) :
                    /\ CountedFrom(seen', descr, From, c)
                    /\ Count(kind) - 1 = descr.line_count - (Len(seen) + 2 - c)
                    /\ c = Len(seen) + 1 \/ Count(kind) > 0
<1> DEFINE L == Len(seen) + 1
           p == End(Len(parsed))
<1>1. /\ Len(seen) \in Nat /\ Len(msg_buff) \in Nat /\ Len(parsed) \in Nat
      /\ descr.line_count \in Nat /\ descr.close_tag \in BOOLEAN
  BY MessageParserAssumption DEF ParserTypeOK
<1>2. /\ seen'[L] = Fed(kind) /\ Fed(kind).kind = kind
      /\ \A i \in 1..Len(seen) : seen'[i] = seen[i]
  BY FedLine DEF Longer, Fed
<1>3. p \in 0..Len(seen)
  BY <1>1, EndIsPlace
<1> HIDE DEF p
<1>4. CASE msg_buff = NoBuffer
  <2>1. Len(msg_buff) = 0 /\ From = L
    BY <1>1, <1>4, EmptySeq DEF NoBuffer, From
  <2>2. IsOpen(kind) /\ Count(kind) = descr.line_count
    BY <1>4 DEF InMessage, Begins, Count
  <2>3. \A i \in (p + 1)..Len(seen) : ~IsOpen(seen[i].kind)
    BY <1>4 DEF Current, p
  <2>4. FirstOpen(seen', p, From)
    <3>1. \A i \in (p + 1)..(L - 1) : i \in 1..Len(seen) /\ i \in (p + 1)..Len(seen)
      BY <1>1, <1>3
    <3>2. p < L
      BY <1>1, <1>3
    <3> QED BY <1>2, <2>1, <2>2, <2>3, <3>1, <3>2 DEF FirstOpen
  <2>5. ~do_decrement
    BY <1>4 DEF ParserTypeOK
  <2>6. Counting(kind) => ~descr.close_tag \/ IsClose(kind)
    BY <2>5 DEF Counting
  <2>7. ~Counting(kind) => descr.close_tag /\ ~IsClose(kind)
    BY DEF Counting
  <2>8. Counting(kind) => CountedFrom(seen', descr, L, L)
    <3>1. \A i \in L..(L - 1) : FALSE
      BY <1>1
    <3> QED BY <1>2, <2>6, <3>1 DEF CountedFrom, FirstClose
  <2>9. L \in From..L /\ \A i \in From..L : i = L
    BY <1>1, <2>1
  <2>10. Count(kind) - 1 = descr.line_count - (Len(seen) + 2 - L)
    BY <1>1, <2>2
  <2>11. ~Counting(kind) => \A i \in From..L : ~IsClose(seen'[i].kind)
    BY <1>2, <2>7, <2>9
  <2> QED BY <2>1, <2>2, <2>4, <2>7, <2>8, <2>9, <2>10, <2>11 DEF p
<1>5. CASE msg_buff # NoBuffer
  <2>1. /\ FirstOpen(seen, p, Start) /\ Collecting
        /\ Start \in 1..Len(seen) /\ From = Start
    BY <1>1, <1>5 DEF Current, Runs, From, Start, p
  <2>2. Count(kind) = line_count
    BY <1>5 DEF Count, Begins
  <2>3. FirstOpen(seen', p, From)
    <3>1. \A i \in (p + 1)..(From - 1) : i \in 1..Len(seen)
      BY <1>3, <2>1
    <3> QED BY <1>2, <2>1, <3>1 DEF FirstOpen
  <2>4. CASE do_decrement
    <3>1. PICK c \in From..Len(seen) :
             /\ CountedFrom(seen, descr, From, c)
             /\ line_count = descr.line_count - (Len(seen) - c + 1)
      BY <2>1, <2>4 DEF Collecting
    <3>2. CountedFrom(seen', descr, From, c)
      <4>1. \A i \in From..(c - 1) : i \in 1..Len(seen)
        BY <2>1
      <4>2. c \in 1..Len(seen)
        BY <2>1
      <4> QED BY <1>2, <3>1, <4>1, <4>2 DEF CountedFrom, FirstClose
    <3>3. Counting(kind) /\ line_count > 0
      BY <2>1, <2>4 DEF Counting, Collecting
    <3>4. c \in From..L /\ Count(kind) - 1 = descr.line_count - (Len(seen) + 2 - c)
      BY <1>1, <2>1, <2>2, <3>1
    <3> QED BY <2>2, <2>3, <3>2, <3>3, <3>4, SMTT(60) DEF p
  <2>5. CASE ~do_decrement
    <3>1. /\ descr.close_tag /\ line_count = descr.line_count
          /\ \A i \in From..Len(seen) : ~IsClose(seen[i].kind)
      BY <2>1, <2>5 DEF Collecting
    <3>2. Counting(kind) <=> IsClose(kind)
      BY <2>5, <3>1 DEF Counting
    <3>3. \A i \in From..(L - 1) : ~IsClose(seen'[i].kind)
      <4>1. \A i \in From..(L - 1) : i \in 1..Len(seen) /\ i \in From..Len(seen)
        BY <1>1, <2>1
      <4> QED BY <1>2, <3>1, <4>1
    <3>4. Counting(kind) => CountedFrom(seen', descr, From, L)
      BY <1>2, <3>1, <3>2, <3>3 DEF CountedFrom, FirstClose
    <3>5. ~Counting(kind) => \A i \in From..L : ~IsClose(seen'[i].kind)
      <4>1. \A i \in From..L : i \in From..(L - 1) \/ i = L
        BY <1>1, <2>1
      <4> QED BY <1>2, <3>2, <3>3, <4>1
    <3>6. L \in From..L /\ Count(kind) - 1 = descr.line_count - (Len(seen) + 2 - L)
      BY <1>1, <2>1, <2>2, <3>1
    <3> QED BY <2>2, <2>3, <3>1, <3>4, <3>5, <3>6 DEF p
  <2> QED BY <2>4, <2>5
<1> QED BY <1>4, <1>5

(* A complete buffer is the message that the lines describe. *)
LEMMA CompleteIsMessage ==
    ASSUME ParserTypeOK, NumberedLines, Runs, Current, ~left,
           NEW kind \in LineKinds, TryMessageParse(kind), InMessage(kind),
           Complete(kind)
    PROVE  MessageAt(seen', descr, End(Len(parsed)), From, Len(seen) + 1)
<1>1. Len(seen) \in Nat /\ descr.line_count \in Nat /\ Count(kind) \in Int
  BY MessageParserAssumption DEF ParserTypeOK, Count
<1>2. From \in 1..(Len(seen) + 1)
  BY BufferRun
<1>3. PICK c \in From..(Len(seen) + 1) :
         /\ CountedFrom(seen', descr, From, c)
         /\ Count(kind) - 1 = descr.line_count - (Len(seen) + 2 - c)
         /\ c = Len(seen) + 1 \/ Count(kind) > 0
  BY LineCounted DEF Complete
<1>4. Len(seen) + 1 = c + Behind(descr)
  BY <1>1, <1>2, <1>3 DEF Complete, Behind
<1>5. FirstOpen(seen', End(Len(parsed)), From)
  BY LineCounted
<1> QED BY <1>3, <1>4, <1>5 DEF MessageAt

LEMMA DescribedKept ==
    ASSUME ParserTypeOK, ParserInv, NEW kind \in LineKinds, TryMessageParse(kind)
    PROVE  Described'
<1> DEFINE b == Append(msg_buff, Fed(kind))
<1>1. /\ seen \in Seq(Line) /\ seen' \in Seq(Line) /\ Longer(seen, seen')
      /\ Len(seen) \in Nat /\ Len(seen') = Len(seen) + 1 /\ descr' = descr
  BY FedLine DEF ParserTypeOK, Longer
<1>2. parsed \in Seq(Given) /\ Len(parsed) \in Nat
  BY DEF ParserTypeOK
<1>3. Runs /\ Leftover /\ NumberedLines /\ Current /\ Described
  BY DEF ParserInv
<1>4. ~left /\ InMessage(kind) =>
         From \in 1..(Len(seen) + 1) /\ RunOf(seen', b, From, Len(seen) + 1)
  BY <1>3, BufferRun
<1> SUFFICES ASSUME NEW n \in 1..Len(parsed'), ~parsed'[n].left
             PROVE  \E k \in 1..parsed'[n].no :
                       /\ RunOf(seen', parsed'[n].lines, k, parsed'[n].no)
                       /\ MessageAt(seen', descr', End(n - 1)', k, parsed'[n].no)
  BY DEF Described
<1>7. CASE n \in 1..Len(parsed)
  <2>1. /\ parsed'[n] = parsed[n] /\ parsed[n].lines \in Seq(Line)
        /\ parsed[n].no \in 1..Len(seen)
    <3>1. parsed[n] \in Given
      BY <1>2, <1>7
    <3>2. parsed'[n] = parsed[n]
      BY <1>3, <1>7, GivenKept
    <3> QED BY <1>3, <1>7, <3>1, <3>2 DEF Runs, Given
  <2>2. PICK k \in 1..parsed[n].no :
           /\ RunOf(seen, parsed[n].lines, k, parsed[n].no)
           /\ MessageAt(seen, descr, End(n - 1), k, parsed[n].no)
    BY <1>3, <1>7, <2>1 DEF Described
  <2>3. n - 1 \in 0..Len(parsed)
    BY <1>2, <1>7
  <2>4. End(n - 1)' = End(n - 1)
    <3> DEFINE l == n - 1
    <3> HIDE DEF l
    <3>1. l \in 0..Len(parsed)
      BY <2>3 DEF l
    <3>2. End(l)' = End(l)
      BY <1>3, <3>1, GivenKept
    <3> QED BY <3>2 DEF l
  <2>5. End(n - 1) \in Nat
    <3>1. End(n - 1) \in 0..Len(seen)
      BY <1>3, <2>3, EndIsPlace
    <3> QED BY <1>1, <3>1
  <2>6. RunOf(seen', parsed[n].lines, k, parsed[n].no)
    BY <1>1, <2>1, <2>2, RunKept
  <2>7. MessageAt(seen', descr, End(n - 1), k, parsed[n].no)
    BY <1>1, <2>1, <2>2, <2>5, MessageKept
  <2> QED BY <1>1, <2>1, <2>4, <2>6, <2>7
<1>8. CASE n \notin 1..Len(parsed)
  <2>1. PICK g \in Seq(Line) : Gives(kind, g) /\ (~left => g = b)
    BY <1>3, <1>8, Outcome DEF Skipped, Collects
  <2>2. /\ parsed' = Append(parsed, [lines |-> g, no |-> Len(seen) + 1, left |-> left])
        /\ InMessage(kind) /\ Complete(kind)
    BY <2>1 DEF Gives
  <2> HIDE DEF b
  <2>3. Len(parsed') = Len(parsed) + 1 /\ n = Len(parsed) + 1 /\ n - 1 = Len(parsed)
    <3>1. Len(parsed') = Len(parsed) + 1
      BY <1>2, <2>2
    <3> QED BY <1>2, <1>8, <3>1
  <2>4. parsed'[n] = [lines |-> g, no |-> Len(seen) + 1, left |-> left]
    BY <1>2, <2>2, <2>3
  <2>5. parsed'[n].no = Len(seen) + 1 /\ parsed'[n].lines = b /\ ~left
    BY <2>1, <2>4
  <2>6. MessageAt(seen', descr, End(Len(parsed)), From, Len(seen) + 1)
    BY <1>3, <2>2, <2>5, CompleteIsMessage
  <2>7. End(n - 1)' = End(Len(parsed))
    <3> DEFINE l == n - 1
    <3>1. l = Len(parsed) /\ l \in 0..Len(parsed)
      BY <1>2, <2>3
    <3> HIDE DEF l
    <3>2. End(l)' = End(l)
      BY <1>3, <3>1, GivenKept
    <3> QED BY <3>1, <3>2 DEF l
  <2> QED BY <1>1, <1>4, <2>2, <2>5, <2>6, <2>7
<1> QED BY <1>7, <1>8

LEMMA CurrentKept ==
    ASSUME ParserTypeOK, ParserInv, NEW kind \in LineKinds, TryMessageParse(kind)
    PROVE  Current'
<1> DEFINE b == Append(msg_buff, Fed(kind))
           L == Len(seen) + 1
<1>1. /\ seen \in Seq(Line) /\ seen' \in Seq(Line) /\ Longer(seen, seen')
      /\ Len(seen) \in Nat /\ Len(seen') = L /\ descr' = descr
      /\ seen'[L].kind = kind
  <2>1. Fed(kind).kind = kind
    BY DEF Fed
  <2> QED BY <2>1, FedLine DEF ParserTypeOK, Longer
<1>2. /\ b \in Seq(Line) /\ parsed \in Seq(Given) /\ Len(parsed) \in Nat
      /\ Len(b) = Len(msg_buff) + 1 /\ Len(msg_buff) \in Nat /\ b # NoBuffer
  BY FedLine, AppendProperties DEF ParserTypeOK, NoBuffer
<1>3. End(Len(parsed)) \in 0..Len(seen)
  BY <1>2, EndIsPlace DEF ParserInv
<1> HIDE DEF b
<1> SUFFICES ASSUME ~left' PROVE Current'
  BY DEF Current
<1>4. Current /\ Runs /\ Leftover
  BY DEF ParserInv
<1>5. CASE ~InMessage(kind) /\ Skipped
  <2>1. msg_buff = NoBuffer /\ msg_buff' = NoBuffer /\ ~IsOpen(kind) /\ parsed' = parsed
    BY <1>5 DEF InMessage, Begins, storage, Skipped
  <2>2. \A i \in (End(Len(parsed)) + 1)..Len(seen) : ~IsOpen(seen[i].kind)
    <3>1. ~left
      BY <1>5 DEF Skipped
    <3> QED BY <1>4, <2>1, <3>1 DEF Current
  <2>3. End(Len(parsed))' = End(Len(parsed))
    BY <2>1 DEF End
  <2>4. \A i \in (End(Len(parsed)) + 1)..L : ~IsOpen(seen'[i].kind)
    <3>1. \A i \in (End(Len(parsed)) + 1)..L :
             i = L \/ (i \in 1..Len(seen) /\ i \in (End(Len(parsed)) + 1)..Len(seen))
      BY <1>1, <1>3
    <3>2. \A i \in 1..Len(seen) : seen'[i] = seen[i]
      BY <1>1 DEF Longer
    <3> QED BY <1>1, <2>1, <2>2, <3>1, <3>2
  <2> QED BY <1>1, <2>1, <2>3, <2>4 DEF Current
<1>6. ASSUME /\ InMessage(kind) /\ ~Complete(kind) /\ ~left
             /\ msg_buff' = b
             /\ do_decrement' = Counting(kind)
             /\ line_count' = IF Counting(kind) THEN Count(kind) - 1
                              ELSE Count(kind)
             /\ parsed' = parsed
      PROVE  Current'
  <2>1. Start' = From
    <3>1. Start' = L - (Len(msg_buff) + 1) + 1
      BY <1>1, <1>2, <1>6 DEF Start
    <3> QED BY <1>1, <1>2, <3>1 DEF From
  <2>2. End(Len(parsed))' = End(Len(parsed))
    BY <1>6 DEF End
  <2>3. FirstOpen(seen', End(Len(parsed)), From)
    BY <1>4, <1>6, LineCounted DEF ParserInv
  <2>4. CASE Counting(kind)
    <3>1. PICK c \in From..L :
             /\ CountedFrom(seen', descr, From, c)
             /\ Count(kind) - 1 = descr.line_count - (Len(seen) + 2 - c)
      BY <1>4, <1>6, <2>4, LineCounted DEF ParserInv
    <3>2. do_decrement' /\ line_count' = Count(kind) - 1
      BY <1>6, <2>4
    <3>3. line_count' > 0
      <4>1. Count(kind) \in Int
        BY MessageParserAssumption DEF Count, ParserTypeOK
      <4>2. ~(Count(kind) - 1 <= 0)
        BY <1>6, <2>4 DEF Complete
      <4> QED BY <3>2, <4>1, <4>2
    <3>4. line_count' = descr.line_count - (L - c + 1)
      <4>1. From \in Int /\ c \in Int
        BY <1>1, <1>2 DEF From
      <4>2. Len(seen) + 2 - c = L - c + 1
        BY <1>1, <4>1
      <4> QED BY <3>1, <3>2, <4>2
    <3>5. Collecting'
      BY <1>1, <2>1, <3>1, <3>2, <3>3, <3>4 DEF Collecting
    <3> QED BY <1>2, <1>6, <2>1, <2>2, <2>3, <3>5 DEF Current
  <2>5. CASE ~Counting(kind)
    <3>1. /\ descr.close_tag /\ Count(kind) = descr.line_count
          /\ \A i \in From..L : ~IsClose(seen'[i].kind)
      BY <1>4, <1>6, <2>5, LineCounted DEF ParserInv
    <3>2. ~do_decrement' /\ line_count' = Count(kind)
      BY <1>6, <2>5
    <3>3. Collecting'
      BY <1>1, <2>1, <3>1, <3>2 DEF Collecting
    <3> QED BY <1>2, <1>6, <2>1, <2>2, <2>3, <3>3 DEF Current
  <2> QED BY <2>4, <2>5
<1>7. ASSUME NEW g \in Seq(Line), Gives(kind, g) PROVE Current'
  <2>1. parsed' = Append(parsed, [lines |-> g, no |-> Len(seen) + 1, left |-> left])
    BY <1>7 DEF Gives
  <2>2. Len(parsed') = Len(parsed) + 1 /\ parsed'[Len(parsed) + 1].no = L
    BY <1>2, <2>1
  <2>3. msg_buff' = NoBuffer
    BY <1>7 DEF Gives, ParseReturns, ParseRaises
  <2>4. End(Len(parsed))' = L
    <3>1. Len(parsed') # 0
      BY <1>2, <2>2
    <3> QED BY <2>2, <3>1 DEF End
  <2>5. \A i \in (L + 1)..L : FALSE
    BY <1>1
  <2> QED BY <1>1, <2>3, <2>4, <2>5 DEF Current
<1>8. CASE Collects(kind) /\ ~left /\ msg_buff' = b
  BY <1>6, <1>8 DEF Collects
<1>9. CASE \E g \in Seq(Line) : Gives(kind, g)
  BY <1>7, <1>9
<1> QED BY <1>4, <1>5, <1>8, <1>9, Outcome DEF b

LEMMA NextParser ==
    ParserTypeOK /\ ParserInv /\ [ParserNext]_parserVars => ParserInv'
<1> SUFFICES ASSUME ParserTypeOK, ParserInv, [ParserNext]_parserVars
             PROVE  ParserInv'
  OBVIOUS
<1>1. ASSUME NEW kind \in LineKinds, TryMessageParse(kind) PROVE ParserInv'
  <2>1. NumberedLines' /\ Runs' /\ Leftover' /\ GivenAgain'
    BY <1>1, NumbersKept, RunsKept, LeftoverKept, AgainKept DEF ParserInv
  <2>2. Described' /\ Current'
    BY <1>1, DescribedKept, CurrentKept
  <2> QED BY <2>1, <2>2 DEF ParserInv
<1>2. ASSUME \/ RepeatTest
             \/ UNCHANGED parserVars
      PROVE  ParserInv'
  <2>1. /\ UNCHANGED <<descr, seen, parsed, left>>
        /\ UNCHANGED <<msg_buff, line_count, do_decrement, pos>>
    BY <1>2 DEF RepeatTest, parserVars, storage
  <2>2. \A n \in 0..Len(parsed) : End(n)' = End(n)
    BY <2>1 DEF End
  <2>3. NumberedLines'
    BY <2>1 DEF ParserInv, NumberedLines
  <2>4. Start' = Start
    BY <2>1 DEF Start
  <2>5. Runs'
    BY <2>1, <2>4 DEF ParserInv, Runs
  <2>6. End(Len(parsed))' = End(Len(parsed))
    BY <2>1 DEF End
  <2>7. Described'
    <3>1. \A n \in 1..Len(parsed) : End(n - 1)' = End(n - 1)
      BY <2>1 DEF End
    <3> QED BY <2>1, <3>1 DEF ParserInv, Described
  <2>8. Collecting' = Collecting
    BY <2>1, <2>4 DEF Collecting
  <2>9. Current'
    BY <2>1, <2>4, <2>6, <2>8, Zenon DEF ParserInv, Current
  <2>10. Leftover' /\ GivenAgain'
    BY <2>1, Zenon DEF ParserInv, Leftover, GivenAgain
  <2> QED BY <2>3, <2>5, <2>7, <2>9, <2>10 DEF ParserInv
<1> QED BY <1>1, <1>2 DEF ParserNext, LinesEnded

LEMMA ParserBegins == ParserInit => ParserTypeOK /\ ParserInv
<1> SUFFICES ASSUME ParserInit PROVE ParserTypeOK /\ ParserInv
  OBVIOUS
<1>1. ParserTypeOK
  <2>1. /\ <<>> \in Seq(Line) /\ <<>> \in Seq(Given) /\ NoBuffer = <<>>
        /\ 0 \in 0..Len(<<>>)
    BY DEF NoBuffer
  <2>2. 1 \in 1..MaxAttempts /\ 0 \in Int
    BY MessageParserAssumption
  <2>3. FALSE \in BOOLEAN
    OBVIOUS
  <2> QED BY <2>1, <2>2, <2>3, Zenon DEF ParserInit, ParserTypeOK
<1>2. Len(seen) = 0 /\ Len(parsed) = 0 /\ \A i \in 1..0 : FALSE
  BY EmptySeq DEF ParserInit
<1>3. NumberedLines /\ Runs /\ Described /\ GivenAgain /\ Leftover
  <2>1. pos = Len(msg_buff) /\ ~left
    BY DEF ParserInit, NoBuffer
  <2>2. msg_buff = NoBuffer
    BY DEF ParserInit
  <2> QED BY <1>2, <2>1, <2>2 DEF NumberedLines, Runs, Described, GivenAgain, Leftover
<1>4. Current
  <2>1. End(Len(parsed)) = 0 /\ \A i \in (0 + 1)..0 : FALSE
    BY <1>2 DEF End
  <2> QED BY <1>2, <2>1 DEF Current, ParserInit
<1> QED BY <1>1, <1>3, <1>4 DEF ParserInv, ParserInit

(* The operators of the property say the same as the invariant. *)
LEMMA StartsThere ==
    ASSUME ParserTypeOK, NEW p \in Nat, NEW k \in 1..Len(seen),
           FirstOpen(seen, p, k)
    PROVE  StartAfter(p) = k
<1> DEFINE starts == {m \in (p + 1)..Len(seen) : Opens(m)}
<1>1. Len(seen) \in Nat
  BY DEF ParserTypeOK
<1>2. k \in starts
  BY <1>1 DEF FirstOpen, Opens
<1>3. \A m \in starts : m \in Nat /\ k <= m
  <2> SUFFICES ASSUME NEW m \in starts PROVE m \in Nat /\ k <= m
    OBVIOUS
  <2>1. m \in (p + 1)..Len(seen) /\ IsOpen(seen[m].kind)
    BY DEF Opens
  <2>2. ~(m \in (p + 1)..(k - 1))
    BY <2>1 DEF FirstOpen
  <2> QED BY <1>1, <2>1, <2>2
<1>4. StartAfter(p) = IF starts = {} THEN 0 ELSE Min(starts)
  BY DEF StartAfter
<1> HIDE DEF starts
<1>5. Min(starts) \in starts /\ \A x \in starts : Min(starts) <= x
  <2>1. starts \in SUBSET Nat /\ starts # {}
    BY <1>2, <1>3
  <2> QED BY <2>1, Least
<1>6. Min(starts) = k
  <2>1. Min(starts) \in Nat /\ k <= Min(starts) /\ Min(starts) <= k
    BY <1>2, <1>3, <1>5
  <2>2. \A x, y \in Nat : x <= y /\ y <= x => y = x
    OBVIOUS
  <2>3. k \in Nat
    BY <1>2, <1>3
  <2> QED BY <2>1, <2>2, <2>3
<1> QED BY <1>2, <1>4, <1>6

LEMMA StartsNowhere ==
    ASSUME ParserTypeOK, NEW p \in Nat,
           \A i \in (p + 1)..Len(seen) : ~IsOpen(seen[i].kind)
    PROVE  StartAfter(p) = 0
BY DEF StartAfter, Opens

LEMMA ClosesThere ==
    ASSUME ParserTypeOK, NEW k \in 1..Len(seen), NEW c \in k..Len(seen),
           FirstClose(seen, k, c)
    PROVE  Closes(k) = c
<1> DEFINE ends == {m \in k..Len(seen) : IsClose(seen[m].kind)}
<1>1. Len(seen) \in Nat
  BY DEF ParserTypeOK
<1>2. c \in ends
  BY <1>1 DEF FirstClose
<1>3. \A m \in ends : m \in Nat /\ c <= m
  <2> SUFFICES ASSUME NEW m \in ends PROVE m \in Nat /\ c <= m
    OBVIOUS
  <2>1. m \in k..Len(seen) /\ IsClose(seen[m].kind)
    OBVIOUS
  <2>2. ~(m \in k..(c - 1))
    BY <2>1 DEF FirstClose
  <2> QED BY <1>1, <2>1, <2>2
<1>4. Closes(k) = IF ends = {} THEN 0 ELSE Min(ends)
  BY DEF Closes
<1> HIDE DEF ends
<1>5. Min(ends) \in ends /\ \A x \in ends : Min(ends) <= x
  <2>1. ends \in SUBSET Nat /\ ends # {}
    BY <1>2, <1>3
  <2> QED BY <2>1, Least
<1>6. Min(ends) = c
  <2>1. Min(ends) \in Nat /\ c <= Min(ends) /\ Min(ends) <= c
    BY <1>2, <1>3, <1>5
  <2>2. \A x, y \in Nat : x <= y /\ y <= x => y = x
    OBVIOUS
  <2>3. c \in Nat
    BY <1>2, <1>3
  <2> QED BY <2>1, <2>2, <2>3
<1> QED BY <1>2, <1>4, <1>6

LEMMA CountedThere ==
    ASSUME ParserTypeOK, NEW k \in 1..Len(seen), NEW c \in k..Len(seen),
           CountedFrom(seen, descr, k, c)
    PROVE  EndOf(k) = IF c + Behind(descr) > Len(seen) THEN 0
                      ELSE c + Behind(descr)
<1>1. (IF descr.close_tag THEN Closes(k) ELSE k) = c
  BY ClosesThere DEF CountedFrom
<1>2. c # 0
  OBVIOUS
<1>3. Extra = Behind(descr)
  BY DEF Extra, Behind
<1> QED BY <1>1, <1>2, <1>3 DEF EndOf

(* A run is a part of the sequence. *)
LEMMA RunIsPart ==
    ASSUME NEW q \in Seq(Line), NEW s \in Seq(Line), NEW m \in 1..Len(q),
           NEW k \in 1..m, RunOf(q, s, k, m)
    PROVE  s = SubSeq(q, k, m)
<1>1. \A i \in k..m : q[i] \in Line
  OBVIOUS
<1>2. /\ SubSeq(q, k, m) \in Seq(Line) /\ Len(SubSeq(q, k, m)) = m - k + 1
      /\ \A i \in 1..(m - k + 1) : SubSeq(q, k, m)[i] = q[k + i - 1]
  <2>1. k \in Int /\ m \in Int /\ k <= m
    OBVIOUS
  <2> QED BY <1>1, <2>1, SubSeqProperties
<1>3. Len(s) = m - k + 1 /\ \A i \in 1..Len(s) : s[i] = q[k + i - 1]
  BY DEF RunOf
<1> QED BY <1>2, <1>3, SeqEqual

LEMMA DescribedHolds ==
    ASSUME ParserTypeOK, ParserInv PROVE ParsedAsDescribed
<1>1. /\ seen \in Seq(Line) /\ Len(seen) \in Nat /\ Len(parsed) \in Nat
      /\ \A n \in 1..Len(parsed) : parsed[n].lines \in Seq(Line)
      /\ msg_buff \in Seq(Line) /\ descr.line_count \in Nat
  <2>1. \A n \in 1..Len(parsed) : parsed[n] \in Given
    BY DEF ParserTypeOK
  <2> QED BY <2>1, MessageParserAssumption DEF ParserTypeOK, Given
<1>2. \A n \in 0..Len(parsed) : End(n) \in Nat
  BY <1>1, EndIsPlace DEF ParserInv
<1>3. ASSUME NEW n \in 1..Len(parsed), ~parsed[n].left
      PROVE  LET k == StartAfter(End(n - 1)) IN
             k # 0 /\ EndOf(k) # 0 /\ parsed[n].lines = SubSeq(seen, k, EndOf(k))
  <2> DEFINE m == parsed[n].no
  <2>1. m \in 1..Len(seen)
    BY DEF ParserInv, Runs
  <2>2. PICK k \in 1..m : /\ RunOf(seen, parsed[n].lines, k, m)
                          /\ MessageAt(seen, descr, End(n - 1), k, m)
    BY <1>3 DEF ParserInv, Described
  <2> HIDE DEF m
  <2>3. k \in 1..Len(seen) /\ End(n - 1) \in Nat
    <3>1. n - 1 \in 0..Len(parsed)
      BY <1>1
    <3> QED BY <1>1, <1>2, <2>1, <3>1
  <2>4. StartAfter(End(n - 1)) = k
    BY <2>2, <2>3, StartsThere DEF MessageAt
  <2>5. EndOf(k) = m
    <3>1. PICK c \in k..m : CountedFrom(seen, descr, k, c) /\ m = c + Behind(descr)
      BY <2>2 DEF MessageAt
    <3>2. c \in k..Len(seen)
      BY <1>1, <2>1, <2>3
    <3>3. EndOf(k) = IF m > Len(seen) THEN 0 ELSE m
      BY <2>3, <3>1, <3>2, CountedThere
    <3> QED BY <1>1, <2>1, <3>3
  <2>6. parsed[n].lines = SubSeq(seen, k, m)
    BY <1>1, <2>1, <2>2, RunIsPart
  <2>7. k # 0 /\ m # 0
    BY <2>1, <2>3
  <2> QED BY <2>4, <2>5, <2>6, <2>7, Zenon
<1>4. ASSUME ~left, msg_buff = NoBuffer PROVE StartAfter(End(Len(parsed))) = 0
  <2>1. \A i \in (End(Len(parsed)) + 1)..Len(seen) : ~IsOpen(seen[i].kind)
    BY <1>4 DEF ParserInv, Current
  <2> QED BY <1>1, <1>2, <2>1, StartsNowhere
<1>5. ASSUME ~left, msg_buff # NoBuffer
      PROVE  /\ StartAfter(End(Len(parsed))) = Start /\ Start # 0
             /\ EndOf(Start) = 0 /\ msg_buff = SubSeq(seen, Start, Len(seen))
  <2>1. /\ Start \in 1..Len(seen) /\ RunOf(seen, msg_buff, Start, Len(seen))
        /\ FirstOpen(seen, End(Len(parsed)), Start) /\ Collecting
    BY <1>5 DEF ParserInv, Runs, Current
  <2>2. StartAfter(End(Len(parsed))) = Start
    BY <1>1, <1>2, <2>1, StartsThere
  <2>3. msg_buff = SubSeq(seen, Start, Len(seen))
    <3>1. Len(seen) \in 1..Len(seen)
      BY <1>1, <2>1
    <3> QED BY <1>1, <2>1, <3>1, RunIsPart
  <2>4. CASE do_decrement
    <3>1. PICK c \in Start..Len(seen) :
             /\ CountedFrom(seen, descr, Start, c)
             /\ line_count = descr.line_count - (Len(seen) - c + 1)
      BY <2>1, <2>4 DEF Collecting
    <3>2. line_count > 0
      BY <2>1, <2>4 DEF Collecting
    <3>3. c + Behind(descr) > Len(seen)
      BY <1>1, <2>1, <3>1, <3>2 DEF Behind
    <3>4. EndOf(Start) = 0
      BY <2>1, <3>1, <3>3, CountedThere
    <3> QED BY <2>1, <2>2, <2>3, <3>4
  <2>5. CASE ~do_decrement
    <3>1. descr.close_tag /\ \A i \in Start..Len(seen) : ~IsClose(seen[i].kind)
      BY <2>1, <2>5 DEF Collecting
    <3>2. Closes(Start) = 0
      BY <3>1 DEF Closes
    <3>3. EndOf(Start) = 0
      BY <3>1, <3>2 DEF EndOf
    <3> QED BY <2>1, <2>2, <2>3, <3>3
  <2> QED BY <2>4, <2>5
<1> QED BY <1>3, <1>4, <1>5 DEF ParsedAsDescribed

LEMMA LeftoverHolds ==
    ASSUME ParserTypeOK, ParserInv PROVE LeftoverGoesNext
<1>1. Len(parsed) \in Nat /\ \A n \in 1..Len(parsed) : parsed[n].lines \in Seq(Line)
  <2>1. \A n \in 1..Len(parsed) : parsed[n] \in Given
    BY DEF ParserTypeOK
  <2> QED BY <2>1 DEF ParserTypeOK, Given
<1>2. ASSUME NEW n \in 1..Len(parsed), parsed[n].left
      PROVE  /\ n > 1 /\ parsed[n].no = parsed[n - 1].no + 1
             /\ seen[parsed[n].no] \in Range(parsed[n].lines)
  <2>1. /\ n > 1 /\ parsed[n].no = parsed[n - 1].no + 1
        /\ \E i \in 1..Len(parsed[n].lines) :
              parsed[n].lines[i] = seen[parsed[n].no]
    BY <1>2 DEF ParserInv, GivenAgain
  <2>2. DOMAIN parsed[n].lines = 1..Len(parsed[n].lines)
    BY <1>1
  <2> QED BY <2>1, <2>2 DEF Range
<1>3. left => msg_buff # NoBuffer /\ End(Len(parsed)) = Len(seen)
  BY <1>1 DEF ParserInv, Leftover, End
<1> QED BY <1>2, <1>3 DEF LeftoverGoesNext

(* Type correctness of the parser's storage, for any descriptors, lines and *)
(* attempts.                                                                *)
THEOREM ParserTypeCorrect == ParserSpec => []ParserTypeOK
<1>1. ParserInit => ParserTypeOK
  BY ParserBegins
<1>2. ParserTypeOK /\ [ParserNext]_parserVars => ParserTypeOK'
  BY ParserTypes
<1> QED BY <1>1, <1>2, PTL DEF ParserSpec

(* Whatever lines come, and wherever their tags are, the messages that      *)
(* try_message_parse gives to the parsing function are the described ones,  *)
(* but for a buffer at which that function has raised: it goes into the     *)
(* call for the next line, and into no other once that has returned.        *)
THEOREM MessagesAsDescribed == ParserSpec => []MessagesAreRight
<1>1. ParserInit => ParserTypeOK /\ ParserInv
  BY ParserBegins
<1>2. ParserTypeOK /\ ParserInv /\ [ParserNext]_parserVars => (ParserTypeOK /\ ParserInv)'
  BY ParserTypes, NextParser
<1>3. ParserTypeOK /\ ParserInv => MessagesAreRight
  BY DescribedHolds, LeftoverHolds DEF MessagesAreRight
<1> QED BY <1>1, <1>2, <1>3, PTL DEF ParserSpec
=============================================================================

-------------------------- MODULE MqttTestProofs ---------------------------
(***************************************************************************)
(* What is proved of the MQTT test program and its LTE connection, for any *)
(* number of commands, restarts of the modem and failing calls, and any of *)
(* the tests in any order:                                                 *)
(*   MqttTypeCorrect    TypeOK                                             *)
(*   ConnectionKnown    ConnectionIsTrue                                   *)
(*   VerdictJust        VerdictIsJust                                      *)
(***************************************************************************)
EXTENDS MqttTest, SequenceTheorems, FiniteSetTheorems, TLAPS

-----------------------------------------------------------------------------
(* The connection: where the task is, and what it holds there.             *)

Busy == {"initialize", "set_report_restart", "power_on", "wait_restart",
         "set_report_localtime", "radio_on", "wait_radio_on", "activate_pdn",
         "wait_activate"}
Leaving == {"deactivate_pdn", "wait_deactivate", "radio_off",
            "wait_radio_off", "power_off", "finalize"}

(* The calls of app_connect_to_lte are made by "connect", those of          *)
(* app_disconnect_from_lte by "disconnect".                                 *)
Control ==
    /\ main \in {"shell", "connect", "disconnect", "run", "test"}
    /\ g_status \in {0, 1}
    /\ main \in {"shell", "run", "test"} => pc = "idle"
    /\ main = "connect" => pc \in Busy \cup {"mq_create", "err_lte_fin",
                                             "err_fin", "idle", "crashed"}
    /\ main = "disconnect" => pc \in Leaving \cup {"mq_delete", "err_lte_fin",
                                                   "err_fin", "idle"}
    /\ main \in {"connect", "disconnect"} => g_status = 0
    /\ main \in {"run", "test"} => g_status = 1

(* The program is connected, or about to find out that it is. *)
HasConnected ==
    \/ g_status = 1
    \/ main = "connect" /\ pc = "idle" /\ ret = 0

(* The queue exists from app_mq_create to app_mq_delete. *)
QueueUp ==
    mq.up <=> \/ pc \notin {"idle", "mq_create"}
              \/ HasConnected

(* The library is in use from lte_initialize on; it stays so behind a label *)
(* that does not finalize it, and when lte_finalize has failed.             *)
LibraryUp ==
    /\ HasConnected \/ pc \in (Busy \ {"initialize"}) \cup Leaving => initialized
    /\ /\ ~leaked /\ ~orphaned
       /\ \/ pc = "idle" /\ ~HasConnected
          \/ pc \in {"mq_create", "initialize", "mq_delete", "err_fin"}
       => ~initialized

(* Nothing has come in between. *)
Quiet == ~Disturbed

(* The library owes no answer and the queue holds none. *)
Nowhere == requests = {} /\ events = <<>> /\ cb.phase = "none"

(* What a wait for c may be given: the answer to c; for lte_activate_pdn    *)
(* the session that is open.                                                *)
IsAnswer(c, m) ==
    /\ m \in Events
    /\ m.from = c
    /\ c = "activate" /\ m.result = 0 => m.sid = modem.pdn /\ m.sid # Invalid

(* An answer to c is in one place at most. *)
OneAnswer(c) ==
    \/ requests \subseteq {c} /\ events = <<>> /\ cb.phase = "none" /\ mq.msgs = <<>>
    \/ /\ requests = {} /\ cb.phase = "none" /\ mq.msgs = <<>>
       /\ \E m \in Events : IsAnswer(c, m) /\ events = <<m>>
    \/ /\ requests = {} /\ events = <<>> /\ mq.msgs = <<>>
       /\ cb.phase = "send" /\ IsAnswer(c, cb.event)
    \/ Nowhere /\ \E m \in Events : IsAnswer(c, m) /\ mq.msgs = <<m>>

(* Every wait begins with nothing that could be taken for its answer, and   *)
(* no call is left by the ordinary way before it has been answered.         *)
Answers ==
    Quiet =>
        /\ pc \in Waits => OneAnswer(Awaited[pc])
        /\ pc \notin Waits \cup {"err_lte_fin"} => Nowhere
        /\ pc \notin Waits \cup {"err_lte_fin", "err_fin", "mq_delete"} => mq.msgs = <<>>
        /\ pc # "crashed"

Session ==
    Quiet /\ HasConnected => data_pdn_sid = modem.pdn /\ modem.pdn # Invalid

(* A socket is open only while a test uses it. *)
SocketInv ==
    /\ \A s \in Sockets : link[s].open => mqtt_state[s] > 0
    /\ main # "test" => \A s \in Sockets : ~link[s].open /\ mqtt_state[s] = 0

-----------------------------------------------------------------------------
(* The tests. *)

(* A list of sections in which every place is a step, a socket that is      *)
(* connected is one, and only sections that end a connection keep their     *)
(* result in result2.                                                       *)
GoodSteps(sec) ==
    /\ Len(sec.steps) \in Nat \ {0}
    /\ \A j \in 1..Len(sec.steps) :
          /\ sec.steps[j].op = "connect" => sec.steps[j].s \in Sockets
          /\ sec.var = 2 => sec.steps[j].op \in {"unsubscribe", "disconnect"}

GoodTest(secs) ==
    /\ Len(secs) \in Nat \ {0}
    /\ \A i \in 1..Len(secs) : GoodSteps(secs[i])

TableIsGood == \A t \in DOMAIN mqtttest_site : GoodTest(mqtttest_site[t])

(* A test that runs is at one of its steps, or through. *)
InRange ==
    main = "test" =>
        \/ at = Done
        \/ /\ at[1] \in 1..Len(Sections)
           /\ at[2] \in 1..Len(Section.steps)

LinkShape(l) ==
    /\ l = [open |-> l.open, up |-> l.up, subs |-> l.subs, inbox |-> l.inbox]
    /\ l.up => l.open

LteShape ==
    /\ mq \in [up : BOOLEAN, msgs : Seq(Events)]
    /\ LteTypeOK

-----------------------------------------------------------------------------
(* Type correctness of the connection. *)

USE DEF APP_MAX_MQUEUE_MSG

(* The connection starts well typed. *)
LEMMA LteInitType == LteInit => LteShape
<1> SUFFICES ASSUME LteInit PROVE LteShape OBVIOUS
<1>1. <<>> \in Seq(Events) /\ Len(<<>>) = 0
  BY EmptySeq, Zenon
<1>2. restarts \in 0..MaxRestarts /\ faults \in 0..MaxFaults /\ ret \in {0, -1}
  BY LteConstants DEF LteInit
<1>3. mq \in [up : BOOLEAN, msgs : Seq(Events)] /\ Len(mq.msgs) <= 1
  <2>1. mq.msgs = <<>> /\ mq = [up |-> FALSE, msgs |-> <<>>]
    BY DEF LteInit
  <2>2. Len(mq.msgs) = 0
    BY <1>1, <2>1, Zenon
  <2>3. QED
    BY <1>1, <2>1, <2>2
<1>4. QED
  BY <1>1, <1>2, <1>3
     DEF LteInit, LteShape, LteTypeOK, NoCallback, Down, Places

(* What a callback puts on the queue is an event, ... *)
LEMMA EventsAreTyped ==
  ASSUME NEW from \in Callbacks, NEW value \in Results,
         NEW sid \in SessionIds \cup {Invalid}
  PROVE  Event(from, value, sid) \in Events
BY DEF Event, Events

(* ... and it is appended to events. *)
LEMMA RaiseTyped ==
  ASSUME NEW from \in Callbacks, NEW value \in Results,
         NEW sid \in SessionIds \cup {Invalid},
         events \in Seq(Events), Raise(from, value, sid)
  PROVE  events' \in Seq(Events)
BY EventsAreTyped, AppendProperties DEF Raise

(* What is read from the queue. *)
LEMMA HeadTyped ==
  ASSUME LteShape, mq.msgs # <<>>
  PROVE  /\ Head(mq.msgs) \in Events
         /\ Tail(mq.msgs) \in Seq(Events)
         /\ Len(mq.msgs) = 1
         /\ Len(Tail(mq.msgs)) = 0
<1> DEFINE m == mq.msgs
<1>1. m \in Seq(Events) /\ m # <<>> /\ Len(m) <= 1
  BY DEF LteShape, LteTypeOK
<1> HIDE DEF m
<1>2. Head(m) \in Events /\ Tail(m) \in Seq(Events) /\ Len(Tail(m)) = Len(m) - 1
  BY <1>1, HeadTailProperties
<1>3. Len(m) \in Nat /\ Len(m) # 0
  BY <1>1, LenProperties, EmptySeq
<1>4. Len(m) = 1 /\ Len(Tail(m)) = 0
  BY <1>1, <1>2, <1>3
<1>5. QED
  BY <1>2, <1>4 DEF m

(* A call that fails keeps the types. *)
LEMMA FailsType ==
  ASSUME LteShape, NEW label \in Places, NEW leaks \in BOOLEAN,
         FailsWith(label, leaks)
  PROVE  LteShape'
BY LteConstants DEF LteShape, LteTypeOK, FailsWith, Goto

(* lte_finalize leaves nothing behind. *)
LEMMA FinalizedType ==
  ASSUME LteShape, Finalized
  PROVE  /\ initialized' \in BOOLEAN
         /\ modem' \in [power : BOOLEAN, radio : BOOLEAN, pdn : SessionIds \cup {Invalid}]
         /\ requests' \subseteq Callbacks
         /\ events' \in Seq(Events)
         /\ cb' \in [phase : {"none", "vain", "stuck"}]
         /\ taken' \subseteq Callbacks \X Callbacks
         /\ restarted' \in BOOLEAN /\ orphaned' \in BOOLEAN /\ leaked' \in BOOLEAN
<1>1. <<>> \in Seq(Events)
  BY EmptySeq, Zenon
<1>2. QED
  BY <1>1 DEF Finalized, Down, NoCallback

(* Every call into the library keeps the types, ... *)
LEMMA CallStepType ==
  ASSUME LteShape, NEW from, NEW request \in Callbacks, NEW to \in Places,
         CallStep(from, request, to)
  PROVE  LteShape'
<1>1. CASE Fails("err_lte_fin")
  BY <1>1, FailsType DEF Fails, Places
<1>2. CASE ~Fails("err_lte_fin")
  BY <1>2 DEF CallStep, LteShape, LteTypeOK, Goto
<1>3. QED
  BY <1>1, <1>2

(* ... so does every wait for an answer, ... *)
LEMMA WaitType ==
  ASSUME LteShape, NEW place \in Waits \ {"wait_activate"}, app_wait_lte_callback(place)
  PROVE  LteShape'
<1>1. CASE Fails("err_lte_fin")
  BY <1>1, FailsType DEF Fails, Places
<1>2. CASE ~Fails("err_lte_fin")
  <2> DEFINE m == Head(mq.msgs)
  <2>1. /\ mq.msgs # <<>>
        /\ taken' = taken \cup {<<Awaited[place], m.from>>}
        /\ Goto(AfterResult(place, IF m.from = "activate" THEN 0 ELSE m.result))
        /\ mq' = [mq EXCEPT !.msgs = Tail(@)]
        /\ UNCHANGED <<ret, data_pdn_sid, cb, initialized, modem, requests,
                       events, restarts, faults, dropped, restarted, orphaned, leaked>>
    BY <1>2 DEF app_wait_lte_callback
  <2>2. /\ m \in Events /\ Tail(mq.msgs) \in Seq(Events)
        /\ Len(Tail(mq.msgs)) = 0
    BY <2>1, HeadTyped
  <2> HIDE DEF m
  <2>3. Awaited[place] \in Callbacks /\ m.from \in Callbacks
    BY <2>2 DEF Awaited, Waits, Events, Callbacks
  <2>4. \A r : AfterResult(place, r) \in Places
    BY DEF AfterResult, AfterWait, Places, Waits, Awaited
  <2>5. pc' \in Places /\ taken' \subseteq Callbacks \X Callbacks
    BY <2>1, <2>3, <2>4 DEF Goto, LteShape, LteTypeOK
  <2>6. /\ mq' \in [up : BOOLEAN, msgs : Seq(Events)]
        /\ Len(mq'.msgs) <= 1
    BY <2>1, <2>2 DEF LteShape
  <2>7. QED
    BY <2>1, <2>5, <2>6 DEF LteShape, LteTypeOK
<1>3. QED
  BY <1>1, <1>2

(* ... the wait for the session id, ... *)
LEMMA WaitParameterType ==
  ASSUME LteShape, app_wait_lte_callback_with_parameter
  PROVE  LteShape'
<1>1. CASE Fails("err_lte_fin")
  BY <1>1, FailsType DEF Fails, Places
<1>2. CASE ~Fails("err_lte_fin")
  <2> DEFINE m == Head(mq.msgs)
  <2>1. /\ pc = "wait_activate"
        /\ mq.msgs # <<>>
        /\ taken' = taken \cup {<<"activate", m.from>>}
        /\ mq' = [mq EXCEPT !.msgs = Tail(@)]
        /\ UNCHANGED <<cb, initialized, modem, requests, events, restarts,
                       faults, dropped, restarted, orphaned, leaked>>
    BY <1>2 DEF app_wait_lte_callback_with_parameter
  <2>2. \/ data_pdn_sid' = ReceivedSid(m) /\ Goto(AfterResult(pc, m.result))
           /\ ret' = IF m.result = 1 THEN ret ELSE 0
        \/ \E r \in Results : /\ data_pdn_sid' = Garbage
                              /\ Goto(AfterResult(pc, r))
                              /\ ret' = IF r = 1 THEN ret ELSE 0
        \/ Goto("crashed") /\ UNCHANGED <<ret, data_pdn_sid>>
    BY <1>2 DEF app_wait_lte_callback_with_parameter
  <2>3. /\ m \in Events /\ Tail(mq.msgs) \in Seq(Events)
        /\ Len(Tail(mq.msgs)) = 0
    BY <2>1, HeadTyped
  <2> HIDE DEF m
  <2>4. m.from \in Callbacks /\ m.sid \in SessionIds \cup {Invalid}
    BY <2>3 DEF Events
  <2>5. \A r : AfterResult(pc, r) \in Places
    BY <2>1 DEF AfterResult, AfterWait, Places
  <2>6. /\ pc' \in Places /\ ret' \in {0, -1}
        /\ data_pdn_sid' \in SessionIds \cup {Invalid, Garbage}
    <3>1. CASE data_pdn_sid' = ReceivedSid(m) /\ Goto(AfterResult(pc, m.result))
               /\ ret' = IF m.result = 1 THEN ret ELSE 0
      BY <3>1, <2>4, <2>5 DEF Goto, ReceivedSid, LteShape, LteTypeOK
    <3>2. CASE \E r \in Results : /\ data_pdn_sid' = Garbage
                                  /\ Goto(AfterResult(pc, r))
                                  /\ ret' = IF r = 1 THEN ret ELSE 0
      BY <3>2, <2>5 DEF Goto, LteShape, LteTypeOK
    <3>3. CASE Goto("crashed") /\ UNCHANGED <<ret, data_pdn_sid>>
      BY <3>3 DEF Goto, Places, LteShape, LteTypeOK
    <3>4. QED
      BY <2>2, <3>1, <3>2, <3>3
  <2>7. taken' \subseteq Callbacks \X Callbacks
    BY <2>1, <2>4 DEF LteShape, LteTypeOK, Callbacks
  <2>8. /\ mq' \in [up : BOOLEAN, msgs : Seq(Events)]
        /\ Len(mq'.msgs) <= 1
    BY <2>1, <2>3 DEF LteShape
  <2>9. QED
    BY <2>1, <2>6, <2>7, <2>8 DEF LteShape, LteTypeOK
<1>3. QED
  BY <1>1, <1>2

(* A queue that has just been opened is empty. *)
LEMMA EmptyQueue ==
  ASSUME NEW q, NEW up \in BOOLEAN, q = [up |-> up, msgs |-> <<>>]
  PROVE  q \in [up : BOOLEAN, msgs : Seq(Events)] /\ Len(q.msgs) <= 1
<1>1. <<>> \in Seq(Events) /\ Len(<<>>) = 0
  BY EmptySeq, Zenon
<1>2. q.msgs = <<>>
  OBVIOUS
<1>3. Len(q.msgs) = 0
  BY <1>1, <1>2, Zenon
<1>4. QED
  BY <1>1, <1>3

(* ... every step of the application, ... *)
LEMMA AppStepType ==
  ASSUME LteShape, AppStep
  PROVE  LteShape'
<1>0. <<>> \in Seq(Events) /\ Len(<<>>) = 0
  BY EmptySeq, Zenon
<1>1. CASE app_mq_create
  <2>1. faults' \in 0..MaxFaults /\ ret' \in {0, -1}
    BY <1>1, LteConstants DEF app_mq_create, Returns, LteShape, LteTypeOK
  <2>2. mq' = mq \/ mq' = [up |-> TRUE, msgs |-> <<>>]
    BY <1>1 DEF app_mq_create
  <2>3. mq' \in [up : BOOLEAN, msgs : Seq(Events)] /\ Len(mq'.msgs) <= 1
    <3>1. CASE mq' = mq
      BY <3>1 DEF LteShape, LteTypeOK
    <3>2. CASE mq' = [up |-> TRUE, msgs |-> <<>>]
      BY <3>2, EmptyQueue
    <3>3. QED
      BY <2>2, <3>1, <3>2
  <2>4. QED
    BY <1>1, <2>1, <2>3
       DEF app_mq_create, Returns, Goto, LteShape, LteTypeOK, Places
<1>2. CASE lte_initialize
  BY <1>2, FailsType DEF Fails, lte_initialize, Goto, LteShape, LteTypeOK, Places
<1>3. CASE lte_set_report_restart
  BY <1>3, FailsType DEF Fails, lte_set_report_restart, Goto, LteShape, LteTypeOK, Places
<1>4. CASE lte_set_report_localtime
  BY <1>4, FailsType DEF Fails, lte_set_report_localtime, Goto, LteShape, LteTypeOK, Places
<1>5. CASE lte_power_on \/ lte_radio_on \/ lte_activate_pdn \/ lte_deactivate_pdn
           \/ lte_radio_off
  <2>1. \A from : \A request \in Callbacks : \A to \in Waits :
           CallStep(from, request, to) => LteShape'
    BY CallStepType DEF Places
  <2>2. QED
    BY <1>5, <2>1 DEF lte_power_on, lte_radio_on, lte_activate_pdn,
                      lte_deactivate_pdn, lte_radio_off, Callbacks, Waits, Awaited
<1>6. CASE \E place \in Waits \ {"wait_activate"} : app_wait_lte_callback(place)
  BY <1>6, WaitType
<1>7. CASE app_wait_lte_callback_with_parameter
  BY <1>7, WaitParameterType
<1>8. CASE lte_power_off
  <2>1. CASE Fails("err_lte_fin")
    BY <2>1, FailsType DEF Fails, Places
  <2>2. CASE ~Fails("err_lte_fin")
    <3>1. modem' = Down
      BY <1>8, <2>2 DEF lte_power_off
    <3>2. modem' \in [power : BOOLEAN, radio : BOOLEAN, pdn : SessionIds \cup {Invalid}]
      BY <3>1 DEF Down
    <3>3. QED
      BY <1>0, <1>8, <2>2, <3>2 DEF lte_power_off, Goto, LteShape, LteTypeOK, Places
  <2>3. QED
    BY <2>1, <2>2
<1>9. CASE lte_finalize
  <2>1. CASE FailsWith("err_fin", TRUE)
    BY <2>1, FailsType DEF Places
  <2>2. CASE ~FailsWith("err_fin", TRUE)
    BY <1>9, <2>2, FinalizedType DEF lte_finalize, Goto, LteShape, LteTypeOK, Places
  <2>3. QED
    BY <2>1, <2>2
<1>10. CASE errout_with_lte_fin
  <2>1. faults' \in 0..MaxFaults
    BY <1>10, LteConstants DEF errout_with_lte_fin, LteShape, LteTypeOK
  <2>2. CASE Finalized
    BY <1>10, <2>1, <2>2, FinalizedType
       DEF errout_with_lte_fin, Goto, LteShape, LteTypeOK, Places
  <2>3. CASE ~Finalized
    BY <1>10, <2>1, <2>3
       DEF errout_with_lte_fin, Goto, LteShape, LteTypeOK, Places
  <2>4. QED
    BY <2>2, <2>3
<1>11. CASE app_mq_delete
  BY <1>0, <1>11 DEF app_mq_delete, Returns, Goto, LteShape, LteTypeOK, Places
<1>12. QED
  BY <1>1, <1>2, <1>3, <1>4, <1>5, <1>6, <1>7, <1>8, <1>9, <1>10, <1>11 DEF AppStep

(* ... of a callback, ... *)
LEMMA CallbackStepType ==
  ASSUME LteShape, CallbackStep
  PROVE  LteShape'
<1>1. CASE CallbackOpens
  <2>1. /\ events \in Seq(Events) /\ events # <<>> /\ events' = Tail(events)
    BY <1>1 DEF CallbackOpens, LteShape, LteTypeOK
  <2>2. events' \in Seq(Events) /\ Head(events) \in Events
    BY <2>1, HeadTailProperties
  <2>3. \/ cb' \in [phase : {"none", "vain", "stuck"}]
        \/ cb' \in [phase : {"send"}, event : Events]
    BY <1>1, <2>2 DEF CallbackOpens, LteShape, LteTypeOK
  <2>4. dropped' \in BOOLEAN
    BY <1>1 DEF CallbackOpens, LteShape, LteTypeOK
  <2>5. faults' \in 0..MaxFaults
    <3>1. faults' = faults \/ (faults < MaxFaults /\ faults' = faults + 1)
      BY <1>1 DEF CallbackOpens
    <3>2. QED
      BY <3>1, LteConstants DEF LteShape, LteTypeOK
  <2>6. QED
    BY <1>1, <2>2, <2>3, <2>4, <2>5 DEF CallbackOpens, LteShape, LteTypeOK
<1>2. CASE app_mq_notify
  <2> DEFINE m == mq.msgs
  <2>1. /\ m \in Seq(Events) /\ Len(m) < 1 /\ cb.event \in Events
        /\ mq' = [mq EXCEPT !.msgs = Append(m, cb.event)]
    BY <1>2 DEF app_mq_notify, LteShape, LteTypeOK
  <2>2. mq'.msgs = Append(m, cb.event)
    BY <2>1 DEF LteShape
  <2>3. mq' \in [up : BOOLEAN, msgs : Seq(Events)] /\ Len(mq'.msgs) <= 1
    <3> HIDE DEF m
    <3>1. Append(m, cb.event) \in Seq(Events) /\ Len(Append(m, cb.event)) = Len(m) + 1
      BY <2>1, AppendProperties
    <3>2. Len(m) \in Nat
      BY <2>1, LenProperties
    <3>3. QED
      BY <2>1, <2>2, <3>1, <3>2 DEF LteShape
  <2>4. QED
    BY <1>2, <2>3 DEF app_mq_notify, LteShape, LteTypeOK, NoCallback
<1>3. CASE SendInVain
  BY <1>3 DEF SendInVain, LteShape, LteTypeOK, NoCallback
<1>4. QED
  BY <1>1, <1>2, <1>3 DEF CallbackStep

(* ... every answer of the modem ... *)
LEMMA ModemAnswersType ==
  ASSUME LteShape, ModemAnswers
  PROVE  LteShape'
<1>1. PICK q \in requests :
        /\ requests' = requests \ {q}
        /\ \/ /\ modem' = [Down EXCEPT !.power = TRUE]
              /\ Raise("restart", 0, Invalid)
           \/ /\ modem' = [modem EXCEPT !.radio = TRUE]
              /\ Raise("radio_on", 0, Invalid)
           \/ \E s \in SessionIds : /\ modem' = [modem EXCEPT !.pdn = s]
                                    /\ Raise("activate", 0, s)
           \/ /\ modem' = [modem EXCEPT !.pdn = Invalid]
              /\ Raise("deactivate", 0, Invalid)
           \/ /\ modem' = [modem EXCEPT !.radio = FALSE, !.pdn = Invalid]
              /\ Raise("radio_off", 0, Invalid)
           \/ Raise(q, 1, Invalid) /\ UNCHANGED modem
        /\ UNCHANGED <<pc, ret, data_pdn_sid, mq, cb, initialized, taken,
                       restarts, faults, dropped, restarted, orphaned, leaked>>
  BY DEF ModemAnswers
<1>2. q \in Callbacks /\ requests' \subseteq Callbacks
  BY <1>1 DEF LteShape, LteTypeOK
<1>3. modem' \in [power : BOOLEAN, radio : BOOLEAN, pdn : SessionIds \cup {Invalid}]
  BY <1>1 DEF LteShape, LteTypeOK, Down
<1>4. \A from \in Callbacks, value \in Results, sid \in SessionIds \cup {Invalid} :
         Raise(from, value, sid) => events' \in Seq(Events)
  BY RaiseTyped DEF LteShape, LteTypeOK
<1>5. events' \in Seq(Events)
  BY <1>1, <1>2, <1>4 DEF Callbacks, Results
<1>6. QED
  BY <1>1, <1>2, <1>3, <1>5 DEF LteShape, LteTypeOK

(* ... and its restarts. *)
LEMMA ModemRestartsType ==
  ASSUME LteShape, ModemRestartsBySelf
  PROVE  LteShape'
<1>1. events' \in Seq(Events)
  BY RaiseTyped DEF ModemRestartsBySelf, LteShape, LteTypeOK, Callbacks, Results
<1>2. restarts' \in 0..MaxRestarts
  BY LteConstants DEF ModemRestartsBySelf, LteShape, LteTypeOK
<1>3. modem' \in [power : BOOLEAN, radio : BOOLEAN, pdn : SessionIds \cup {Invalid}]
  BY DEF ModemRestartsBySelf, Down
<1>4. QED
  BY <1>1, <1>2, <1>3 DEF ModemRestartsBySelf, LteShape, LteTypeOK
-----------------------------------------------------------------------------
(* Where the task is, and the queue and the library with it. *)

Steady == Control /\ QueueUp /\ LibraryUp
Answering == Answers /\ Session /\ OwnAnswers

(* The waits, one by one, and the answers they are for. *)
LEMMA WaitsAre ==
  /\ Waits = {"wait_restart", "wait_radio_on", "wait_activate",
              "wait_deactivate", "wait_radio_off"}
  /\ Awaited["wait_restart"] = "restart"
  /\ Awaited["wait_radio_on"] = "radio_on"
  /\ Awaited["wait_activate"] = "activate"
  /\ Awaited["wait_deactivate"] = "deactivate"
  /\ Awaited["wait_radio_off"] = "radio_off"
BY DEF Waits, Awaited

(* Where a wait goes on, by the result it takes. *)
LEMMA WhereResultsLead ==
  /\ \A r : AfterResult("wait_restart", r) = "set_report_localtime"
  /\ \A r : AfterResult("wait_radio_on", r) \in {"activate_pdn", "err_lte_fin"}
  /\ AfterResult("wait_activate", 1) = "err_lte_fin"
  /\ \A r : r # 1 => AfterResult("wait_activate", r) = "idle"
  /\ \A r : AfterResult("wait_deactivate", r) \in {"radio_off", "err_lte_fin"}
  /\ \A r : AfterResult("wait_radio_off", r) \in {"power_off", "err_lte_fin"}
BY DEF AfterResult, AfterWait

(* A call that fails goes to one of the labels, with everything as it was. *)
LEMMA FailsSteady ==
  ASSUME LteShape, Steady, NEW label \in {"err_lte_fin", "err_fin"},
         NEW leaks \in BOOLEAN, FailsWith(label, leaks),
         label = "err_fin" => leaks \/ pc = "initialize",
         pc \in Busy \cup Leaving, UNCHANGED <<main, g_status>>
  PROVE  Steady'
<1>1. pc' = label /\ leaked' = (leaked \/ leaks)
  BY DEF FailsWith, Goto
<1>2. UNCHANGED <<ret, mq, initialized, orphaned>>
  BY DEF FailsWith
<1>3. Control'
  BY <1>1 DEF Steady, Control, Busy, Leaving
<1>4. HasConnected' <=> HasConnected
  BY <1>1, <1>2 DEF HasConnected, Busy, Leaving
<1>5. QueueUp'
  BY <1>1, <1>2, <1>4, Zenon DEF Steady, QueueUp, Busy, Leaving
<1>6. LibraryUp'
  BY <1>1, <1>2, <1>4 DEF Steady, LibraryUp, HasConnected, Control, Busy, Leaving
<1>7. QED
  BY <1>3, <1>5, <1>6 DEF Steady

(* A step that leads from one call to the next, or to the end. *)
LEMMA GoesOnSteady ==
  ASSUME LteShape, Steady,
         UNCHANGED <<main, g_status, initialized, orphaned, leaked>>,
         mq'.up <=> mq.up,
         \/ pc \in Busy \ {"initialize"}
            /\ pc' \in (Busy \ {"initialize"}) \cup {"err_lte_fin"}
         \/ pc \in Leaving /\ pc' \in Leaving \cup {"err_lte_fin"}
  PROVE  Steady'
<1>1. Control'
  BY DEF Steady, Control, Busy, Leaving
<1>2. ~HasConnected /\ ~HasConnected'
  BY DEF Steady, Control, HasConnected, Busy, Leaving
<1>3. QueueUp'
  BY <1>2 DEF Steady, QueueUp, Busy, Leaving
<1>4. LibraryUp'
  BY <1>2 DEF Steady, LibraryUp, Busy, Leaving
<1>5. QED
  BY <1>1, <1>3, <1>4 DEF Steady

(* The application keeps queue and library in step with its place, ... *)
LEMMA AppStepSteady ==
  ASSUME LteShape, Steady, AppStep, UNCHANGED <<main, g_status>>
  PROVE  Steady'
<1>1. CASE app_mq_create
  <2>1. /\ pc = "mq_create" /\ main = "connect" /\ g_status = 0 /\ ~mq.up
        /\ UNCHANGED <<initialized, orphaned, leaked>>
    BY <1>1 DEF app_mq_create, Steady, Control, QueueUp, HasConnected, Busy, Leaving
  <2>2. CASE pc' = "initialize"
    <3>1. mq'.up
      BY <1>1, <2>2 DEF app_mq_create, Returns, Goto
    <3>2. QED
      BY <2>1, <2>2, <3>1
         DEF Steady, Control, QueueUp, LibraryUp, HasConnected, Busy, Leaving
  <2>3. CASE pc' = "idle" /\ ret' = -1 /\ UNCHANGED mq
    BY <2>1, <2>3 DEF Steady, Control, QueueUp, LibraryUp, HasConnected, Busy, Leaving
  <2>4. QED
    BY <1>1, <2>2, <2>3 DEF app_mq_create, Returns, Goto
<1>2. CASE lte_initialize
  <2>1. CASE Fails("err_fin")
    BY <1>2, <2>1, FailsSteady DEF Fails, lte_initialize, Busy
  <2>2. CASE ~Fails("err_fin")
    <3>1. /\ pc = "initialize" /\ pc' = "set_report_restart" /\ initialized'
          /\ UNCHANGED <<mq, faults, ret>>
      BY <1>2, <2>2 DEF lte_initialize, Goto
    <3>2. ~HasConnected /\ ~HasConnected' /\ main = "connect"
      BY <3>1 DEF Steady, Control, HasConnected, Leaving
    <3>3. QED
      BY <3>1, <3>2 DEF Steady, Control, QueueUp, LibraryUp, Busy, Leaving
  <2>3. QED
    BY <2>1, <2>2
<1>3. CASE lte_set_report_restart
  <2>1. CASE FailsWith("err_fin", TRUE)
    BY <1>3, <2>1, FailsSteady DEF lte_set_report_restart, Busy
  <2>2. CASE ~FailsWith("err_fin", TRUE)
    BY <1>3, <2>2, GoesOnSteady DEF lte_set_report_restart, Goto, Busy
  <2>3. QED
    BY <2>1, <2>2
<1>4. CASE \/ lte_set_report_localtime \/ lte_power_on \/ lte_radio_on
           \/ lte_activate_pdn \/ lte_deactivate_pdn \/ lte_radio_off
  <2>1. pc \in Busy \cup Leaving
    BY <1>4 DEF lte_set_report_localtime, lte_power_on, lte_radio_on, CallStep,
       lte_activate_pdn, lte_deactivate_pdn, lte_radio_off, Busy, Leaving
  <2>2. CASE Fails("err_lte_fin")
    BY <2>1, <2>2, FailsSteady DEF Fails
  <2>3. CASE ~Fails("err_lte_fin")
    <3>1. UNCHANGED <<initialized, orphaned, leaked, mq>>
      BY <1>4, <2>3 DEF lte_set_report_localtime, lte_power_on, lte_radio_on,
         CallStep, lte_activate_pdn, lte_deactivate_pdn, lte_radio_off
    <3>2. \/ pc \in Busy \ {"initialize"} /\ pc' \in Busy \ {"initialize"}
          \/ pc \in Leaving /\ pc' \in Leaving
      BY <1>4, <2>3 DEF lte_set_report_localtime, lte_power_on, lte_radio_on,
         CallStep, lte_activate_pdn, lte_deactivate_pdn, lte_radio_off, Goto,
         Busy, Leaving
    <3>3. QED
      BY <3>1, <3>2, GoesOnSteady
  <2>4. QED
    BY <2>2, <2>3
<1>5. CASE \E place \in Waits \ {"wait_activate"} : app_wait_lte_callback(place)
  <2>1. PICK place \in Waits \ {"wait_activate"} : app_wait_lte_callback(place)
    BY <1>5
  <2>2. pc = place /\ pc \in Busy \cup Leaving
    BY <2>1, WaitsAre DEF app_wait_lte_callback, Busy, Leaving
  <2>3. CASE Fails("err_lte_fin")
    BY <2>2, <2>3, FailsSteady DEF Fails
  <2>4. CASE ~Fails("err_lte_fin")
    <3>1. /\ UNCHANGED <<initialized, orphaned, leaked>>
          /\ mq' = [mq EXCEPT !.msgs = Tail(@)]
          /\ \E r : pc' = AfterResult(place, r)
      BY <2>1, <2>4 DEF app_wait_lte_callback, Goto
    <3>2. mq'.up = mq.up
      BY <3>1 DEF LteShape
    <3>3. \/ place \in Busy \ {"initialize"}
             /\ pc' \in (Busy \ {"initialize"}) \cup {"err_lte_fin"}
          \/ place \in Leaving /\ pc' \in Leaving \cup {"err_lte_fin"}
      BY <3>1, WaitsAre, WhereResultsLead DEF Busy, Leaving
    <3>4. QED
      BY <2>2, <3>1, <3>2, <3>3, GoesOnSteady
  <2>5. QED
    BY <2>3, <2>4
<1>6. CASE app_wait_lte_callback_with_parameter
  <2>1. pc = "wait_activate" /\ pc \in Busy /\ main = "connect" /\ g_status = 0
    BY <1>6 DEF app_wait_lte_callback_with_parameter, Busy, Leaving, Steady, Control
  <2>2. CASE Fails("err_lte_fin")
    BY <2>1, <2>2, FailsSteady DEF Fails
  <2>3. CASE ~Fails("err_lte_fin")
    <3>1. /\ UNCHANGED <<initialized, orphaned, leaked>>
          /\ mq' = [mq EXCEPT !.msgs = Tail(@)]
      BY <1>6, <2>3 DEF app_wait_lte_callback_with_parameter
    <3>2. \/ \E r : pc' = AfterResult(pc, r) /\ ret' = IF r = 1 THEN ret ELSE 0
          \/ pc' = "crashed"
      BY <1>6, <2>3 DEF app_wait_lte_callback_with_parameter, Goto
    <3>3. pc' \in {"err_lte_fin", "crashed"} \/ (pc' = "idle" /\ ret' = 0)
      BY <2>1, <3>2, WhereResultsLead
    <3>4. mq.up /\ initialized
      BY <2>1 DEF Steady, QueueUp, LibraryUp, Busy
    <3>5. mq'.up
      BY <3>1, <3>4 DEF LteShape
    <3>6. QED
      BY <2>1, <3>1, <3>3, <3>4, <3>5
         DEF Steady, Control, QueueUp, LibraryUp, HasConnected, Busy, Leaving
  <2>4. QED
    BY <2>2, <2>3
<1>7. CASE lte_power_off
  <2>1. CASE Fails("err_lte_fin")
    BY <1>7, <2>1, FailsSteady DEF Fails, lte_power_off, Leaving
  <2>2. CASE ~Fails("err_lte_fin")
    BY <1>7, <2>2, GoesOnSteady DEF lte_power_off, Goto, Leaving
  <2>3. QED
    BY <2>1, <2>2
<1>8. CASE lte_finalize
  <2>1. CASE FailsWith("err_fin", TRUE)
    BY <1>8, <2>1, FailsSteady DEF lte_finalize, Leaving
  <2>2. CASE ~FailsWith("err_fin", TRUE)
    <3>1. /\ pc = "finalize" /\ pc' = "mq_delete" /\ ~initialized'
          /\ UNCHANGED <<mq, faults, ret>>
      BY <1>8, <2>2 DEF lte_finalize, Goto, Finalized
    <3>2. main = "disconnect" /\ g_status = 0
      BY <3>1 DEF Steady, Control, Busy
    <3>3. QED
      BY <3>1, <3>2
         DEF Steady, Control, QueueUp, LibraryUp, HasConnected, Busy, Leaving
  <2>3. QED
    BY <2>1, <2>2
<1>9. CASE errout_with_lte_fin
  <2>1. /\ pc = "err_lte_fin" /\ pc' = "err_fin" /\ UNCHANGED <<mq, ret>>
        /\ ~initialized' \/ orphaned'
    BY <1>9 DEF errout_with_lte_fin, Goto, Finalized
  <2>2. main \in {"connect", "disconnect"} \/ main \notin {"shell", "run", "test"}
    BY <2>1 DEF Steady, Control
  <2>3. HasConnected' <=> HasConnected
    BY <2>1 DEF HasConnected
  <2>4. mq.up
    BY <2>1 DEF Steady, QueueUp
  <2>5. HasConnected => initialized /\ g_status = 1
    BY <2>1 DEF HasConnected, Steady, LibraryUp
  <2>6. Control' /\ QueueUp'
    BY <2>1, <2>3, <2>4 DEF Steady, Control, QueueUp, Busy, Leaving
  <2>7. ~HasConnected
    BY <2>1, <2>2 DEF HasConnected, Steady, Control
  <2>8. LibraryUp'
    BY <2>1, <2>3, <2>7 DEF LibraryUp, Busy, Leaving
  <2>9. QED
    BY <2>6, <2>8 DEF Steady
<1>10. CASE app_mq_delete
  <2>1. /\ pc \in {"mq_delete", "err_fin"} /\ pc' = "idle"
        /\ ret' = IF pc = "mq_delete" THEN 0 ELSE -1
        /\ UNCHANGED <<initialized, orphaned, leaked>>
        /\ ~mq'.up
    BY <1>10 DEF app_mq_delete, Returns, Goto
  <2>2. /\ main = "connect" => pc = "err_fin"
        /\ main \notin {"shell", "run", "test"}
    BY <2>1 DEF Steady, Control, Busy
  <2>3. main \in {"connect", "disconnect"} => g_status = 0
    BY DEF Steady, Control
  <2>4. QED
    BY <2>1, <2>2, <2>3
       DEF Steady, Control, QueueUp, LibraryUp, HasConnected, Busy, Leaving
<1>11. QED
  BY <1>1, <1>2, <1>3, <1>4, <1>5, <1>6, <1>7, <1>8, <1>9, <1>10 DEF AppStep
(* ... and so does a callback. *)
LEMMA CallbackStepSteady ==
  ASSUME LteShape, Steady, CallbackStep, UNCHANGED <<main, g_status>>
  PROVE  Steady'
<1>1. /\ UNCHANGED <<pc, ret, initialized, orphaned, leaked>>
      /\ mq'.up = mq.up
  BY DEF CallbackStep, CallbackOpens, app_mq_notify, SendInVain, LteShape
<1>2. QED
  BY <1>1 DEF Steady, Control, QueueUp, LibraryUp, HasConnected

-----------------------------------------------------------------------------
(* Which answer a wait can get. *)

(* Taking from a queue of one. *)
LEMMA OneTuple ==
  ASSUME NEW m, NEW s, s = <<m>>
  PROVE  s # <<>> /\ Head(s) = m /\ Tail(s) = <<>>
OBVIOUS

(* The answer that a wait takes is its own. *)
LEMMA TakesItsOwn ==
  ASSUME Answering, Quiet, pc \in Waits, mq.msgs # <<>>
  PROVE  /\ Nowhere
         /\ IsAnswer(Awaited[pc], Head(mq.msgs))
         /\ Tail(mq.msgs) = <<>>
<1>1. OneAnswer(Awaited[pc])
  BY DEF Answering, Answers
<1>2. PICK m \in Events : Nowhere /\ IsAnswer(Awaited[pc], m) /\ mq.msgs = <<m>>
  BY <1>1 DEF OneAnswer
<1>3. QED
  BY <1>2, OneTuple

(* A step from one call to the next, with nothing owed before or after. *)
LEMMA NothingOwed ==
  ASSUME Answering,
         Quiet => Nowhere',
         pc' \notin Waits \cup {"crashed"},
         Quiet /\ pc' \notin {"err_lte_fin", "err_fin", "mq_delete"} => mq'.msgs = <<>>,
         Quiet' => Quiet,
         Quiet' /\ HasConnected' =>
            data_pdn_sid' = modem'.pdn /\ modem'.pdn # Invalid,
         UNCHANGED taken
  PROVE  Answering'
BY DEF Answering, Answers, Session, OwnAnswers, Quiet, Disturbed

(* A call that fails keeps the answers in order, ... *)
LEMMA FailsAnswering ==
  ASSUME LteShape, Steady, Answering, Fails("err_lte_fin"),
         pc \in Busy \cup Leaving, UNCHANGED <<main, g_status>>
  PROVE  Answering'
<1>1. /\ pc' = "err_lte_fin"
      /\ UNCHANGED <<ret, data_pdn_sid, mq, cb, initialized, modem, requests,
                     events, taken, restarts, dropped, restarted, orphaned>>
  BY DEF Fails, FailsWith, Goto
<1>2. HasConnected' <=> HasConnected
  BY <1>1 DEF HasConnected, Busy, Leaving
<1>3. Quiet' <=> Quiet
  BY <1>1 DEF Quiet, Disturbed
<1>4. Answers'
  BY <1>1, WaitsAre DEF Answers
<1>5. QED
  BY <1>1, <1>2, <1>3, <1>4 DEF Answering, Session, OwnAnswers, Quiet, Disturbed

(* ... so does a call that works, ... *)
LEMMA CallStepAnswering ==
  ASSUME LteShape, Steady, Answering, UNCHANGED <<main, g_status>>,
         NEW from \in (Busy \cup Leaving) \ Waits, NEW request, NEW to \in Waits,
         request = Awaited[to], CallStep(from, request, to)
  PROVE  Answering'
<1>1. CASE Fails("err_lte_fin")
  BY <1>1, FailsAnswering DEF CallStep
<1>2. CASE ~Fails("err_lte_fin")
  <2>1. /\ pc = from /\ pc' = to
        /\ requests' = requests \cup {request}
        /\ UNCHANGED <<ret, data_pdn_sid, mq, cb, initialized, modem, events,
                       taken, restarts, faults, dropped, restarted, orphaned, leaked>>
    BY <1>2 DEF CallStep, Goto
  <2>2. Quiet' <=> Quiet
    BY <2>1 DEF Quiet, Disturbed
  <2>3. Quiet => Nowhere /\ mq.msgs = <<>>
    BY <2>1, WaitsAre DEF Answering, Answers, Busy, Leaving
  <2>4. Quiet => OneAnswer(Awaited[to])'
    BY <2>1, <2>3 DEF OneAnswer, Nowhere
  <2>5. ~HasConnected'
    BY <2>1, WaitsAre DEF HasConnected, Steady, Control, Busy, Leaving
  <2>6. Answers'
    BY <2>1, <2>2, <2>4, WaitsAre DEF Answers
  <2>7. QED
    BY <2>1, <2>2, <2>5, <2>6 DEF Answering, Session, OwnAnswers, Quiet, Disturbed
<1>3. QED
  BY <1>1, <1>2
(* ... a wait that takes its answer, ... *)
LEMMA WaitAnswering ==
  ASSUME LteShape, Steady, Answering, UNCHANGED <<main, g_status>>,
         NEW place \in Waits \ {"wait_activate"}, app_wait_lte_callback(place)
  PROVE  Answering'
<1>1. CASE Fails("err_lte_fin")
  <2>1. pc \in Busy \cup Leaving
    BY WaitsAre DEF app_wait_lte_callback, Busy, Leaving
  <2>2. QED
    BY <1>1, <2>1, FailsAnswering
<1>2. CASE ~Fails("err_lte_fin")
  <2> DEFINE m == Head(mq.msgs)
  <2>1. /\ pc = place /\ mq.msgs # <<>>
        /\ taken' = taken \cup {<<Awaited[place], m.from>>}
        /\ \E r : pc' = AfterResult(place, r)
        /\ mq' = [mq EXCEPT !.msgs = Tail(@)]
        /\ UNCHANGED <<ret, data_pdn_sid, cb, initialized, modem, requests,
                       events, restarts, faults, dropped, restarted, orphaned, leaked>>
    BY <1>2 DEF app_wait_lte_callback, Goto
  <2>2. mq'.msgs = Tail(mq.msgs)
    BY <2>1 DEF LteShape
  <2>3. Quiet => Nowhere /\ m.from = Awaited[place] /\ Tail(mq.msgs) = <<>>
    BY <2>1, TakesItsOwn DEF IsAnswer
  <2> HIDE DEF m
  <2>4. Quiet' <=> Quiet
    BY <2>1 DEF Quiet, Disturbed
  <2>5. Quiet => Nowhere' /\ mq'.msgs = <<>>
    BY <2>1, <2>2, <2>3 DEF Nowhere
  <2>6. pc' \in {"set_report_localtime", "activate_pdn", "radio_off", "power_off",
                 "err_lte_fin"}
    BY <2>1, WaitsAre, WhereResultsLead
  <2>7. ~HasConnected'
    BY <2>1, <2>6, WaitsAre DEF HasConnected, Steady, Control, Busy, Leaving
  <2>8. Answers'
    BY <2>4, <2>5, <2>6, WaitsAre DEF Answers
  <2>9. OwnAnswers'
    <3>1. ASSUME Quiet, NEW t \in taken' PROVE t[1] = t[2]
      <4>1. CASE t \in taken
        BY <3>1, <4>1 DEF Answering, OwnAnswers, Quiet, Disturbed
      <4>2. CASE t = <<Awaited[place], m.from>>
        BY <2>3, <3>1, <4>2
      <4>3. QED
        BY <2>1, <3>1, <4>1, <4>2
    <3>2. QED
      BY <2>4, <3>1 DEF OwnAnswers, Quiet, Disturbed
  <2>10. QED
    BY <2>7, <2>8, <2>9 DEF Answering, Session
<1>3. QED
  BY <1>1, <1>2

(* ... the wait for the session id, ... *)
LEMMA WaitParameterAnswering ==
  ASSUME LteShape, Steady, Answering, UNCHANGED <<main, g_status>>,
         app_wait_lte_callback_with_parameter
  PROVE  Answering'
<1>1. CASE Fails("err_lte_fin")
  BY <1>1, FailsAnswering DEF app_wait_lte_callback_with_parameter, Busy
<1>2. CASE ~Fails("err_lte_fin")
  <2> DEFINE m == Head(mq.msgs)
  <2>1. /\ pc = "wait_activate" /\ mq.msgs # <<>>
        /\ taken' = taken \cup {<<"activate", m.from>>}
        /\ mq' = [mq EXCEPT !.msgs = Tail(@)]
        /\ UNCHANGED <<cb, initialized, modem, requests, events, restarts,
                       faults, dropped, restarted, orphaned, leaked>>
        /\ m.from = "activate" => /\ data_pdn_sid' = m.sid
                                  /\ pc' = AfterResult(pc, m.result)
    BY <1>2 DEF app_wait_lte_callback_with_parameter, Goto, ReceivedSid
  <2>2. mq'.msgs = Tail(mq.msgs)
    BY <2>1 DEF LteShape
  <2>3. Quiet => Nowhere /\ IsAnswer("activate", m) /\ Tail(mq.msgs) = <<>>
    BY <2>1, TakesItsOwn, WaitsAre
  <2> HIDE DEF m
  <2>4. Quiet' <=> Quiet
    BY <2>1 DEF Quiet, Disturbed
  <2>5. Quiet => Nowhere' /\ mq'.msgs = <<>>
    BY <2>1, <2>2, <2>3 DEF Nowhere
  <2>6. Quiet => \/ pc' = "err_lte_fin"
                 \/ pc' = "idle" /\ data_pdn_sid' = modem'.pdn /\ modem'.pdn # Invalid
    <3>1. ASSUME Quiet PROVE m.result \in {0, 1} /\ m.from = "activate"
      BY <2>3, <3>1 DEF IsAnswer, Events, Results
    <3>2. QED
      BY <2>1, <2>3, <3>1, WhereResultsLead DEF IsAnswer
  <2>7. Answers'
    BY <2>4, <2>5, <2>6, WaitsAre DEF Answers
  <2>8. Session'
    <3>1. main = "connect" /\ g_status = 0
      BY <2>1 DEF Steady, Control, Leaving
    <3>2. HasConnected' => pc' = "idle"
      BY <3>1 DEF HasConnected
    <3>3. QED
      BY <2>4, <2>6, <3>2 DEF Session
  <2>9. OwnAnswers'
    <3>1. ASSUME Quiet, NEW t \in taken' PROVE t[1] = t[2]
      <4>1. CASE t \in taken
        BY <3>1, <4>1 DEF Answering, OwnAnswers, Quiet, Disturbed
      <4>2. CASE t = <<"activate", m.from>>
        BY <2>3, <3>1, <4>2 DEF IsAnswer
      <4>3. QED
        BY <2>1, <3>1, <4>1, <4>2
    <3>2. QED
      BY <2>4, <3>1 DEF OwnAnswers, Quiet, Disturbed
  <2>10. QED
    BY <2>7, <2>8, <2>9 DEF Answering
<1>3. QED
  BY <1>1, <1>2

(* ... hence every step of the application, ... *)
LEMMA AppStepAnswering ==
  ASSUME LteShape, Steady, Answering, AppStep, UNCHANGED <<main, g_status>>
  PROVE  Answering'
<1>1. CASE app_mq_create
  <2>1. /\ pc = "mq_create" /\ pc' \in {"initialize", "idle"}
        /\ mq' = mq \/ mq'.msgs = <<>>
        /\ pc' = "idle" => ret' = -1
        /\ UNCHANGED <<data_pdn_sid, cb, modem, requests, events, taken,
                       restarts, restarted, orphaned, leaked>>
    BY <1>1 DEF app_mq_create, Returns, Goto
  <2>2. Quiet => Nowhere' /\ mq'.msgs = <<>>
    BY <2>1, WaitsAre DEF Answering, Answers, Nowhere
  <2>3. ~HasConnected'
    BY <2>1 DEF HasConnected, Steady, Control, Leaving
  <2>4. QED
    BY <2>1, <2>2, <2>3, NothingOwed, WaitsAre DEF Quiet, Disturbed
<1>2. CASE lte_initialize \/ lte_set_report_restart
  <2>1. /\ pc \in {"initialize", "set_report_restart"}
        /\ pc' \in {"set_report_restart", "power_on", "err_fin"}
        /\ UNCHANGED <<ret, data_pdn_sid, mq, cb, modem, requests, events,
                       taken, restarts, dropped, restarted, orphaned>>
    BY <1>2 DEF lte_initialize, lte_set_report_restart, Fails, FailsWith, Goto
  <2>2. Quiet => Nowhere' /\ mq'.msgs = <<>>
    BY <2>1, WaitsAre DEF Answering, Answers, Nowhere
  <2>3. ~HasConnected'
    BY <2>1 DEF HasConnected, Steady, Control, Leaving
  <2>4. QED
    BY <2>1, <2>2, <2>3, NothingOwed, WaitsAre DEF Quiet, Disturbed
<1>3. CASE lte_set_report_localtime
  <2>1. CASE Fails("err_lte_fin")
    BY <1>3, <2>1, FailsAnswering DEF lte_set_report_localtime, Busy
  <2>2. CASE ~Fails("err_lte_fin")
    <3>1. /\ pc = "set_report_localtime" /\ pc' = "radio_on"
          /\ UNCHANGED <<ret, data_pdn_sid, mq, cb, modem, requests, events,
                         taken, restarts, restarted, orphaned, leaked>>
      BY <1>3, <2>2 DEF lte_set_report_localtime, Goto
    <3>2. Quiet => Nowhere' /\ mq'.msgs = <<>>
      BY <3>1, WaitsAre DEF Answering, Answers, Nowhere
    <3>3. ~HasConnected'
      BY <3>1 DEF HasConnected, Steady, Control, Leaving
    <3>4. QED
      BY <3>1, <3>2, <3>3, NothingOwed, WaitsAre DEF Quiet, Disturbed
  <2>3. QED
    BY <2>1, <2>2
<1>4. CASE lte_power_on \/ lte_radio_on \/ lte_activate_pdn \/ lte_deactivate_pdn
           \/ lte_radio_off
  <2>1. \A from \in (Busy \cup Leaving) \ Waits : \A to \in Waits :
           CallStep(from, Awaited[to], to) => Answering'
    BY CallStepAnswering
  <2>2. {"power_on", "radio_on", "activate_pdn", "deactivate_pdn", "radio_off"}
           \subseteq (Busy \cup Leaving) \ Waits
    BY WaitsAre DEF Busy, Leaving
  <2>3. QED
    BY <1>4, <2>1, <2>2, WaitsAre DEF lte_power_on, lte_radio_on,
       lte_activate_pdn, lte_deactivate_pdn, lte_radio_off
<1>5. CASE \E place \in Waits \ {"wait_activate"} : app_wait_lte_callback(place)
  BY <1>5, WaitAnswering
<1>6. CASE app_wait_lte_callback_with_parameter
  BY <1>6, WaitParameterAnswering
<1>7. CASE lte_power_off
  <2>1. CASE Fails("err_lte_fin")
    BY <1>7, <2>1, FailsAnswering DEF lte_power_off, Leaving
  <2>2. CASE ~Fails("err_lte_fin")
    <3>1. /\ pc = "power_off" /\ pc' = "finalize"
          /\ requests' = {} /\ events' = <<>>
          /\ UNCHANGED <<ret, data_pdn_sid, mq, cb, taken, restarts, restarted, orphaned, leaked>>
      BY <1>7, <2>2 DEF lte_power_off, Goto
    <3>2. Quiet => Nowhere' /\ mq'.msgs = <<>>
      BY <3>1, WaitsAre DEF Answering, Answers, Nowhere
    <3>3. ~HasConnected'
      BY <3>1 DEF HasConnected, Steady, Control, Busy
    <3>4. QED
      BY <3>1, <3>2, <3>3, NothingOwed, WaitsAre DEF Quiet, Disturbed
  <2>3. QED
    BY <2>1, <2>2
<1>8. CASE lte_finalize
  <2>1. /\ pc = "finalize" /\ pc' \in {"mq_delete", "err_fin"}
        /\ \/ /\ requests' = {} /\ events' = <<>> /\ cb' = NoCallback
              /\ taken' = {}
           \/ UNCHANGED <<requests, events, cb, taken, restarted, orphaned>>
        /\ UNCHANGED <<ret, data_pdn_sid, mq>>
    BY <1>8 DEF lte_finalize, FailsWith, Finalized, Goto
  <2>2. Quiet' => Nowhere'
    BY <2>1, WaitsAre DEF Answering, Answers, Nowhere, NoCallback, Quiet, Disturbed
  <2>3. ~HasConnected'
    BY <2>1 DEF HasConnected, Steady, Control, Busy
  <2>4. Quiet' => \A t \in taken' : t[1] = t[2]
    BY <2>1 DEF Answering, OwnAnswers, Quiet, Disturbed
  <2>5. QED
    BY <2>1, <2>2, <2>3, <2>4, WaitsAre
       DEF Answering, Answers, Session, OwnAnswers, Quiet
<1>9. CASE errout_with_lte_fin
  <2>1. /\ pc = "err_lte_fin" /\ pc' = "err_fin"
        /\ \/ /\ requests' = {} /\ events' = <<>> /\ cb' = NoCallback
              /\ taken' = {}
           \/ orphaned' = TRUE
        /\ UNCHANGED <<ret, data_pdn_sid, mq>>
    BY <1>9 DEF errout_with_lte_fin, Finalized, Goto
  <2>2. Quiet' => Nowhere' /\ taken' = {}
    BY <2>1 DEF Quiet, Disturbed, Nowhere, NoCallback
  <2>3. ~HasConnected'
    BY <2>1 DEF HasConnected, Steady, Control
  <2>4. QED
    BY <2>1, <2>2, <2>3, WaitsAre DEF Answering, Answers, Session, OwnAnswers, Quiet
<1>10. CASE app_mq_delete
  <2>1. /\ pc \in {"mq_delete", "err_fin"} /\ pc' = "idle"
        /\ mq'.msgs = <<>>
        /\ cb.phase = "none" => cb' = cb
        /\ ret' = IF pc = "mq_delete" THEN 0 ELSE -1
        /\ UNCHANGED <<data_pdn_sid, modem, requests, events, taken, restarts,
                       restarted, orphaned, leaked>>
    BY <1>10 DEF app_mq_delete, Returns, Goto
  <2>2. Quiet => Nowhere'
    BY <2>1, WaitsAre DEF Answering, Answers, Nowhere
  <2>3. ~HasConnected'
    BY <2>1 DEF HasConnected, Steady, Control, Busy
  <2>4. QED
    BY <2>1, <2>2, <2>3, NothingOwed, WaitsAre DEF Quiet, Disturbed
<1>11. QED
  BY <1>1, <1>2, <1>3, <1>4, <1>5, <1>6, <1>7, <1>8, <1>9, <1>10 DEF AppStep
(* Where the thread of the library or the modem does something, a wait or a *)
(* call given up has an answer on its way.                                  *)
LEMMA StillOneAnswer ==
  ASSUME LteShape, Steady, Answering, UNCHANGED <<main, g_status, pc, ret>>,
         UNCHANGED <<data_pdn_sid, taken, restarts, restarted, orphaned, leaked>>,
         Quiet => ~Nowhere,
         Quiet /\ pc \in Waits => OneAnswer(Awaited[pc])'
  PROVE  Answering'
<1>1. Quiet' <=> Quiet
  BY DEF Quiet, Disturbed
<1>2. Quiet => pc \in Waits \cup {"err_lte_fin"}
  BY DEF Answering, Answers
<1>3. Quiet => ~HasConnected'
  BY <1>2, WaitsAre DEF HasConnected, Steady, Control
<1>4. Quiet => (pc \in Waits => OneAnswer(Awaited[pc])')
  OBVIOUS
<1>5. Answers'
  BY <1>1, <1>2, <1>4, WaitsAre DEF Answers
<1>6. QED
  BY <1>1, <1>3, <1>5 DEF Answering, Session, OwnAnswers, Quiet, Disturbed

(* ... every step of a callback, ... *)
LEMMA CallbackStepAnswering ==
  ASSUME LteShape, Steady, Answering, CallbackStep, UNCHANGED <<main, g_status>>
  PROVE  Answering'
<1>1. CASE CallbackOpens
  <2>1. /\ cb.phase = "none" /\ events # <<>> /\ events' = Tail(events)
        /\ cb' = cb \/ cb' = [phase |-> "send", event |-> Head(events)]
        /\ UNCHANGED <<pc, ret, data_pdn_sid, mq, modem, requests, taken,
                       restarts, restarted, orphaned, leaked>>
    BY <1>1 DEF CallbackOpens
  <2>2. ASSUME Quiet, pc \in Waits PROVE OneAnswer(Awaited[pc])'
    <3> DEFINE c == Awaited[pc]
    <3>1. /\ requests = {} /\ mq.msgs = <<>>
          /\ \E m \in Events : IsAnswer(c, m) /\ events = <<m>>
      BY <2>1, <2>2 DEF Answering, Answers, OneAnswer, Nowhere
    <3>2. PICK m \in Events : IsAnswer(c, m) /\ events = <<m>>
      BY <3>1
    <3>3. Head(events) = m /\ Tail(events) = <<>>
      BY <3>2, OneTuple
    <3>4. IsAnswer(c, m)'
      BY <2>1, <3>2 DEF IsAnswer
    <3>5. QED
      BY <2>1, <3>1, <3>3, <3>4 DEF OneAnswer
  <2>3. QED
    BY <2>1, <2>2, StillOneAnswer DEF Nowhere
<1>2. CASE app_mq_notify
  <2>1. /\ cb.phase = "send" /\ cb' = NoCallback
        /\ mq' = [mq EXCEPT !.msgs = Append(@, cb.event)]
        /\ UNCHANGED <<pc, ret, data_pdn_sid, modem, requests, events, taken,
                       restarts, restarted, orphaned, leaked>>
    BY <1>2 DEF app_mq_notify
  <2>2. mq'.msgs = Append(mq.msgs, cb.event)
    BY <2>1 DEF LteShape
  <2>3. ASSUME Quiet, pc \in Waits PROVE OneAnswer(Awaited[pc])'
    <3> DEFINE c == Awaited[pc]
    <3>1. /\ requests = {} /\ events = <<>> /\ mq.msgs = <<>>
          /\ IsAnswer(c, cb.event)
      BY <2>1, <2>3 DEF Answering, Answers, OneAnswer, Nowhere
    <3>2. mq'.msgs = <<cb.event>>
      BY <2>2, <3>1
    <3>3. IsAnswer(c, cb.event) /\ cb.event \in Events
      BY <3>1 DEF IsAnswer
    <3>4. PICK m \in Events : m = cb.event
      BY <3>3
    <3>5. IsAnswer(c, m)'
      BY <2>1, <3>3, <3>4 DEF IsAnswer
    <3>6. Nowhere'
      BY <2>1, <3>1 DEF Nowhere, NoCallback
    <3>7. QED
      BY <3>2, <3>4, <3>5, <3>6 DEF OneAnswer
  <2>4. QED
    BY <2>1, <2>3, StillOneAnswer DEF Nowhere
<1>3. CASE SendInVain
  <2>1. /\ cb.phase = "vain"
        /\ UNCHANGED <<pc, ret, data_pdn_sid, mq, modem, requests, events, taken,
                       restarts, restarted, orphaned, leaked>>
    BY <1>3 DEF SendInVain
  <2>2. ~(Quiet /\ pc \in Waits)
    BY <2>1 DEF Answering, Answers, OneAnswer, Nowhere
  <2>3. QED
    BY <2>1, <2>2, StillOneAnswer DEF Nowhere
<1>4. QED
  BY <1>1, <1>2, <1>3 DEF CallbackStep

(* ... and every answer of the modem. *)
LEMMA ModemAnswersAnswering ==
  ASSUME LteShape, Steady, Answering, ModemAnswers, UNCHANGED <<main, g_status>>
  PROVE  Answering'
<1>1. PICK q \in requests :
        /\ requests' = requests \ {q}
        /\ \/ q # "activate" /\ Raise(q, 0, Invalid)
           \/ /\ q = "activate"
              /\ \E s \in SessionIds : /\ modem' = [modem EXCEPT !.pdn = s]
                                       /\ Raise("activate", 0, s)
           \/ Raise(q, 1, Invalid)
        /\ UNCHANGED <<pc, ret, data_pdn_sid, mq, cb, initialized, taken,
                       restarts, faults, dropped, restarted, orphaned, leaked>>
  BY DEF ModemAnswers
<1>2. PICK r \in Results, sid \in SessionIds \cup {Invalid} :
         /\ Raise(q, r, sid)
         /\ q = "activate" /\ r = 0 => sid = modem'.pdn /\ sid # Invalid
  <2>1. CASE q # "activate" /\ Raise(q, 0, Invalid)
    BY <2>1 DEF Results
  <2>2. CASE q = "activate" /\ \E s \in SessionIds :
                /\ modem' = [modem EXCEPT !.pdn = s]
                /\ Raise("activate", 0, s)
    BY <2>2, LteConstants DEF Results, LteShape, LteTypeOK
  <2>3. CASE Raise(q, 1, Invalid)
    BY <2>3 DEF Results
  <2>4. QED
    BY <1>1, <2>1, <2>2, <2>3
<1> DEFINE e == Event(q, r, sid)
<1>3. q \in Callbacks
  BY <1>1 DEF LteShape, LteTypeOK
<1>4. /\ e \in Events /\ e.from = q
      /\ q = "activate" /\ e.result = 0 => e.sid = modem'.pdn /\ e.sid # Invalid
      /\ events' = Append(events, e)
  BY <1>2, <1>3, EventsAreTyped DEF Event, Raise
<1> HIDE DEF e
<1>5. ASSUME Quiet, pc \in Waits PROVE OneAnswer(Awaited[pc])'
  <2> DEFINE c == Awaited[pc]
  <2>1. /\ requests \subseteq {c} /\ events = <<>>
        /\ cb.phase = "none" /\ mq.msgs = <<>>
    BY <1>1, <1>5 DEF Answering, Answers, OneAnswer, Nowhere
  <2>2. q = c /\ requests' = {}
    BY <1>1, <2>1
  <2>3. events' = <<e>>
    BY <1>4, <2>1
  <2>4. IsAnswer(c, e)'
    BY <1>1, <1>4, <2>2 DEF IsAnswer
  <2>5. PICK m \in Events : m = e
    BY <1>4
  <2>6. IsAnswer(c, m)'
    BY <2>4, <2>5 DEF IsAnswer
  <2>7. QED
    BY <1>1, <2>1, <2>2, <2>3, <2>5, <2>6 DEF OneAnswer
<1>6. QED
  BY <1>1, <1>5, StillOneAnswer DEF Nowhere

-----------------------------------------------------------------------------
(* The program. *)

(* A command given to mqtt_main keeps them too. *)
LEMMA MainConnection ==
  ASSUME LteShape, Steady, Answering, NEW arg, mqtt_main(arg)
  PROVE  Steady' /\ Answering'
<1>1. main = "shell" /\ pc = "idle"
  BY DEF mqtt_main
<1>2. Quiet => Nowhere /\ mq.msgs = <<>>
  BY <1>1, WaitsAre DEF Answering, Answers
<1>3. /\ UNCHANGED <<ret, data_pdn_sid, mq, cb, initialized, modem, requests,
                     events, taken, restarts, restarted, orphaned, leaked>>
      /\ \/ /\ g_status = 1 /\ g_status' = 0 /\ main' = "disconnect"
            /\ pc' = "deactivate_pdn"
         \/ /\ g_status = 0 /\ g_status' = 0 /\ main' = "connect"
            /\ pc' = "mq_create"
         \/ g_status = 1 /\ g_status' = 1 /\ main' = "run" /\ pc' = pc
  BY DEF mqtt_main, app_connect_to_lte, app_disconnect_from_lte, Goto, lteVars
<1>4. Steady'
  BY <1>1, <1>3 DEF Steady, Control, QueueUp, LibraryUp, HasConnected, Busy, Leaving
<1>5. Quiet' <=> Quiet
  BY <1>3 DEF Quiet, Disturbed
<1>6. HasConnected' => HasConnected
  BY <1>1, <1>3 DEF HasConnected
<1>7. Answering'
  BY <1>1, <1>2, <1>3, <1>5, <1>6, WaitsAre
     DEF Answering, Answers, Session, OwnAnswers, Nowhere, Quiet, Disturbed
<1>8. QED
  BY <1>4, <1>7

(* A step of the program that is none of the connection's. *)
LEMMA OtherConnection ==
  ASSUME LteShape, Steady, Answering,
         UNCHANGED <<pc, ret, data_pdn_sid, mq, cb, initialized, modem, requests,
                     events, taken, restarts, restarted, orphaned, leaked>>,
         \/ UNCHANGED <<main, g_status>>
         \/ Connected \/ Disconnected
         \/ main \in {"run", "test"} /\ main' \in {"test", "shell"}
            /\ UNCHANGED g_status
  PROVE  Steady' /\ Answering'
<1>1. ret \in {0, -1}
  BY DEF LteShape, LteTypeOK
<1>2. \/ main' = main /\ g_status' = g_status
      \/ /\ main = "connect" /\ pc = "idle" /\ ret # 0
         /\ main' = "shell" /\ g_status' = g_status
      \/ /\ main = "connect" /\ pc = "idle" /\ ret = 0
         /\ main' \in {"shell", "run"} /\ g_status' = 1
      \/ /\ main = "disconnect" /\ pc = "idle"
         /\ main' = "shell" /\ g_status' = g_status
      \/ /\ main \in {"run", "test"} /\ main' \in {"test", "shell"}
         /\ g_status' = g_status
  BY <1>1 DEF Connected, Disconnected
<1>3. HasConnected' <=> HasConnected
  BY <1>2 DEF HasConnected, Steady, Control
<1>4. Control'
  BY <1>2 DEF Steady, Control
<1>5. QueueUp' /\ LibraryUp'
  BY <1>3 DEF Steady, QueueUp, LibraryUp
<1>6. Answering'
  BY <1>3, Zenon DEF Answering, Answers, Session, OwnAnswers, Quiet, Disturbed, Nowhere,
                     OneAnswer, IsAnswer
<1>7. QED
  BY <1>4, <1>5, <1>6 DEF Steady
(* What every step of a test leaves alone. *)
LEMMA TestStepFrame ==
  ASSUME TestStep
  PROVE  /\ main = "test"
         /\ UNCHANGED <<lteButFaults, mainVars>>
         /\ faults' = faults \/ (faults < MaxFaults /\ faults' = faults + 1)
<1>1. CASE mqtt_test_connect
  BY <1>1 DEF mqtt_test_connect, At
<1>2. CASE mqtt_test_subscribe
  BY <1>2 DEF mqtt_test_subscribe, At, LibraryFails
<1>3. CASE mqtt_test_unsubscribe
  BY <1>3 DEF mqtt_test_unsubscribe, At, LibraryFails
<1>4. CASE mqtt_test_publish
  BY <1>4 DEF mqtt_test_publish, At, LibraryFails
<1>5. CASE mqtt_test_yield
  BY <1>5 DEF mqtt_test_yield, At, LibraryFails
<1>6. CASE mqtt_test_disconnect
  BY <1>6 DEF mqtt_test_disconnect, At, LibraryFails
<1>7. CASE random_message
  BY <1>7 DEF random_message, At, lteVars, lteButFaults
<1>8. CASE mqtt_test_reset_last
  BY <1>8 DEF mqtt_test_reset_last, At, lteVars, lteButFaults
<1>9. CASE mqtt_test_compare_last
  BY <1>9 DEF mqtt_test_compare_last, At, lteVars, lteButFaults
<1>10. CASE usleep
  BY <1>10 DEF usleep, At, lteVars, lteButFaults
<1>11. CASE CheckResult
  BY <1>11 DEF CheckResult, At, lteVars, lteButFaults
<1>12. QED
  BY <1>1, <1>2, <1>3, <1>4, <1>5, <1>6, <1>7, <1>8, <1>9, <1>10, <1>11 DEF TestStep

ConnectionInvariant == LteShape /\ Steady /\ Answering

(* The connection invariant holds at the start, ... *)
LEMMA InitConnection == Init => ConnectionInvariant
<1> SUFFICES ASSUME Init PROVE ConnectionInvariant
  OBVIOUS
<1>1. LteShape
  BY LteInitType DEF Init
<1>2. /\ main = "shell" /\ g_status = 0 /\ pc = "idle" /\ mq.up = FALSE
      /\ initialized = FALSE /\ mq.msgs = <<>> /\ taken = {} /\ Nowhere
  BY DEF Init, LteInit, Nowhere, NoCallback
<1>3. Steady
  BY <1>2 DEF Steady, Control, QueueUp, LibraryUp, HasConnected, Busy, Leaving
<1>4. Answering
  BY <1>2, WaitsAre DEF Answering, Answers, Session, OwnAnswers, HasConnected
<1>5. QED
  BY <1>1, <1>3, <1>4 DEF ConnectionInvariant

(* ... and every step keeps it. *)
LEMMA NextConnection == ConnectionInvariant /\ [Next]_vars => ConnectionInvariant'
<1> SUFFICES ASSUME ConnectionInvariant, [Next]_vars PROVE ConnectionInvariant'
  OBVIOUS
<1> USE DEF ConnectionInvariant
<1>1. ASSUME NEW arg \in Tests \cup {"off"}, mqtt_main(arg)
      PROVE  ConnectionInvariant'
  <2>1. LteShape'
    BY <1>1 DEF mqtt_main, app_connect_to_lte, app_disconnect_from_lte, Goto,
                lteVars, LteShape, LteTypeOK, Places
  <2>2. QED
    BY <1>1, <2>1, MainConnection
<1>2. CASE AppStep /\ UNCHANGED mqttVars
  BY <1>2, AppStepType, AppStepSteady, AppStepAnswering DEF mqttVars
<1>3. CASE Connected \/ Disconnected
  <2>1. UNCHANGED lteVars
    BY <1>3 DEF Connected, Disconnected
  <2>2. LteShape'
    BY <2>1 DEF lteVars, LteShape, LteTypeOK
  <2>3. QED
    BY <1>3, <2>1, <2>2, OtherConnection DEF lteVars
<1>4. CASE RunTest \/ TestDone
  <2>1. UNCHANGED lteVars
    BY <1>4 DEF RunTest, TestDone
  <2>2. LteShape'
    BY <2>1 DEF lteVars, LteShape, LteTypeOK
  <2>3. main \in {"run", "test"} /\ main' \in {"test", "shell"} /\ UNCHANGED g_status
    BY <1>4 DEF RunTest, TestDone
  <2>4. QED
    BY <2>1, <2>2, <2>3, OtherConnection DEF lteVars
<1>5. CASE TestStep
  <2>1. /\ UNCHANGED <<lteButFaults, mainVars>>
        /\ faults' = faults \/ (faults < MaxFaults /\ faults' = faults + 1)
    BY <1>5, TestStepFrame
  <2>2. faults' \in 0..MaxFaults
    BY <2>1, LteConstants DEF LteShape, LteTypeOK
  <2>3. LteShape'
    BY <2>1, <2>2 DEF lteButFaults, LteShape, LteTypeOK
  <2>4. QED
    BY <2>1, <2>3, OtherConnection DEF lteButFaults, mainVars
<1>6. CASE Library
  BY <1>6, CallbackStepType, CallbackStepSteady, CallbackStepAnswering
     DEF Library, mqttVars
<1>7. CASE Modem
  <2>1. ModemAnswers /\ UNCHANGED <<main, g_status>>
    BY <1>7 DEF Modem, mqttVars
  <2>2. UNCHANGED <<pc, ret, mq, initialized, orphaned, leaked>>
    BY <2>1 DEF ModemAnswers
  <2>3. Steady'
    BY <2>1, <2>2 DEF Steady, Control, QueueUp, LibraryUp, HasConnected
  <2>4. QED
    BY <2>1, <2>3, ModemAnswersType, ModemAnswersAnswering
<1>8. CASE Restart
  <2>1. ModemRestartsBySelf /\ UNCHANGED <<main, g_status>>
    BY <1>8 DEF Restart
  <2>2. UNCHANGED <<pc, ret, mq, initialized, orphaned, leaked>> /\ restarted'
    BY <2>1 DEF ModemRestartsBySelf
  <2>3. Steady'
    BY <2>1, <2>2 DEF Steady, Control, QueueUp, LibraryUp, HasConnected
  <2>4. Answering'
    BY <2>2 DEF Answering, Answers, Session, OwnAnswers, Quiet, Disturbed
  <2>5. QED
    BY <2>1, <2>3, <2>4, ModemRestartsType
<1>9. CASE Redeliver
  <2>1. UNCHANGED <<lteVars, main, g_status>>
    BY <1>9 DEF Redeliver
  <2>2. LteShape'
    BY <2>1 DEF lteVars, LteShape, LteTypeOK
  <2>3. QED
    BY <2>1, <2>2, OtherConnection DEF lteVars
<1>10. CASE UNCHANGED vars
  <2>1. UNCHANGED <<lteVars, main, g_status>>
    BY <1>10 DEF vars, mqttVars
  <2>2. LteShape'
    BY <2>1 DEF lteVars, LteShape, LteTypeOK
  <2>3. QED
    BY <2>1, <2>2, OtherConnection DEF lteVars
<1>11. QED
  BY <1>1, <1>2, <1>3, <1>4, <1>5, <1>6, <1>7, <1>8, <1>9, <1>10 DEF Next, Application

-----------------------------------------------------------------------------
(* The sockets. *)

Linked(links) ==
    /\ links = [s \in Sockets |-> links[s]]
    /\ \A s \in Sockets : LinkShape(links[s])

SocketsInvariant ==
    /\ Linked(link)
    /\ mqtt_state \in [Sockets -> 0..3]
    /\ SocketInv

(* What happens at the broker and what arrives opens and closes nothing. *)
SameOpen(links) ==
    /\ Linked(links)
    /\ \A s \in Sockets : links[s].open <=> link[s].open

(* A connection is changed, but neither opened nor closed. *)
LEMMA LinkKept ==
  ASSUME NEW l, LinkShape(l), NEW k,
         \/ \E i : k = [l EXCEPT !.inbox = i]
         \/ \E f, i : k = [l EXCEPT !.subs = f, !.inbox = i]
         \/ k = [l EXCEPT !.up = FALSE]
  PROVE  LinkShape(k) /\ (k.open <=> l.open)
<1>1. l = [open |-> l.open, up |-> l.up, subs |-> l.subs, inbox |-> l.inbox]
  BY DEF LinkShape
<1>2. \/ k = [open |-> l.open, up |-> l.up, subs |-> k.subs, inbox |-> k.inbox]
      \/ k = [open |-> l.open, up |-> FALSE, subs |-> l.subs, inbox |-> l.inbox]
  BY <1>1
<1>3. QED
  BY <1>2 DEF LinkShape

(* The state of one client changed. *)
LEMMA StateChanged ==
  ASSUME mqtt_state \in [Sockets -> 0..3], NEW s, NEW n \in 0..3
  PROVE  [mqtt_state EXCEPT ![s] = n] \in [Sockets -> 0..3]
OBVIOUS

(* One link changed, the others as they were. *)
LEMMA OneLink ==
  ASSUME NEW links, Linked(links), NEW s, NEW l, LinkShape(l),
         NEW others, others = [links EXCEPT ![s] = l]
  PROVE  /\ Linked(others)
         /\ \A x \in Sockets : x # s => others[x] = links[x]
         /\ s \in Sockets => others[s] = l
BY DEF Linked

(* Changes of one link that open and close nothing. *)
LEMMA SameOpenOne ==
  ASSUME SocketsInvariant, NEW s, NEW links,
         \/ links = link
         \/ \E i : links = [link EXCEPT ![s].inbox = i]
         \/ \E f, i : links = [link EXCEPT ![s].subs = f, ![s].inbox = i]
         \/ links = [link EXCEPT ![s].up = FALSE]
  PROVE  SameOpen(links)
<1>1. Linked(link)
  BY DEF SocketsInvariant
<1>2. /\ links = [x \in Sockets |-> links[x]]
      /\ \A x \in Sockets : x # s => links[x] = link[x]
  BY <1>1 DEF Linked
<1>3. ASSUME s \in Sockets PROVE LinkShape(links[s]) /\ (links[s].open <=> link[s].open)
  <2>1. LinkShape(link[s]) /\ s \in DOMAIN link
    BY <1>1, <1>3 DEF Linked
  <2>2. CASE links = link
    BY <2>1, <2>2
  <2>3. CASE \E i : links = [link EXCEPT ![s].inbox = i]
    <3>1. PICK i : links = [link EXCEPT ![s].inbox = i]
      BY <2>3
    <3>2. links[s] = [link[s] EXCEPT !.inbox = i]
      BY <2>1, <3>1
    <3>3. QED
      BY <2>1, <3>2, LinkKept
  <2>4. CASE \E f, i : links = [link EXCEPT ![s].subs = f, ![s].inbox = i]
    <3>1. PICK f, i : links = [link EXCEPT ![s].subs = f, ![s].inbox = i]
      BY <2>4
    <3>2. links[s] = [link[s] EXCEPT !.subs = f, !.inbox = i]
      BY <2>1, <3>1
    <3>3. QED
      BY <2>1, <3>2, LinkKept
  <2>5. CASE links = [link EXCEPT ![s].up = FALSE]
    <3>1. links[s] = [link[s] EXCEPT !.up = FALSE]
      BY <2>1, <2>5
    <3>2. QED
      BY <2>1, <3>1, LinkKept
  <2>6. QED
    BY <2>2, <2>3, <2>4, <2>5
<1>4. \A x \in Sockets : LinkShape(links[x]) /\ (links[x].open <=> link[x].open)
  BY <1>1, <1>2, <1>3 DEF Linked
<1>5. QED
  BY <1>2, <1>4 DEF SameOpen, Linked

(* Distributing a message opens and closes nothing. *)
LEMMA DistributedSame ==
  ASSUME NEW links, SameOpen(links), NEW m
  PROVE  SameOpen(Distributed(links, m))
<1> DEFINE spread == Distributed(links, m)
<1>1. spread = [s \in Sockets |-> spread[s]]
  BY DEF Distributed
<1>2. ASSUME NEW s \in Sockets
      PROVE  LinkShape(spread[s]) /\ (spread[s].open <=> link[s].open)
  <2>1. spread[s] = links[s] \/ spread[s] = [links[s] EXCEPT !.inbox = Append(@, m)]
    BY DEF Distributed
  <2>2. LinkShape(links[s]) /\ (links[s].open <=> link[s].open)
    BY DEF SameOpen, Linked
  <2>3. QED
    BY <2>1, <2>2 DEF LinkShape
<1>3. QED
  BY <1>1, <1>2 DEF SameOpen, Linked

(* A step that opens and closes nothing. *)
LEMMA SameOpenSockets ==
  ASSUME SocketsInvariant, SameOpen(link'), UNCHANGED mqtt_state,
         main' = "test" => main = "test", main = "test" => main' = "test"
  PROVE  SocketsInvariant'
BY DEF SocketsInvariant, SocketInv, SameOpen, Linked

(* No change is such a change. *)
LEMMA LinkUnchanged == ASSUME SocketsInvariant PROVE SameOpen(link)
BY DEF SocketsInvariant, SameOpen

(* Every step of a test keeps the sockets right. *)
LEMMA TestStepSockets ==
  ASSUME SocketsInvariant, TestStep
  PROVE  SocketsInvariant'
<1>0. main = "test" /\ main' = "test"
  BY TestStepFrame DEF mainVars
<1>1. CASE mqtt_test_connect
  <2> DEFINE opened == [open |-> TRUE, up |-> TRUE, subs |-> {}, inbox |-> <<>>]
  <2>1. PICK n \in {1, 2, 3} :
           /\ mqtt_state' = [mqtt_state EXCEPT ![Step.s] = n]
           /\ \/ link' = [link EXCEPT ![Step.s] = opened]
              \/ link' = [link EXCEPT ![Step.s] = NoLink]
    BY <1>1 DEF mqtt_test_connect
  <2>2. LinkShape(opened) /\ LinkShape(NoLink) /\ ~NoLink.open
    BY DEF LinkShape, NoLink
  <2>3. mqtt_state' \in [Sockets -> 0..3] /\ Linked(link')
    <3>1. mqtt_state' \in [Sockets -> 0..3]
      BY <2>1, StateChanged DEF SocketsInvariant
    <3>2. Linked(link')
      BY <2>1, <2>2, OneLink DEF SocketsInvariant
    <3>3. QED
      BY <3>1, <3>2
  <2>4. ASSUME NEW x \in Sockets, link'[x].open PROVE mqtt_state'[x] > 0
    <3>1. CASE x = Step.s
      BY <2>1, <3>1 DEF SocketsInvariant
    <3>2. CASE x # Step.s
      BY <2>1, <2>4, <3>2 DEF SocketsInvariant, SocketInv, Linked
    <3>3. QED
      BY <3>1, <3>2
  <2>5. QED
    BY <1>0, <2>3, <2>4 DEF SocketsInvariant, SocketInv
<1>2. CASE mqtt_test_disconnect
  <2>1. PICK s : /\ mqtt_state' = [mqtt_state EXCEPT ![s] = 0]
                 /\ link' = [link EXCEPT ![s] = NoLink]
    BY <1>2 DEF mqtt_test_disconnect
  <2>2. LinkShape(NoLink) /\ ~NoLink.open
    BY DEF LinkShape, NoLink
  <2>3. mqtt_state' \in [Sockets -> 0..3] /\ Linked(link')
    <3>1. mqtt_state' \in [Sockets -> 0..3]
      BY <2>1, StateChanged DEF SocketsInvariant
    <3>2. Linked(link')
      BY <2>1, <2>2, OneLink DEF SocketsInvariant
    <3>3. QED
      BY <3>1, <3>2
  <2>4. ASSUME NEW x \in Sockets, link'[x].open PROVE mqtt_state'[x] > 0
    <3>1. x # s
      BY <2>1, <2>2, <2>4 DEF SocketsInvariant, Linked
    <3>2. QED
      BY <2>1, <2>4, <3>1 DEF SocketsInvariant, SocketInv, Linked
  <2>5. QED
    BY <1>0, <2>3, <2>4 DEF SocketsInvariant, SocketInv
<1>3. CASE \/ random_message \/ mqtt_test_reset_last \/ mqtt_test_compare_last
           \/ CheckResult
  <2>1. UNCHANGED <<link, mqtt_state>>
    BY <1>3 DEF random_message, mqtt_test_reset_last, mqtt_test_compare_last,
                CheckResult
  <2>2. QED
    BY <1>0, <2>1, LinkUnchanged, SameOpenSockets
<1>4. CASE \/ mqtt_test_subscribe \/ mqtt_test_unsubscribe \/ mqtt_test_yield
  <2>1. UNCHANGED mqtt_state
    BY <1>4 DEF mqtt_test_subscribe, mqtt_test_unsubscribe, mqtt_test_yield
  <2>2. \/ UNCHANGED link
        \/ \E f, i : link' = [link EXCEPT ![Step.s].subs = f, ![Step.s].inbox = i]
        \/ \E i : link' = [link EXCEPT ![Step.s].inbox = i]
    BY <1>4 DEF mqtt_test_subscribe, mqtt_test_unsubscribe, mqtt_test_yield, Arrived
  <2>3. SameOpen(link')
    BY <2>2, SameOpenOne
  <2>4. QED
    BY <1>0, <2>1, <2>3, SameOpenSockets
<1>5. CASE mqtt_test_publish
  <2>1. UNCHANGED mqtt_state
    BY <1>5 DEF mqtt_test_publish
  <2>2. link' = link \/ \E m : link' = Distributed(link, m)
    BY <1>5 DEF mqtt_test_publish
  <2>3. SameOpen(link')
    BY <2>2, LinkUnchanged, DistributedSame
  <2>4. QED
    BY <1>0, <2>1, <2>3, SameOpenSockets
<1>6. CASE usleep
  <2> DEFINE l == [link EXCEPT ![PUB].up = FALSE]
  <2>1. UNCHANGED mqtt_state
    BY <1>6 DEF usleep
  <2>2. link' = link \/ \E m : link' = Distributed(l, m)
    BY <1>6 DEF usleep
  <2>3. SameOpen(l)
    BY SameOpenOne
  <2> HIDE DEF l
  <2>4. SameOpen(link')
    BY <2>2, <2>3, LinkUnchanged, DistributedSame
  <2>5. QED
    BY <1>0, <2>1, <2>4, SameOpenSockets
<1>7. QED
  BY <1>1, <1>2, <1>3, <1>4, <1>5, <1>6 DEF TestStep

(* The sockets are right at the start, ... *)
LEMMA InitSockets == Init => SocketsInvariant
BY DEF Init, SocketsInvariant, Linked, LinkShape, NoLink, SocketInv

(* ... and every step keeps them so. *)
LEMMA NextSockets == SocketsInvariant /\ [Next]_vars => SocketsInvariant'
<1> SUFFICES ASSUME SocketsInvariant, [Next]_vars PROVE SocketsInvariant'
  OBVIOUS
<1>1. CASE \/ \E arg \in Tests \cup {"off"} : mqtt_main(arg)
           \/ AppStep /\ UNCHANGED mqttVars
           \/ Connected \/ Disconnected \/ Library \/ Modem \/ UNCHANGED vars
  <2>1. /\ UNCHANGED <<link, mqtt_state>>
        /\ main' = "test" <=> main = "test"
    BY <1>1 DEF mqtt_main, Connected, Disconnected, Library, Modem, testVars,
                mqttVars, vars
  <2>2. QED
    BY <2>1, LinkUnchanged, SameOpenSockets
<1>2. CASE RunTest
  <2>1. /\ main # "test" /\ mqtt_state' = [s \in Sockets |-> 0]
        /\ UNCHANGED link
    BY <1>2 DEF RunTest
  <2>2. QED
    BY <2>1 DEF SocketsInvariant, SocketInv, Linked
<1>3. CASE TestStep
  BY <1>3, TestStepSockets
<1>4. CASE TestDone
  <2>1. /\ mqtt_state' = [s \in Sockets |-> 0]
        /\ link' = [s \in Sockets |-> IF mqtt_state[s] > 0 THEN NoLink ELSE link[s]]
    BY <1>4 DEF TestDone, Finalize
  <2>2. LinkShape(NoLink) /\ ~NoLink.open
    BY DEF LinkShape, NoLink
  <2>3. \A s \in Sockets : LinkShape(link'[s]) /\ ~link'[s].open
    BY <2>1, <2>2 DEF SocketsInvariant, SocketInv, Linked
  <2>4. QED
    BY <2>1, <2>3 DEF SocketsInvariant, SocketInv, Linked
<1>5. CASE Restart
  <2>1. /\ UNCHANGED <<mqtt_state, main>>
        /\ link' = [s \in Sockets |-> [link[s] EXCEPT !.up = FALSE]]
    BY <1>5 DEF Restart
  <2>2. ASSUME NEW s \in Sockets
        PROVE  LinkShape(link'[s]) /\ (link'[s].open <=> link[s].open)
    BY <2>1, LinkKept DEF SocketsInvariant, Linked
  <2>3. SameOpen(link')
    BY <2>1, <2>2 DEF SameOpen, Linked
  <2>4. QED
    BY <2>1, <2>3, SameOpenSockets
<1>6. CASE Redeliver
  <2>1. PICK s \in Sockets : \E i : link' = [link EXCEPT ![s].inbox = i]
    BY <1>6 DEF Redeliver
  <2>2. UNCHANGED <<mqtt_state, main>>
    BY <1>6 DEF Redeliver
  <2>3. SameOpen(link')
    BY <2>1, SameOpenOne
  <2>4. QED
    BY <2>2, <2>3, SameOpenSockets
<1>7. QED
  BY <1>1, <1>2, <1>3, <1>4, <1>5, <1>6 DEF Next, Application

(* The program's idea of its connections is the true one, for any number of *)
(* commands and of failing calls: no socket is forgotten; g_status tells at *)
(* the prompt whether queue and library are in use, unless a failed         *)
(* lte_set_report_restart or lte_finalize has left the library initialized; *)
(* and until the modem restarts by itself or a lte_finalize behind an error *)
(* fails - and again once the library has been finalized - each wait of     *)
(* lte_connection.c takes the answer to its own call and data_pdn_sid is    *)
(* the session of the modem.                                                *)
THEOREM ConnectionKnown == Spec => []ConnectionIsTrue
<1> DEFINE IInv == ConnectionInvariant /\ SocketsInvariant
<1>1. Init => IInv
  BY InitConnection, InitSockets
<1>2. IInv /\ [Next]_vars => IInv'
  BY NextConnection, NextSockets
<1>3. IInv => ConnectionIsTrue
  <2> SUFFICES ASSUME IInv PROVE ConnectionIsTrue
    OBVIOUS
  <2>1. OwnAnswers
    BY DEF ConnectionInvariant, Answering
  <2>2. SessionIsOurs
    BY DEF ConnectionInvariant, Answering, Session, HasConnected, Quiet, Disturbed, SessionIsOurs
  <2>3. StatusIsTrue
    BY DEF ConnectionInvariant, Steady, Control, QueueUp, LibraryUp, HasConnected,
           StatusIsTrue
  <2>4. SocketsClosed
    BY DEF SocketsInvariant, SocketInv, SocketsClosed
  <2>5. QED
    BY <2>1, <2>2, <2>3, <2>4 DEF ConnectionIsTrue
<1>4. QED
  BY <1>1, <1>2, <1>3, PTL DEF Spec

-----------------------------------------------------------------------------
(* The table of the tests. *)

(* A repeated body consists of the steps of the body. *)
LEMMA TimesSteps ==
  ASSUME NEW n \in Nat \ {0}, NEW body, Len(body) \in Nat \ {0}
  PROVE  /\ Len(Times(n, body)) \in Nat \ {0}
         /\ \A j \in 1..Len(Times(n, body)) :
               \E i \in 1..Len(body) : Times(n, body)[j] = body[i]
<1> DEFINE L == Len(body)
           T == Times(n, body)
<1>1. n * L \in Nat \ {0}
  OBVIOUS
<1>2. Len(T) = n * L
  BY <1>1 DEF Times
<1>3. ASSUME NEW j \in 1..Len(T) PROVE \E i \in 1..L : T[j] = body[i]
  <2>1. (j - 1) % L \in 0..(L - 1)
    BY <1>1, <1>2
  <2>2. T[j] = body[((j - 1) % L) + 1]
    BY <1>1, <1>2 DEF Times
  <2>3. QED
    BY <2>1, <2>2
<1>4. QED
  BY <1>1, <1>2, <1>3

(* A loop over good steps is a good section. *)
LEMMA LoopIsGood ==
  ASSUME NEW body, NEW var, NEW fail, Len(body) \in Nat \ {0},
         \A i \in 1..Len(body) :
            /\ body[i].op = "connect" => body[i].s \in Sockets
            /\ var = 2 => body[i].op \in {"unsubscribe", "disconnect"}
  PROVE  GoodSteps(Sec(Times(Loop, body), var, fail))
<1> DEFINE T == Times(Loop, body)
<1>1. /\ Len(T) \in Nat \ {0}
      /\ \A j \in 1..Len(T) : \E i \in 1..Len(body) : T[j] = body[i]
  BY TimesSteps, MqttConstants
<1> HIDE DEF T
<1>2. GoodSteps([steps |-> T, var |-> var, fail |-> fail])
  BY <1>1 DEF GoodSteps
<1>3. QED
  BY <1>2 DEF T, Sec

USE DEF SUB, PUB, WILL, C, CW, S, U, P, Y, D, Cmp, Do, Sockets, MQTT_TEST_LIST_MULTI

(* Every test of the table is well formed: connect, ... *)
LEMMA ConnectIsGood == GoodTest(mqtttest_connect)
<1> DEFINE body == <<C(0), D(0)>>
<1>1. GoodSteps(Sec(Times(Loop, body), 1, "end"))
  <2>1. /\ Len(body) \in Nat \ {0}
        /\ \A i \in 1..Len(body) :
            /\ body[i].op = "connect" => body[i].s \in Sockets
    OBVIOUS
  <2> HIDE DEF body
  <2>2. QED BY <2>1, LoopIsGood
<1> HIDE DEF body
<1>2. QED
  BY <1>1 DEF mqtttest_connect, GoodTest, body

(* ... qos, ... *)
LEMMA QosIsGood == \A q : GoodTest(mqtttest_qos(q))
<1> SUFFICES ASSUME NEW q PROVE GoodTest(mqtttest_qos(q)) OBVIOUS
<1> DEFINE body == <<Do("reset_last"), Do("random"), P(PUB, "QOS", q, 0),
                         Y(SUB), Cmp("rand", q, 0)>>
           a == Sec(<<C(SUB), S(SUB, "QOS", q), C(PUB)>>, 1, "end")
           b == Sec(Times(Loop, body), 1, "next")
           c == Sec(<<D(PUB), U(SUB, "QOS"), D(SUB)>>, 2, "end")
<1>1. GoodSteps(b)
  <2>1. /\ Len(body) \in Nat \ {0}
        /\ \A i \in 1..Len(body) :
            /\ body[i].op = "connect" => body[i].s \in Sockets
    OBVIOUS
  <2> HIDE DEF body
  <2>2. QED BY <2>1, LoopIsGood
<1>2. GoodSteps(a)
  BY DEF GoodSteps, Sec
<1>3. GoodSteps(c)
  BY DEF GoodSteps, Sec
<1>4. mqtttest_qos(q) = <<a, b, c>>
  BY DEF mqtttest_qos
<1> HIDE DEF a, b, c
<1>5. QED
  BY <1>1, <1>2, <1>3, <1>4 DEF GoodTest

(* ... the tests without a connection, ... *)
LEMMA NoConnectIsGood ==
  ASSUME NEW e, NEW fail, NEW n \in Nat \ {0}, Len(e) = n,
         \A j \in 1..n : e[j].op # "connect"
  PROVE  GoodSteps(Sec(e, 1, fail))
<1>1. GoodSteps([steps |-> e, var |-> 1, fail |-> fail])
  BY DEF GoodSteps
<1>2. QED
  BY <1>1 DEF Sec

(* ... wildcard, ... *)
LEMMA WildIsGood == \A w : GoodTest(mqtttest_wildcard(w))
<1> SUFFICES ASSUME NEW w PROVE GoodTest(mqtttest_wildcard(w)) OBVIOUS
<1> DEFINE expects(d) == IF mqtttest_wild[w].answer[d] = 1 THEN "rand" ELSE "none"
           Turn(d) == <<Do("reset_last"), Do("random"), P(PUB, topiclist[d], 0, 0),
                        Y(SUB), Cmp(expects(d), 0, 0), Y(PUB)>>
           topic == mqtttest_wild[w].topic
           a == Sec(<<C(SUB), S(SUB, topic, 0), C(PUB)>>, 1, "end")
           b == Sec(Each(Turn, 6), 1, "next")
           c == Sec(<<D(PUB), U(SUB, topic), D(SUB)>>, 2, "end")
<1>1. GoodSteps(a) /\ GoodSteps(c)
  BY DEF GoodSteps, Sec
<1>2. GoodSteps(b)
  <2> DEFINE e == Each(Turn, 6)
  <2>1. Len(e) = 36
    BY DEF Each
  <2>2. ASSUME NEW j \in 1..36
        PROVE  e[j].op # "connect"
    <3> DEFINE d == ((j - 1) \div 6) + 1
               i == ((j - 1) % 6) + 1
    <3>1. d \in 1..6 /\ i \in 1..6
      OBVIOUS
    <3>2. e[j] = Turn(d)[i]
      BY DEF Each
    <3> HIDE DEF d, i, e
    <3>3. \A k \in {1, 2, 3, 4, 5, 6} : Turn(d)[k].op # "connect"
      OBVIOUS
    <3>4. i \in {1, 2, 3, 4, 5, 6}
      BY <3>1
    <3> HIDE DEF Turn
    <3>5. QED
      BY <3>2, <3>3, <3>4
  <2> HIDE DEF e
  <2>3. GoodSteps(Sec(e, 1, "next"))
    <3>1. 36 \in Nat \ {0}
      OBVIOUS
    <3>2. QED
      BY <2>1, <2>2, <3>1, NoConnectIsGood
  <2>4. QED
    BY <2>3 DEF e, Each
<1>4. mqtttest_wildcard(w) = <<a, b, c>>
  BY DEF mqtttest_wildcard
<1> HIDE DEF a, b, c
<1>5. QED
  BY <1>1, <1>2, <1>4 DEF GoodTest

(* ... multi, ... *)
LEMMA MultiIsGood ==
  ASSUME NEW same \in BOOLEAN PROVE GoodTest(mqtttest_multi(same))
<1> DEFINE Subscribe(d) == <<S(SUB, topiclist[d], 0)>>
           Unsubscribe(d) == <<U(SUB, topiclist[d])>>
           six(d) == <<Do("reset_last"), Do("random"),
                            P(IF same THEN SUB ELSE PUB, topiclist[d], 0, 0),
                            Y(SUB), Cmp("rand", 0, 0), Y(PUB)>>
           len == IF same THEN 5 ELSE 6
           Turn(d) == SubSeq(six(d), 1, len)
           first == Sec(<<C(SUB)>>, 1, "end")
           subscribed == Sec(Each(Subscribe, MQTT_TEST_LIST_MULTI), 1, "next")
           turns == Sec(Each(Turn, MQTT_TEST_LIST_MULTI), 1, "next")
           ended == Sec(Each(Unsubscribe, MQTT_TEST_LIST_MULTI), 2, "next")
           final == Sec(<<D(SUB)>>, 2, "end")
           c == Sec(<<C(PUB)>>, 1, "end")
           d1 == Sec(<<D(PUB)>>, 2, "end")
<1>1. GoodSteps(first) /\ GoodSteps(final) /\ GoodSteps(c) /\ GoodSteps(d1)
  BY DEF GoodSteps, Sec
<1>2. GoodSteps(subscribed) /\ GoodSteps(ended)
  BY DEF GoodSteps, Sec, Each
<1>3. GoodSteps(turns)
  <2> DEFINE t == Each(Turn, MQTT_TEST_LIST_MULTI)
  <2>1. len \in 5..6
    OBVIOUS
  <2>2. \A d : Len(Turn(d)) = len /\ \A i \in 1..len : Turn(d)[i].op # "connect"
    <3> SUFFICES ASSUME NEW d
                 PROVE  Len(Turn(d)) = len /\ \A i \in 1..len : Turn(d)[i].op # "connect"
      OBVIOUS
    <3>1. \A i \in {1, 2, 3, 4, 5, 6} : six(d)[i].op # "connect"
      OBVIOUS
    <3> HIDE DEF six, len
    <3>2. Turn(d) = [i \in 1..len |-> six(d)[i]]
      BY <2>1
    <3>3. QED
      BY <2>1, <3>1, <3>2
  <2> HIDE DEF Turn, len
  <2>3. t = [i \in 1..5 * len |-> Turn(((i - 1) \div len) + 1)[((i - 1) % len) + 1]]
    BY <2>2 DEF Each
  <2>4. 5 * len \in Nat \ {0}
    BY <2>1
  <2>5. Len(t) = 5 * len
    BY <2>3, <2>4
  <2>6. ASSUME NEW j \in 1..5 * len PROVE t[j].op # "connect"
    <3>1. t[j] = Turn(((j - 1) \div len) + 1)[((j - 1) % len) + 1]
      BY <2>3
    <3>2. ((j - 1) % len) + 1 \in 1..len
      BY <2>1, <2>4
    <3> HIDE DEF t
    <3>3. QED
      BY <2>2, <3>1, <3>2
  <2> HIDE DEF t
  <2>7. GoodSteps(Sec(t, 1, "next"))
    BY <2>4, <2>5, <2>6, NoConnectIsGood
  <2>8. QED
    BY <2>7 DEF t, Each
<1>4. mqtttest_multi(same) = IF same THEN <<first, subscribed, turns, ended, final>>
                             ELSE <<first, subscribed, c, turns, d1, ended, final>>
  BY DEF mqtttest_multi
<1> HIDE DEF first, subscribed, turns, ended, final, c, d1
<1>5. QED
  BY <1>1, <1>2, <1>3, <1>4 DEF GoodTest

(* ... error_connect, ... *)
LEMMA ErrorConnectIsGood == \A case : GoodTest(mqtttest_error_connect(case))
<1> SUFFICES ASSUME NEW case PROVE GoodTest(mqtttest_error_connect(case)) OBVIOUS
<1> DEFINE Subscribe(d) == <<S(SUB, topiclist[IF case = 0 THEN d ELSE 1], 0)>>
        Unsubscribe(d) == <<U(SUB, topiclist[IF case = 0 THEN d ELSE 1])>>
        turns == IF case = 0 THEN 6 ELSE 2
        good == IF case = 0 THEN MQTT_TEST_LIST_MULTI ELSE 1
        a == Sec(<<C(SUB)>>, 0, "end")
        b == Sec(<<U(SUB, topiclist[1])>>, 1, "next")
        c == Sec(<<D(SUB)>>, 0, "end")
        d1 == Sec(Each(Subscribe, turns), 1, "next")
        e == Sec(<<[op |-> "count", n |-> good]>>, 0, "end")
        f == Sec(Each(Unsubscribe, turns), 0, "next")
<1>1. GoodSteps(a) /\ GoodSteps(b) /\ GoodSteps(c) /\ GoodSteps(e)
  BY DEF GoodSteps, Sec
<1>2. GoodSteps(d1)
  BY DEF GoodSteps, Sec, Each
<1>3. GoodSteps(f)
  BY DEF GoodSteps, Sec, Each
<1>5. mqtttest_error_connect(case) = IF case = 1 THEN <<a, b, c>> ELSE <<a, d1, e, f, c>>
  BY DEF mqtttest_error_connect
<1> HIDE DEF a, b, c, d1, e, f
<1>6. QED
  BY <1>1, <1>2, <1>3, <1>5 DEF GoodTest

(* ... retain, ... *)
LEMMA RetainIsGood == GoodTest(mqtttest_retain)
<1> DEFINE body1 == <<Do("reset_last"), Do("random"), P(PUB, "RETAIN", 0, 1),
                      Y(SUB), Cmp("rand", 0, 0)>>
           body2 == <<Do("reset_last"), C(SUB), S(SUB, "RETAIN", 0), Y(SUB),
                      Cmp("rand", 0, 1), U(SUB, "RETAIN"), D(SUB)>>
           a == Sec(<<C(SUB), S(SUB, "RETAIN", 0), C(PUB), Y(SUB),
                      Cmp("first", 0, 1)>>, 1, "end")
           b == Sec(Times(Loop, body1), 1, "next")
           c == Sec(<<D(PUB), U(SUB, "RETAIN"), D(SUB)>>, 2, "end")
           d == Sec(<<Do("check")>>, 0, "end")
           e == Sec(Times(Loop, body2), 1, "end")
<1>1. GoodSteps(a) /\ GoodSteps(c) /\ GoodSteps(d)
  BY DEF GoodSteps, Sec
<1>2. GoodSteps(b)
  <2>1. /\ Len(body1) \in Nat \ {0}
        /\ \A i \in 1..Len(body1) : body1[i].op = "connect" => body1[i].s \in Sockets
    OBVIOUS
  <2> HIDE DEF body1
  <2>2. QED
    BY <2>1, LoopIsGood
<1>3. GoodSteps(e)
  <2>1. /\ Len(body2) \in Nat \ {0}
        /\ \A i \in 1..Len(body2) : body2[i].op = "connect" => body2[i].s \in Sockets
    OBVIOUS
  <2> HIDE DEF body2
  <2>2. QED
    BY <2>1, LoopIsGood
<1>4. mqtttest_retain = <<a, b, c, d, e>>
  BY DEF mqtttest_retain
<1> HIDE DEF a, b, c, d, e
<1>5. QED
  BY <1>1, <1>2, <1>3, <1>4 DEF GoodTest

(* ... will ... *)
LEMMA WillIsGood == GoodTest(mqtttest_will)
<1> DEFINE body == <<Do("random_will"), CW(PUB), Do("reset_last"),
                     Do("random"), P(PUB, "DEF", 0, 0), Y(SUB),
                     Cmp("rand", 0, 0), Do("reset_last"), Do("usleep"),
                     Y(WILL), Cmp("will", 0, 0), Do("drop_pub")>>
           a == Sec(<<C(SUB), S(SUB, "DEF", 0), C(WILL), S(WILL, "WILL", 0)>>, 1, "end")
           b == Sec(Times(Loop, body), 1, "next")
           c == Sec(<<U(WILL, "WILL"), D(WILL), U(SUB, "DEF"), D(SUB)>>, 2, "end")
<1>1. GoodSteps(a) /\ GoodSteps(c)
  BY DEF GoodSteps, Sec
<1>2. GoodSteps(b)
  <2>1. /\ Len(body) \in Nat \ {0}
        /\ \A i \in 1..Len(body) : body[i].op = "connect" => body[i].s \in Sockets
    OBVIOUS
  <2> HIDE DEF body
  <2>2. QED
    BY <2>1, LoopIsGood
<1>3. mqtttest_will = <<a, b, c>>
  BY DEF mqtttest_will
<1> HIDE DEF a, b, c
<1>4. QED
  BY <1>1, <1>2, <1>3 DEF GoodTest

(* ... and error_disconnect. *)
LEMMA ErrorDisconnectIsGood ==
  ASSUME NEW case \in {0, 1, 2} PROVE GoodTest(mqtttest_error_disconnect(case))
<1> DEFINE x == CASE case = 0 -> P(PUB, topiclist[1], 0, 0)
                  [] case = 1 -> S(SUB, topiclist[1], 0)
                  [] case = 2 -> U(SUB, topiclist[1])
           a == Sec(<<Do("random"), x>>, 1, "end")
<1>1. x.op # "connect"
  OBVIOUS
<1> HIDE DEF x
<1>2. GoodSteps(a)
  BY <1>1 DEF GoodSteps, Sec
<1>3. mqtttest_error_disconnect(case) = <<a>>
  BY DEF mqtttest_error_disconnect, x
<1> HIDE DEF a
<1>4. QED
  BY <1>2, <1>3 DEF GoodTest

(* So is the whole table. *)
LEMMA TableGood == TableIsGood
<1>1. \A same \in BOOLEAN : GoodTest(mqtttest_multi(same))
  BY MultiIsGood, Zenon
<1>2. \A case \in {0, 1, 2} : GoodTest(mqtttest_error_disconnect(case))
  BY ErrorDisconnectIsGood, Zenon
<1>3. GoodTest(mqtttest_multi(TRUE)) /\ GoodTest(mqtttest_multi(FALSE))
  BY <1>1
<1>4. /\ GoodTest(mqtttest_qos(0)) /\ GoodTest(mqtttest_qos(1)) /\ GoodTest(mqtttest_qos(2))
      /\ GoodTest(mqtttest_wildcard("w0")) /\ GoodTest(mqtttest_wildcard("w1"))
      /\ GoodTest(mqtttest_wildcard("w2"))
      /\ GoodTest(mqtttest_error_connect(0)) /\ GoodTest(mqtttest_error_connect(1))
      /\ GoodTest(mqtttest_error_connect(2))
      /\ GoodTest(mqtttest_error_disconnect(0)) /\ GoodTest(mqtttest_error_disconnect(1))
      /\ GoodTest(mqtttest_error_disconnect(2))
  BY <1>2, QosIsGood, WildIsGood, ErrorConnectIsGood, Zenon
<1>5. SUFFICES ASSUME NEW t \in DOMAIN mqtttest_site
               PROVE  GoodTest(mqtttest_site[t])
  BY DEF TableIsGood
<1>6. t \in {"t03", "t10", "t12", "t14", "t16", "t18", "t20", "t22", "t30", "t32",
            "t34", "t40", "t41", "t42", "t43", "t44", "t45"}
  BY <1>5 DEF mqtttest_site
<1>7. /\ mqtttest_site["t03"] = mqtttest_connect
      /\ mqtttest_site["t10"] = mqtttest_qos(0)
      /\ mqtttest_site["t12"] = mqtttest_qos(1)
      /\ mqtttest_site["t14"] = mqtttest_qos(2)
      /\ mqtttest_site["t16"] = mqtttest_retain
      /\ mqtttest_site["t18"] = mqtttest_will
      /\ mqtttest_site["t20"] = mqtttest_multi(FALSE)
      /\ mqtttest_site["t22"] = mqtttest_multi(TRUE)
      /\ mqtttest_site["t30"] = mqtttest_wildcard("w0")
      /\ mqtttest_site["t32"] = mqtttest_wildcard("w1")
      /\ mqtttest_site["t34"] = mqtttest_wildcard("w2")
      /\ mqtttest_site["t40"] = mqtttest_error_connect(0)
      /\ mqtttest_site["t41"] = mqtttest_error_connect(1)
      /\ mqtttest_site["t42"] = mqtttest_error_connect(2)
      /\ mqtttest_site["t43"] = mqtttest_error_disconnect(0)
      /\ mqtttest_site["t44"] = mqtttest_error_disconnect(1)
      /\ mqtttest_site["t45"] = mqtttest_error_disconnect(2)
  BY DEF mqtttest_site
<1>8. QED
  BY <1>3, <1>4, <1>6, <1>7, ConnectIsGood, RetainIsGood, WillIsGood

HIDE DEF SUB, PUB, WILL, C, CW, S, U, P, Y, D, Cmp, Do, Sockets, MQTT_TEST_LIST_MULTI

-----------------------------------------------------------------------------
(* The results of a test. *)

Values == {FAILURE} \cup -5..2

TestInvariant ==
    /\ test \in Tests \cup {"off"}
    /\ main \in {"run", "test"} => test \in Tests
    /\ verdict \in {"none", "OK", "ERR"}
    /\ result \in Values
    /\ result2 \in {FAILURE, 0}
    /\ InRange

FlagsInvariant ==
    passed \in BOOLEAN /\ mistaken \in BOOLEAN /\ disturbed \in BOOLEAN

(* What the table tells of the step that is next. *)
LEMMA StepIsGood ==
  ASSUME TestInvariant, main = "test", at # Done
  PROVE  /\ at[1] \in 1..Len(Sections) /\ Len(Sections) \in Nat
         /\ at[2] \in 1..Len(Section.steps)
         /\ \A i \in 1..Len(Sections) : Len(Sections[i].steps) \in Nat \ {0}
         /\ Step.op = "connect" => Step.s \in Sockets
         /\ Section.var = 2 => Step.op \in {"unsubscribe", "disconnect"}
<1>1. GoodTest(Sections)
  <2>1. test \in DOMAIN mqtttest_site
    BY TestsAssumption DEF TestInvariant
  <2>2. QED
    BY <2>1, TableGood DEF TableIsGood, Sections
<1>2. /\ at[1] \in 1..Len(Sections)
      /\ at[2] \in 1..Len(Section.steps)
  BY DEF TestInvariant, InRange
<1>3. GoodSteps(Section)
  BY <1>1, <1>2 DEF GoodTest, Section
<1>4. /\ Step.op = "connect" => Step.s \in Sockets
      /\ Section.var = 2 => Step.op \in {"unsubscribe", "disconnect"}
  BY <1>2, <1>3 DEF GoodSteps, Step
<1>5. /\ Len(Sections) \in Nat
      /\ \A i \in 1..Len(Sections) : Len(Sections[i].steps) \in Nat \ {0}
  BY <1>1 DEF GoodTest, GoodSteps
<1>6. QED
  BY <1>2, <1>4, <1>5

(* Whatever Advance is told, the test goes on to the next step or to the    *)
(* next section, if there is one, or is through.                            *)
Moves ==
    \/ at' = <<at[1], at[2] + 1>> /\ at[2] # Len(Section.steps)
    \/ at' = <<at[1] + 1, 1>> /\ at[1] < Len(Sections)
    \/ at' = Done

(* Moving on stays within the test. *)
LEMMA MovesInRange ==
  ASSUME TestInvariant, main = "test", at # Done, Moves, UNCHANGED test
  PROVE  InRange'
<1> DEFINE secs == Sections
<1>1. /\ at[1] \in 1..Len(secs) /\ Len(secs) \in Nat
      /\ at[2] \in 1..Len(secs[at[1]].steps)
      /\ \A i \in 1..Len(secs) : Len(secs[i].steps) \in Nat \ {0}
  BY StepIsGood DEF Section
<1>2. \/ at' = <<at[1], at[2] + 1>> /\ at[2] # Len(secs[at[1]].steps)
      \/ at' = <<at[1] + 1, 1>> /\ at[1] < Len(secs)
      \/ at' = Done
  BY DEF Moves, Section
<1>3. secs' = secs
  BY DEF Sections
<1> HIDE DEF secs
<1>4. \/ at' = Done
      \/ /\ at'[1] \in 1..Len(secs)
         /\ at'[2] \in 1..Len(secs[at'[1]].steps)
  BY <1>1, <1>2, SMTT(60)
<1>5. QED
  BY <1>3, <1>4 DEF InRange, Section, secs

(* Storing a result keeps the types of the results. *)
LEMMA StoreTyped ==
  ASSUME TestInvariant, NEW v \in Values, Store(v),
         Section.var = 2 => v \in {FAILURE, 0}
  PROVE  result' \in Values /\ result2' \in {FAILURE, 0}
BY DEF TestInvariant, Store

(* An outcome of a step keeps the test invariant, ... *)
LEMMA OutcomeTyped ==
  ASSUME TestInvariant, main = "test", at # Done, UNCHANGED mainVars,
         NEW v \in Values, Outcome(v), Section.var = 2 => v \in {FAILURE, 0}
  PROVE  TestInvariant'
<1>1. Moves /\ Store(v)
  BY DEF Outcome, Advance, Moves
<1>2. UNCHANGED <<main, test, verdict>>
  BY DEF mainVars
<1>3. InRange' /\ result' \in Values /\ result2' \in {FAILURE, 0}
  BY <1>1, <1>2, MovesInRange, StoreTyped
<1>4. QED
  BY <1>2, <1>3 DEF TestInvariant

(* ... and so does every step of a test. *)
LEMMA TestStepTyped ==
  ASSUME TestInvariant, TestStep
  PROVE  TestInvariant'
<1>0. main = "test" /\ at # Done /\ UNCHANGED mainVars
  BY TestStepFrame DEF TestStep, At, mqtt_test_connect, mqtt_test_subscribe,
     mqtt_test_unsubscribe, mqtt_test_publish, mqtt_test_yield,
     mqtt_test_disconnect, random_message, mqtt_test_reset_last,
     mqtt_test_compare_last, usleep, CheckResult
<1>1. CASE \E v \in Values : Outcome(v) /\ (Section.var = 2 => v \in {FAILURE, 0})
  BY <1>0, <1>1, OutcomeTyped
<1>2. CASE Moves /\ result' \in Values /\ result2' \in {FAILURE, 0}
  BY <1>0, <1>2, MovesInRange DEF TestInvariant, mainVars
<1>3. FAILURE \in Values /\ 0 \in Values
  BY DEF Values, FAILURE
<1>4. Section.var = 2 => Step.op \in {"unsubscribe", "disconnect"}
  BY <1>0, StepIsGood
<1>5. CASE mqtt_test_connect
  <2>1. Step.s \in Sockets /\ Section.var # 2
    BY <1>0, <1>4, <1>5, StepIsGood DEF mqtt_test_connect, At
  <2>2. Step.s \in Values
    BY <2>1 DEF Sockets, SUB, PUB, WILL, Values
  <2>3. Outcome(Step.s) \/ Outcome(FAILURE)
    BY <1>5 DEF mqtt_test_connect
  <2>4. QED
    BY <1>1, <1>3, <2>1, <2>2, <2>3
<1>6. CASE \/ mqtt_test_subscribe \/ mqtt_test_unsubscribe \/ mqtt_test_publish
           \/ mqtt_test_yield
  <2>1. Outcome(0) \/ Outcome(FAILURE)
    BY <1>6 DEF mqtt_test_subscribe, mqtt_test_unsubscribe, mqtt_test_publish,
                mqtt_test_yield
  <2>2. QED
    BY <1>1, <1>3, <2>1
<1>7. CASE mqtt_test_disconnect
  <2>1. \/ Outcome(0) \/ Outcome(FAILURE)
        \/ Moves /\ UNCHANGED <<result, result2>>
    BY <1>7 DEF mqtt_test_disconnect, Advance, Moves
  <2>2. QED
    BY <1>1, <1>2, <1>3, <2>1 DEF TestInvariant
<1>8. CASE random_message \/ mqtt_test_reset_last \/ usleep
  <2>1. Moves /\ UNCHANGED <<result, result2>>
    BY <1>8 DEF random_message, mqtt_test_reset_last, usleep, Advance, Moves
  <2>2. QED
    BY <1>2, <2>1 DEF TestInvariant
<1>9. CASE mqtt_test_compare_last
  <2>1. Section.var # 2
    BY <1>4, <1>9 DEF mqtt_test_compare_last, At
  <2>2. \A q, r, m : ComparedLast(q, r, m) \in Values /\ ERROR_COUNT \in Values
    BY DEF ComparedLast, Values, ERROR_COUNT, ERROR_QOS, ERROR_RETAIN, ERROR_DUP,
           ERROR_MESSAGE
  <2>3. Moves /\ \E v \in Values : Store(v)
    <3> DEFINE m == CASE Step.what = "will" -> willmes
                      [] Step.what = "first" -> 0
                      [] OTHER -> randmes
               v == ComparedLast(Step.q, Step.r, m)
    <3>1. \/ Advance(v \in FirstAccepted) /\ Store(v)
          \/ Outcome(IF v = ERROR_COUNT THEN 0 ELSE ERROR_COUNT)
          \/ Outcome(v)
      BY <1>9 DEF mqtt_test_compare_last
    <3>2. v \in Values /\ ERROR_COUNT \in Values
      BY <2>2
    <3> HIDE DEF v
    <3>3. Moves
      BY <3>1 DEF Outcome, Advance, Moves
    <3>4. Store(v) \/ Store(IF v = ERROR_COUNT THEN 0 ELSE ERROR_COUNT)
      BY <3>1 DEF Outcome
    <3>5. QED
      BY <1>3, <3>2, <3>3, <3>4
  <2>4. result' \in Values /\ result2' \in {FAILURE, 0}
    BY <2>1, <2>3, StoreTyped
  <2>5. QED
    BY <1>2, <2>3, <2>4
<1>10. CASE CheckResult
  <2>1. /\ Moves
        /\ result' \in {result, 0}
        /\ UNCHANGED result2
    BY <1>10 DEF CheckResult, Advance, Moves
  <2>2. QED
    BY <1>2, <1>3, <2>1 DEF TestInvariant
<1>11. QED
  BY <1>5, <1>6, <1>7, <1>8, <1>9, <1>10 DEF TestStep

(* The test invariant holds at the start, ... *)
LEMMA InitTest == Init => TestInvariant /\ FlagsInvariant
<1> SUFFICES ASSUME Init PROVE TestInvariant /\ FlagsInvariant
  OBVIOUS
<1>1. TestInvariant
  BY DEF Init, TestInvariant, InRange, Values, FAILURE
<1>2. FlagsInvariant
  BY DEF Init, FlagsInvariant
<1>3. QED
  BY <1>1, <1>2

(* ... every step keeps it, ... *)
LEMMA NextTest == TestInvariant /\ [Next]_vars => TestInvariant'
<1> SUFFICES ASSUME TestInvariant, [Next]_vars PROVE TestInvariant'
  OBVIOUS
<1>1. CASE \E arg \in Tests \cup {"off"} : mqtt_main(arg)
  <2>1. PICK arg \in Tests \cup {"off"} : mqtt_main(arg)
    BY <1>1
  <2>2. /\ test' = arg /\ verdict' = "none" /\ UNCHANGED <<result, result2>>
        /\ main' \in {"disconnect", "connect"} \/ (main' = "run" /\ arg # "off")
    BY <2>1 DEF mqtt_main, testVars
  <2>3. QED
    BY <2>2 DEF TestInvariant, InRange
<1>2. CASE (AppStep /\ UNCHANGED mqttVars) \/ Library \/ Modem \/ UNCHANGED vars
  <2>1. UNCHANGED mqttVars
    BY <1>2 DEF Library, Modem, vars
  <2>2. QED
    BY <2>1 DEF mqttVars, TestInvariant, InRange, Section, Sections
<1>3. CASE Connected \/ Disconnected
  <2>1. /\ UNCHANGED <<test, verdict, result, result2>>
        /\ main' = "shell" \/ (main' = "run" /\ test # "off")
    BY <1>3 DEF Connected, Disconnected, testVars
  <2>2. QED
    BY <2>1 DEF TestInvariant, InRange
<1>4. CASE RunTest
  <2>1. /\ main = "run" /\ main' = "test" /\ at' = <<1, 1>>
        /\ result' = 0 /\ result2' = 0 /\ UNCHANGED <<test, verdict>>
    BY <1>4 DEF RunTest
  <2>2. test \in DOMAIN mqtttest_site
    BY <2>1, TestsAssumption DEF TestInvariant
  <2>3. GoodTest(Sections)
    BY <2>2, TableGood DEF TableIsGood, Sections
  <2>4. Len(Sections) \in Nat \ {0} /\ Len(Sections[1].steps) \in Nat \ {0}
    BY <2>3 DEF GoodTest, GoodSteps
  <2>5. Sections' = Sections
    BY <2>1 DEF Sections
  <2>6. InRange'
    BY <2>1, <2>4, <2>5 DEF InRange, Section
  <2>7. QED
    BY <2>1, <2>6 DEF TestInvariant, Values
<1>5. CASE TestStep
  BY <1>5, TestStepTyped
<1>6. CASE TestDone
  <2>1. /\ main' = "shell" /\ UNCHANGED <<test, result, result2>>
        /\ verdict' \in {"OK", "ERR"}
    BY <1>6 DEF TestDone, Verdict
  <2>2. QED
    BY <2>1 DEF TestInvariant, InRange
<1>7. CASE Restart \/ Redeliver
  <2>1. UNCHANGED <<main, test, verdict, at, result, result2>>
    BY <1>7 DEF Restart, Redeliver
  <2>2. QED
    BY <2>1 DEF TestInvariant, InRange, Section, Sections
<1>8. QED
  BY <1>1, <1>2, <1>3, <1>4, <1>5, <1>6, <1>7 DEF Next, Application

(* ... and the flags stay right. *)
LEMMA NextFlags == FlagsInvariant /\ [Next]_vars => FlagsInvariant'
<1> SUFFICES ASSUME FlagsInvariant, [Next]_vars PROVE FlagsInvariant'
  OBVIOUS
<1>1. passed' \in BOOLEAN
  <2>1. UNCHANGED passed \/ passed' = TRUE \/ passed' = FALSE
    BY DEF Next, mqtt_main, Application, Connected, Disconnected, RunTest, TestDone,
       Library, Modem, Restart, Redeliver, vars, mqttVars, testVars, TestStep, mqtt_test_connect,
       mqtt_test_subscribe, mqtt_test_unsubscribe, mqtt_test_publish, mqtt_test_yield,
       mqtt_test_disconnect, random_message, mqtt_test_reset_last,
       mqtt_test_compare_last, usleep, CheckResult
  <2>2. QED
    BY <2>1 DEF FlagsInvariant
<1>2. mistaken' \in BOOLEAN
  <2>1. UNCHANGED mistaken \/ mistaken' = TRUE \/ mistaken' = FALSE
    BY DEF Next, mqtt_main, Application, Connected, Disconnected, RunTest, TestDone,
       Library, Modem, Restart, Redeliver, vars, mqttVars, testVars, TestStep, mqtt_test_connect,
       mqtt_test_subscribe, mqtt_test_unsubscribe, mqtt_test_publish, mqtt_test_yield,
       mqtt_test_disconnect, random_message, mqtt_test_reset_last,
       mqtt_test_compare_last, usleep, CheckResult
  <2>2. QED
    BY <2>1 DEF FlagsInvariant
<1>3. disturbed' \in BOOLEAN
  <2>1. UNCHANGED disturbed \/ disturbed' = TRUE \/ disturbed' = FALSE
    BY DEF Next, mqtt_main, Application, Connected, Disconnected, RunTest, TestDone,
       Library, Modem, Restart, Redeliver, vars, mqttVars, testVars, TestStep, mqtt_test_connect,
       mqtt_test_subscribe, mqtt_test_unsubscribe, mqtt_test_publish, mqtt_test_yield,
       mqtt_test_disconnect, random_message, mqtt_test_reset_last,
       mqtt_test_compare_last, usleep, CheckResult, LibraryFails, Arrived
  <2>2. QED
    BY <2>1 DEF FlagsInvariant
<1>4. QED
  BY <1>1, <1>2, <1>3 DEF FlagsInvariant

(* Every variable of the program, the library, the modem and the broker has *)
(* its type in every run of every test of mqtttest_site.                    *)
THEOREM MqttTypeCorrect == Spec => []TypeOK
<1> DEFINE IInv == ConnectionInvariant /\ SocketsInvariant /\ TestInvariant
                   /\ FlagsInvariant
<1>1. Init => IInv
  BY InitConnection, InitSockets, InitTest
<1>2. IInv /\ [Next]_vars => IInv'
  BY NextConnection, NextSockets, NextTest, NextFlags
<1>3. IInv => TypeOK
  BY DEF ConnectionInvariant, LteShape, Steady, Control, SocketsInvariant, Linked,
         LinkShape, TestInvariant, Values, FlagsInvariant, TypeOK
<1>4. QED
  BY <1>1, <1>2, <1>3, PTL DEF Spec

-----------------------------------------------------------------------------
(* What is known before a step of a test. *)

(* The connection of the subscriber: its filters, how many they are, what  *)
(* is due on it: nothing, what was published, what is retained and known,   *)
(* or possibly something that is retained.                                  *)
Off == <<"off", {}, 0, "none">>
On(topics, n, due) == <<"on", topics, n, due>>

(* A note: the three connections, the last message, how far the message     *)
(* drawn last has got, whether it is the retained one, and the results.     *)
Known(sub, pub, wil, last_, told, kept, res) ==
    [sub |-> sub[1], topics |-> sub[2], n |-> sub[3], due |-> sub[4], pub |-> pub,
     wil |-> wil, last |-> last_, told |-> told, kept |-> kept, res |-> res]
Plain(sub, pub) == Known(sub, pub, "off", "any", "none", FALSE, "good")
Blank == Plain(Off, "off")

(* The tests that never connect; the quality of service a test publishes with. *)
Unconnected == {"t43", "t44", "t45"}
QoS(t) == IF t = "t12" THEN 1 ELSE IF t = "t14" THEN 2 ELSE 0

(* The steps whose outcome is stored in result or result2. *)
Stores(st) == st.op \in {"connect", "subscribe", "unsubscribe", "publish", "yield",
                         "disconnect", "compare"}

(* Whether a step is to succeed, by what is known before it. *)
Succeeds(st, a) ==
    CASE st.op = "subscribe" /\ st.s = SUB -> a.sub = "on" /\ st.t \notin a.topics /\ a.n < 5
      [] st.op = "unsubscribe" /\ st.s = SUB -> a.sub = "on" /\ st.t \in a.topics
      [] st.op = "publish" /\ st.s = SUB -> a.sub = "on"
      [] st.op = "publish" /\ st.s # SUB -> a.pub = "on"
      [] OTHER -> TRUE

(* What has to be known before a step, operation by operation. *)
NeedsConnect(tst, st, a) ==
    /\ tst \notin Unconnected
    /\ st.s = WILL => a.last = "any"
NeedsSubscribe(tst, st, a) ==
    \/ st.s = SUB /\ (st.t = "RETAIN" => a.due = "none" /\ tst = "t16") /\ st.t # "none"
    \/ st.s = WILL /\ st.t = "WILL" /\ a.wil = "on"
NeedsUnsubscribe(st, a) ==
    \/ st.s = SUB /\ a.due = "none"
    \/ st.s = WILL /\ st.t = "WILL" /\ a.wil = "heard"
NeedsPublish(tst, st, a) ==
    /\ st.s \in {SUB, PUB}
    /\ st.t # "WILL"
    /\ a.told = "drawn"
    /\ \/ st.r = 0
       \/ st.r = 1 /\ st.t = "RETAIN" /\ tst = "t16"
    /\ Succeeds(st, a) => a.due = "none" /\ a.last \in {"any", "none"} /\ st.q = QoS(tst)
NeedsYield(st, a) ==
    \/ /\ st.s = SUB /\ a.sub = "on"
       /\ \/ a.last = "none" /\ a.due # "some"
          \/ a.due = "some" /\ a.last = "first"
       /\ a.due = "kept" => a.kept
       /\ a.due = "none" => a.wil = "off"
       /\ a.due \in {"none", "pub", "kept", "some"}
    \/ st.s = PUB /\ a.pub = "on"
    \/ st.s = WILL /\ a.wil = "due" /\ a.last = "none"
NeedsDisconnect(st, a) ==
    \/ st.s = SUB /\ a.sub = "on"
    \/ st.s = PUB /\ a.pub = "on"
    \/ st.s = WILL /\ a.wil # "off"
NeedsCompare(tst, st, a) ==
    \/ /\ st.what = "rand" /\ a.told = "passed"
       /\ \/ a.last = "pub" /\ st.q = QoS(tst) /\ st.r = 0
          \/ a.last = "kept" /\ a.kept /\ st.q = 0 /\ st.r = 1
    \/ st.what = "none" /\ a.last = "none"
    \/ st.what = "will" /\ a.last = "will" /\ st.q = 0 /\ st.r = 0
    \/ st.what = "first" /\ a.last = "first" /\ st.q = 0 /\ st.r = 1 /\ tst = "t16"

Needs(tst, st, a) ==
    /\ a.told = "sent" => st.op = "yield"
    /\ CASE st.op = "connect" -> NeedsConnect(tst, st, a)
         [] st.op = "subscribe" -> NeedsSubscribe(tst, st, a)
         [] st.op = "unsubscribe" -> NeedsUnsubscribe(st, a)
         [] st.op = "publish" -> NeedsPublish(tst, st, a)
         [] st.op = "yield" -> NeedsYield(st, a)
         [] st.op = "disconnect" -> NeedsDisconnect(st, a)
         [] st.op = "random_will" -> a.wil # "due" /\ a.last # "will"
         [] st.op = "compare" -> NeedsCompare(tst, st, a)
         [] st.op = "usleep" -> /\ a.pub = "on" /\ a.wil = "heard"
                                /\ a.topics = {"DEF"} /\ a.last # "will"
         [] st.op = "check" -> a.res = "good"
         [] st.op = "count" -> a.res = "bad" /\ a.told # "if"
         [] OTHER -> TRUE

(* What is known after a step that succeeds. *)
ThenSub(st, a) ==
    CASE st.op = "connect" /\ st.s = SUB -> "on"
      [] st.op = "disconnect" /\ st.s = SUB -> "off"
      [] OTHER -> a.sub

ThenTopics(st, a) ==
    CASE st.op \in {"connect", "disconnect"} /\ st.s = SUB -> {}
      [] st.op = "subscribe" /\ st.s = SUB -> a.topics \cup {st.t}
      [] st.op = "unsubscribe" /\ st.s = SUB -> a.topics \ {st.t}
      [] OTHER -> a.topics

ThenN(st, a) ==
    CASE st.op \in {"connect", "disconnect"} /\ st.s = SUB -> 0
      [] st.op = "subscribe" /\ st.s = SUB -> a.n + 1
      [] st.op = "unsubscribe" /\ st.s = SUB -> a.n - 1
      [] OTHER -> a.n

ThenDue(st, a) ==
    CASE st.op \in {"connect", "disconnect", "yield"} /\ st.s = SUB -> "none"
      [] st.op = "subscribe" /\ st.s = SUB /\ st.t = "RETAIN" ->
            IF a.kept THEN "kept" ELSE "some"
      [] st.op = "publish" ->
            IF \E f \in a.topics : Matches(f, st.t) THEN "pub" ELSE a.due
      [] OTHER -> a.due

ThenPub(st, a) ==
    CASE st.op = "connect" /\ st.s = PUB -> "on"
      [] st.op = "disconnect" /\ st.s = PUB -> "off"
      [] st.op = "drop_pub" -> "off"
      [] st.op = "usleep" -> "down"
      [] OTHER -> a.pub

ThenWil(st, a) ==
    CASE st.op = "connect" /\ st.s = WILL -> "on"
      [] st.op = "disconnect" /\ st.s = WILL -> "off"
      [] st.op = "subscribe" /\ st.s = WILL -> "heard"
      [] st.op = "unsubscribe" /\ st.s = WILL -> "on"
      [] st.op = "yield" /\ st.s = WILL -> "heard"
      [] st.op = "usleep" -> "due"
      [] OTHER -> a.wil

ThenLast(st, a) ==
    CASE st.op = "reset_last" -> "none"
      [] st.op = "unsubscribe" -> "any"
      [] st.op = "yield" /\ st.s = WILL -> "will"
      [] st.op = "yield" /\ st.s = SUB -> IF a.due = "none" THEN a.last
                                         ELSE IF a.due = "some" THEN "first"
                                         ELSE a.due
      [] OTHER -> a.last

ThenTold(st, var, a) ==
    CASE st.op = "random" -> "drawn"
      [] st.op \in {"random_will", "usleep"} -> "none"
      [] st.op = "publish" -> "sent"
      [] st.op = "yield" /\ a.told = "sent" -> "passed"
      [] st.op = "check" /\ a.told = "if" -> "passed"
      [] Stores(st) /\ var = 1 /\ a.told = "if" -> "none"
      [] OTHER -> a.told

ThenKept(st, a) == IF st.op = "publish" THEN st.r = 1 ELSE a.kept

ThenRes(st, var, a) ==
    IF var = 1 /\ Stores(st)
    THEN IF st.op = "compare" /\ st.what = "first" THEN "any" ELSE "good"
    ELSE a.res

(* x tells all that y tells. *)
ToldMore(x, y) == \/ x = y
                  \/ y = "none" /\ x # "sent"
                  \/ y = "if" /\ x = "passed"

(* A step that succeeds leads from a to c; ... *)
Leads(var, st, a, c) ==
    /\ c.sub = ThenSub(st, a) /\ c.topics = ThenTopics(st, a)
    /\ c.n = ThenN(st, a) /\ c.due = ThenDue(st, a)
    /\ c.pub = ThenPub(st, a)
    /\ c.wil = ThenWil(st, a)
    /\ c.last \in {"any", ThenLast(st, a)}
    /\ ToldMore(ThenTold(st, var, a), c.told)
    /\ c.kept => ThenKept(st, a)
    /\ c.res \in {"any", ThenRes(st, var, a)}
Chain(tst, var, st, a, c) == Needs(tst, st, a) /\ Succeeds(st, a) /\ Leads(var, st, a, c)
(* ... a step that has to fail does. *)
Refused(tst, var, st, a, c) ==
    /\ Needs(tst, st, a) /\ ~Succeeds(st, a)
    /\ st.op # "publish" /\ var # 2
    /\ c.sub = a.sub /\ c.topics = a.topics /\ c.n = a.n /\ c.due = a.due
    /\ c.pub = a.pub /\ c.wil = a.wil
    /\ c.last = "any" /\ c.told = "none" /\ ~c.kept
    /\ c.res = IF var = 1 THEN "bad" ELSE a.res
Ends(tst, var, st, a) ==
    /\ Needs(tst, st, a)
    /\ IF tst \in NeedToFail
       THEN IF Succeeds(st, a) THEN ThenRes(st, var, a) = "bad" ELSE var = 1
       ELSE Succeeds(st, a) /\ ThenRes(st, var, a) = "good"
    /\ st.op = "publish" => tst \in Unconnected

(* What may be known behind a section that a failing step has cut short. *)
FailNote(sec, c) ==
    sec.fail = "next" =>
        c.last = "any" /\ (c.told = "none" \/ (c.told = "if" /\ sec.var = 1))

(* Every step of a section leads to the next one; ... *)
SectionSound(tst, sec, notes) ==
    /\ Len(notes) = Len(sec.steps)
    /\ \A j \in 1..Len(sec.steps) - 1 :
          Chain(tst, sec.var, sec.steps[j], notes[j], notes[j + 1])
    /\ \A j \in 1..Len(sec.steps) : sec.steps[j].op = "count" => j = 1

(* ... its last step leads to the next section; ... *)
LinkSound(tst, sec, notes, next, c) ==
    LET k == Len(sec.steps) IN
    /\ FailNote(sec, c)
    /\ \/ /\ Chain(tst, sec.var, sec.steps[k], notes[k], c)
          /\ next.steps[1].op # "count"
       \/ /\ Refused(tst, sec.var, sec.steps[k], notes[k], c)
          /\ sec.fail = "next" /\ tst \in NeedToFail
          /\ next.steps[1].op = "count" => next.steps[1].n = k - 1

(* ... and the whole test from its start to its verdict. *)
Start(tst) == Known(Off, "off", "off", IF tst = "t16" THEN "first" ELSE "any",
                    "none", FALSE, "good")

SoundTest(tst, secs, notes) ==
    /\ Len(notes) = Len(secs)
    /\ notes[1][1] = Start(tst)
    /\ \A i \in 1..Len(secs) : SectionSound(tst, secs[i], notes[i])
    /\ \A i \in 1..Len(secs) - 1 :
          LinkSound(tst, secs[i], notes[i], secs[i + 1], notes[i + 1][1])
    /\ LET i == Len(secs)
           j == Len(secs[i].steps)
       IN Ends(tst, secs[i].var, secs[i].steps[j], notes[i][j])
    /\ secs[1].steps[1].op # "count"

-----------------------------------------------------------------------------
(* The outlines. *)
OutlineConnect == <<Times(Loop, <<Blank, Plain(On({}, 0, "none"), "off")>>)>>

(* A turn: reset, random, publish, yield, compare; and a yield of the publisher. *)
Turned(ts, n, pub, last_, told, due) ==
    Known(On(ts, n, due), pub, "off", last_, told, FALSE, "good")
Turn5(ts, n, pub, due) ==
    << Turned(ts, n, pub, "any", "none", "none"), Turned(ts, n, pub, "none", "none", "none"),
       Turned(ts, n, pub, "none", "drawn", "none"), Turned(ts, n, pub, "none", "sent", due),
       Turned(ts, n, pub, IF due = "pub" THEN "pub" ELSE "none", "passed", "none") >>
Turn6(ts, n, due) ==
    LET t == Turn5(ts, n, "on", due) IN
    << t[1], t[2], t[3], t[4], t[5], Turned(ts, n, "on", "any", "passed", "none") >>

Up(ts, n) == Plain(On(ts, n, "none"), "off")
Open(ts, n) == Plain(On(ts, n, "none"), "on")

(* Opening and closing: the publisher, the subscription, the subscriber. *)
Begin(t) == << Blank, Up({}, 0), Up({t}, 1) >>
Close(t) == << Open({t}, 1), Up({t}, 1), Up({}, 0) >>

OutlineQos == << Begin("QOS"), Times(Loop, Turn5({"QOS"}, 1, "on", "pub")),
                 Close("QOS") >>

OutlineRetain ==
    LET r(due) == On({"RETAIN"}, 1, due)
        e == On({}, 0, "none")
        F(sub, pub) == Known(sub, pub, "off", "first", "none", FALSE, "good")
        K(last_, told) == Known(r("none"), "on", "off", last_, told, FALSE, "any")
        H(sub, pub) == Known(sub, pub, "off", "any", "if", TRUE, "good")
        L(sub, last_) == Known(sub, "off", "off", last_, "passed", TRUE, "good")
    IN << << F(Off, "off"), F(e, "off"), F(r("some"), "off"), F(r("some"), "on"),
             F(r("none"), "on") >>,
          Times(Loop, << K("any", "none"), K("none", "none"), K("none", "drawn"),
                         Known(r("pub"), "on", "off", "none", "sent", TRUE, "good"),
                         Known(r("none"), "on", "off", "pub", "passed", TRUE, "good") >>),
          << H(r("none"), "on"), H(r("none"), "off"), H(e, "off") >>,
          << H(Off, "off") >>,
          Times(Loop, << L(Off, "any"), L(Off, "none"), L(e, "none"), L(r("kept"), "none"),
                         L(r("none"), "kept"), L(r("none"), "any"), L(e, "any") >>) >>

OutlineWill ==
    LET K(pub, wil, last_, told, due) ==
            Known(On({"DEF"}, 1, due), pub, wil, last_, told, FALSE, "good")
    IN << << Blank, Up({}, 0), Up({"DEF"}, 1), K("off", "on", "any", "none", "none") >>,
          Times(Loop, << K("off", "heard", "any", "none", "none"),
                         K("off", "heard", "any", "none", "none"),
                         K("on", "heard", "any", "none", "none"),
                         K("on", "heard", "none", "none", "none"),
                         K("on", "heard", "none", "drawn", "none"),
                         K("on", "heard", "none", "sent", "pub"),
                         K("on", "heard", "pub", "passed", "none"),
                         K("on", "heard", "any", "none", "none"),
                         K("on", "heard", "none", "none", "none"),
                         K("down", "due", "none", "none", "none"),
                         K("down", "heard", "will", "none", "none"),
                         K("down", "heard", "any", "none", "none") >>),
          << K("off", "heard", "any", "none", "none"), K("off", "on", "any", "none", "none"),
             Up({"DEF"}, 1), Up({}, 0) >> >>

OutlineWildcard(w) ==
    LET topic == mqtttest_wild[w].topic
        Turn(d) == Turn6({topic}, 1,
                         IF mqtttest_wild[w].answer[d] = 1 THEN "pub" ELSE "none")
    IN << Begin(topic), Each(Turn, 6), Close(topic) >>

First(k) == {topiclist[i] : i \in 1..k}
Rest(k) == {topiclist[i] : i \in k..5}
OutlineMulti(same) ==
    LET Subscribe(d) == << Up(First(d - 1), d - 1) >>
        Unsubscribe(d) == << Up(Rest(d), 6 - d) >>
        Turn(d) == IF same THEN Turn5(First(5), 5, "off", "pub")
                   ELSE Turn6(First(5), 5, "pub")
        first == << Blank >>
        subscribed == Each(Subscribe, 5)
        turns == Each(Turn, 5)
        ended == Each(Unsubscribe, 5)
        final == << Up({}, 0) >>
    IN IF same THEN << first, subscribed, turns, ended, final >>
       ELSE << first, subscribed, << Up(First(5), 5) >>, turns, << Open(First(5), 5) >>,
               ended, final >>

OutlineErrorConnect(case) ==
    LET Bad(ts, n) == Known(On(ts, n, "none"), "off", "off", "any", "none", FALSE, "bad")
        top == IF case = 0 THEN 5 ELSE 1
        Subscribe(d) == << Up(First(d - 1), d - 1) >>
        Unsubscribe(d) == << Bad({topiclist[i] : i \in d..top}, top - d + 1) >>
    IN IF case = 1
       THEN << << Blank >>, << Up({}, 0) >>, << Bad({}, 0) >> >>
       ELSE << << Blank >>, Each(Subscribe, top + 1), << Bad(First(top), top) >>,
               Each(Unsubscribe, top + 1), << Bad({}, 0) >> >>

OutlineErrorDisconnect ==
    << << Blank, Known(Off, "off", "off", "any", "drawn", FALSE, "good") >> >>

Outline ==
    [t03 |-> OutlineConnect,
     t10 |-> OutlineQos, t12 |-> OutlineQos, t14 |-> OutlineQos,
     t16 |-> OutlineRetain, t18 |-> OutlineWill,
     t20 |-> OutlineMulti(FALSE), t22 |-> OutlineMulti(TRUE),
     t30 |-> OutlineWildcard("w0"), t32 |-> OutlineWildcard("w1"),
     t34 |-> OutlineWildcard("w2"),
     t40 |-> OutlineErrorConnect(0), t41 |-> OutlineErrorConnect(1),
     t42 |-> OutlineErrorConnect(2),
     t43 |-> OutlineErrorDisconnect, t44 |-> OutlineErrorDisconnect,
     t45 |-> OutlineErrorDisconnect]

-----------------------------------------------------------------------------
(* What a note means. *)

(* The messages in the sockets, in the record of the last one and retained. *)
Items(q) == {q[i] : i \in 1..Len(q)}
Inbox(s) == Items(link[s].inbox)
World == {last.msg, retained} \cup Inbox(SUB) \cup Inbox(PUB) \cup Inbox(WILL)

(* The message drawn last is newer than any in the world, or it has been    *)
(* sent and is, with its repeats, the only one with its value.              *)
Older == \A m \in World : m.body < now
Fresh == passed \/ Older
Told == /\ randmes = now /\ sent[2] = now
        /\ \A m \in World : m.body < now \/ <<m.t, m.body>> = sent
Tells(told) ==
    /\ told # "sent" => Fresh
    /\ told = "drawn" => randmes = now /\ Older
    /\ told = "sent" => Told
    /\ told = "passed" => Told /\ passed
    /\ told = "if" => (result >= 0 => Told /\ passed)

(* What a note means whatever has been disturbed, ... *)
Weak(a) == /\ Tells(a.told)
           /\ a.wil # "off" /\ a.last = "none" => last.recv = 0
           /\ a.last = "will" => (last.recv = 1 => last.msg.t = "WILL")

(* The message of the turn and the will, as the broker passes them on. *)
Published == Message(sent[1], sent[2], QoS(test), 0)
Will == Message("WILL", willmes, 0, 0)

SubIs(a) ==
    IF a.sub = "on"
    THEN /\ link[SUB].up /\ link[SUB].subs = a.topics /\ a.n \in 0..5
         /\ IsFiniteSet(a.topics) /\ Cardinality(a.topics) = a.n
         /\ a.due = "none" => link[SUB].inbox = <<>>
         /\ a.due = "pub" => link[SUB].inbox = <<Published>>
         /\ a.due = "kept" => link[SUB].inbox = <<retained>>
         /\ a.due = "some" => \/ link[SUB].inbox = <<>>
                              \/ link[SUB].inbox = <<retained>> /\ retained.qos = 0
    ELSE ~link[SUB].open
PubIs(a) == /\ a.pub = "on" <=> link[PUB].up
            /\ a.pub = "off" => ~link[PUB].open
WillIs(a) ==
    IF a.wil # "off"
    THEN /\ link[WILL].up
         /\ link[WILL].subs = IF a.wil = "on" THEN {} ELSE {"WILL"}
         /\ link[WILL].inbox = IF a.wil = "due" THEN <<Will>> ELSE <<>>
    ELSE ~link[WILL].open
LastIs(a) ==
    /\ a.last = "none" => last.recv = 0
    /\ a.last = "pub" => last.recv = 1 /\ last.msg = Published
    /\ a.last = "kept" => last.recv = 1 /\ last.msg = retained
    /\ a.last = "will" => last.recv = 1 /\ last.msg = Will
    /\ a.last = "first" => (last.recv = 1 => last.msg.qos = 0)
ResultIs(a) == /\ a.res = "good" => result >= 0
               /\ a.res = "bad" => result < 0
               /\ result2 >= 0
KeptIs(a) == a.kept => retained = Message("RETAIN", sent[2], 0, 1) /\ sent[1] = "RETAIN"

(* ... and while nothing has been. *)
Strong(a) == SubIs(a) /\ PubIs(a) /\ WillIs(a) /\ LastIs(a) /\ ResultIs(a) /\ KeptIs(a)

Calm == ~disturbed /\ ~(test = "t16" /\ stale)
Running == main = "test" /\ at # Done
Note == Outline[test][at[1]][at[2]]

(* A retained message has a value, and no message of quality of service 0   *)
(* is a repeat.                                                             *)
Proper(m) == (m.retain = 1 => m.body >= 1) /\ (m.qos = 0 => m.dup = 0)

(* Where messages can be, and that no value lies ahead of the clock. *)
WorldInv ==
    /\ now \in Nat /\ now >= 1 /\ randmes \in 0..now /\ willmes \in 0..now
    /\ \A m \in World : m.body \in 0..now /\ Proper(m)
    /\ \/ retained = NoMessage
       \/ retained.t = "RETAIN" /\ retained.qos = 0 /\ retained.retain = 1
    /\ \A m \in Inbox(WILL) : m.t = "WILL"
    /\ link[WILL].subs \subseteq {"WILL"}
    /\ link[PUB].subs = {} /\ link[PUB].inbox = <<>>
    /\ \A s \in Sockets : link[s].inbox \in Seq(Inbox(s))
    /\ last.recv \in {0, 1}
(* Between tests the next draw is newer than everything in the world. *)
FreshInv == ~Running => Fresh
(* The tests without a connection never have one. *)
ClosedInv == main = "test" /\ test \in Unconnected => \A s \in Sockets : ~link[s].open
(* The note before the next step is true. *)
WeakInv == Running => Weak(Note)
StrongInv == Running /\ Calm => Strong(Note) /\ (Step.op = "count" => cntc = Step.n)
(* A test that was not disturbed ends with the results it expects. *)
DoneInv == main = "test" /\ at = Done /\ Calm =>
              IF test \in NeedToFail THEN result < 0 ELSE result >= 0 /\ result2 >= 0
(* There is a verdict only once the test has ended. *)
VerdictInv == main # "shell" => verdict = "none"

(* The invariant: its parts, and the property itself. *)
VInv == /\ WorldInv /\ FreshInv /\ ClosedInv /\ WeakInv /\ StrongInv /\ DoneInv
        /\ VerdictInv /\ VerdictIsJust

-----------------------------------------------------------------------------
(* The outlines are sound: what is known before each step of a test         *)
(* follows from its start, one step after the other, for any number of      *)
(* turns.                                                                   *)

(* Where place j of a loop with turns of L steps is: its turn and its step. *)
LEMMA PlaceInLoop ==
  ASSUME NEW L \in {1, 2, 5, 6, 7, 12}, NEW n \in Nat \ {0}, NEW j \in 1..n * L
  PROVE  /\ ((j - 1) \div L) + 1 \in 1..n
         /\ ((j - 1) % L) + 1 \in 1..L
         /\ (j < n * L /\ ((j - 1) % L) + 1 # L) =>
               /\ (j \div L) + 1 = ((j - 1) \div L) + 1
               /\ (j % L) + 1 = ((j - 1) % L) + 2
         /\ (j < n * L /\ ((j - 1) % L) + 1 = L) =>
               /\ (j \div L) + 1 = ((j - 1) \div L) + 2
               /\ (j % L) + 1 = 1
               /\ ((j - 1) \div L) + 1 \in 1..n - 1
         /\ j = n * L => ((j - 1) \div L) + 1 = n /\ ((j - 1) % L) + 1 = L
<1>1. CASE L = 1 BY <1>1
<1>2. CASE L = 2 BY <1>2
<1>3. CASE L = 5 BY <1>3
<1>4. CASE L = 6 BY <1>4
<1>5. CASE L = 7 BY <1>5
<1>6. CASE L = 12 BY <1>6
<1>7. QED BY <1>1, <1>2, <1>3, <1>4, <1>5, <1>6

(* A loop of n turns of L steps: F[d][k] is step k of turn d, with G[d][k]  *)
(* known before it; every step leads to the next one.                       *)
Chained(tst, var, n, L, F, G, steps, notes) ==
    /\ n \in Nat \ {0} /\ L \in {1, 2, 5, 6, 7, 12}
    /\ steps = [i \in 1..n * L |-> F[((i - 1) \div L) + 1][((i - 1) % L) + 1]]
    /\ notes = [i \in 1..n * L |-> G[((i - 1) \div L) + 1][((i - 1) % L) + 1]]
    /\ \A d \in 1..n, k \in 1..L - 1 : Chain(tst, var, F[d][k], G[d][k], G[d][k + 1])
    /\ \A d \in 1..n - 1 : Chain(tst, var, F[d][L], G[d][L], G[d + 1][1])
    /\ \A d \in 1..n, k \in 1..L : F[d][k].op # "count"

(* A section that is sound, from its first step and what is known before it *)
(* to its last step.                                                        *)
SoundSec(tst, sec, notes, first, start, final, end) ==
    /\ SectionSound(tst, sec, notes)
    /\ Len(sec.steps) \in Nat \ {0}
    /\ sec.steps[1] = first /\ notes[1] = start
    /\ sec.steps[Len(sec.steps)] = final /\ notes[Len(sec.steps)] = end

(* A section that consists of such a loop is sound. *)
LEMMA EachSound ==
  ASSUME NEW tst, NEW var, NEW fail, NEW n, NEW L, NEW F, NEW G, NEW steps, NEW notes,
         Chained(tst, var, n, L, F, G, steps, notes)
  PROVE  /\ SoundSec(tst, Sec(steps, var, fail), notes, F[1][1], G[1][1], F[n][L], G[n][L])
         /\ Len(steps) = n * L
<1>a. n \in Nat \ {0} /\ L \in {1, 2, 5, 6, 7, 12}
  BY DEF Chained
<1>b. /\ steps = [i \in 1..n * L |-> F[((i - 1) \div L) + 1][((i - 1) % L) + 1]]
      /\ notes = [i \in 1..n * L |-> G[((i - 1) \div L) + 1][((i - 1) % L) + 1]]
  BY DEF Chained
<1>c. \A x \in 1..n, y \in 1..L - 1 : Chain(tst, var, F[x][y], G[x][y], G[x][y + 1])
  BY DEF Chained
<1>d. \A x \in 1..n - 1 : Chain(tst, var, F[x][L], G[x][L], G[x + 1][1])
  BY DEF Chained
<1>e. \A x \in 1..n, y \in 1..L : F[x][y].op # "count"
  BY DEF Chained
<1> DEFINE d(j) == ((j - 1) \div L) + 1
           k(j) == ((j - 1) % L) + 1
<1>1. n * L \in Nat \ {0}
  BY <1>a
<1>2. /\ Len(steps) = n * L /\ Len(notes) = n * L
      /\ \A j \in 1..n * L : steps[j] = F[d(j)][k(j)] /\ notes[j] = G[d(j)][k(j)]
  <2>1. /\ DOMAIN steps = 1..n * L /\ DOMAIN notes = 1..n * L
        /\ \A j \in 1..n * L : steps[j] = F[d(j)][k(j)] /\ notes[j] = G[d(j)][k(j)]
    BY <1>b, Zenon
  <2>2. Len(steps) = n * L /\ Len(notes) = n * L
    <3> HIDE DEF d, k
    <3>1. QED
      BY <1>1, <1>b
  <2>3. QED
    BY <2>1, <2>2
<1>3. \A j \in 1..n * L : d(j) \in 1..n /\ k(j) \in 1..L
  BY <1>a, PlaceInLoop
<1>4. ASSUME NEW j \in 1..n * L - 1
      PROVE  Chain(tst, var, steps[j], notes[j], notes[j + 1])
  <2>0. j \in 1..n * L /\ j < n * L /\ j + 1 \in 1..n * L /\ (j + 1) - 1 = j
    BY <1>1
  <2>a. d(j + 1) = (j \div L) + 1 /\ k(j + 1) = (j % L) + 1
    <3>1. \A x : x = j => (x \div L) + 1 = (j \div L) + 1 /\ (x % L) + 1 = (j % L) + 1
      BY Zenon
    <3>2. (j + 1) - 1 = j
      BY <2>0
    <3>3. QED
      BY <3>1, <3>2, Zenon
  <2>b. /\ d(j) \in 1..n /\ k(j) \in 1..L
        /\ k(j) # L => /\ (j \div L) + 1 = d(j)
                       /\ (j % L) + 1 = ((j - 1) % L) + 2
        /\ k(j) = L => /\ (j \div L) + 1 = ((j - 1) \div L) + 2
                       /\ (j % L) + 1 = 1
                       /\ d(j) \in 1..n - 1
    BY <1>a, <2>0, PlaceInLoop, ZenonT(60)
  <2>c. \A x \in Nat : x + 2 = (x + 1) + 1
    OBVIOUS
  <2>d. (j - 1) % L \in Nat /\ (j - 1) \div L \in Nat
    BY <1>a, <2>0
  <2>e. ((j - 1) % L) + 2 = k(j) + 1 /\ ((j - 1) \div L) + 2 = d(j) + 1
    BY <2>c, <2>d, Zenon
  <2> HIDE DEF d, k
  <2>f. steps[j] = F[d(j)][k(j)] /\ notes[j] = G[d(j)][k(j)]
    BY <1>2, <2>0, Zenon
  <2>g. notes[j + 1] = G[d(j + 1)][k(j + 1)]
    BY <1>2, <2>0, Zenon
  <2>1. CASE k(j) # L
    <3>1. d(j + 1) = d(j) /\ k(j + 1) = k(j) + 1 /\ d(j) \in 1..n
      BY <2>a, <2>b, <2>e, <2>1, Zenon
    <3>2. k(j) \in 1..L - 1
      BY <1>a, <2>b, <2>1
    <3>3. Chain(tst, var, F[d(j)][k(j)], G[d(j)][k(j)], G[d(j)][k(j) + 1])
      BY <1>c, <3>1, <3>2, Zenon
    <3>4. QED
      BY <2>f, <2>g, <3>1, <3>3, Zenon
  <2>2. CASE k(j) = L
    <3>1. d(j + 1) = d(j) + 1 /\ k(j + 1) = 1 /\ d(j) \in 1..n - 1
      BY <2>a, <2>b, <2>e, <2>2, Zenon
    <3>2. Chain(tst, var, F[d(j)][L], G[d(j)][L], G[d(j) + 1][1])
      BY <1>d, <3>1, Zenon
    <3>3. QED
      BY <2>f, <2>g, <2>2, <3>1, <3>2, Zenon
  <2>3. QED
    BY <2>1, <2>2, Zenon
<1>5. \A j \in 1..n * L : steps[j].op # "count"
  <2> HIDE DEF d, k
  <2> QED BY <1>2, <1>3, <1>e, Zenon
<1>6. d(1) = 1 /\ k(1) = 1 /\ d(n * L) = n /\ k(n * L) = L
  <2>1. d(1) = 1 /\ k(1) = 1
    <3>1. L \in Nat \ {0} /\ 1 - 1 = 0
      BY <1>a
    <3>2. \A l \in Nat \ {0} : 0 \div l = 0 /\ 0 % l = 0
      OBVIOUS
    <3>3. 0 + 1 = 1
      OBVIOUS
    <3>4. QED
      BY <3>1, <3>2, <3>3, Zenon
  <2>2. d(n * L) = n /\ k(n * L) = L
    <3>1. n * L \in 1..n * L
      BY <1>1
    <3>2. QED
      BY <1>a, <3>1, PlaceInLoop, Zenon
  <2>3. QED BY <2>1, <2>2
<1>7. /\ steps[1] = F[1][1] /\ steps[n * L] = F[n][L]
      /\ notes[1] = G[1][1] /\ notes[n * L] = G[n][L]
  <2>1. 1 \in 1..n * L /\ n * L \in 1..n * L
    BY <1>1
  <2> HIDE DEF d, k
  <2>2. /\ steps[1] = F[d(1)][k(1)] /\ steps[n * L] = F[d(n * L)][k(n * L)]
        /\ notes[1] = G[d(1)][k(1)] /\ notes[n * L] = G[d(n * L)][k(n * L)]
    BY <1>2, <2>1, Zenon
  <2>3. QED
    BY <1>6, <2>2, Zenon
<1> HIDE DEF d, k
<1>8. SectionSound(tst, [steps |-> steps, var |-> var, fail |-> fail], notes)
  BY <1>2, <1>4, <1>5 DEF SectionSound
<1>9. QED
  BY <1>1, <1>2, <1>7, <1>8 DEF SoundSec, Sec

(* The joint of two sections. *)
LEMMA Joined ==
  ASSUME NEW tst, NEW sec, NEW notes, NEW first, NEW start, NEW final, NEW end,
         NEW next, NEW notes2, NEW first2, NEW start2, NEW final2, NEW end2,
         SoundSec(tst, sec, notes, first, start, final, end),
         SoundSec(tst, next, notes2, first2, start2, final2, end2),
         Chain(tst, sec.var, final, end, start2),
         first2.op # "count", FailNote(sec, start2)
  PROVE  LinkSound(tst, sec, notes, next, notes2[1])
BY DEF LinkSound, SoundSec

(* A body of L steps that leads back to its start. *)
Circle(tst, var, L, body, notes) ==
    /\ L \in {1, 2, 5, 6, 7, 12}
    /\ Len(body) = L /\ Len(notes) = L
    /\ \A k \in 1..L - 1 : Chain(tst, var, body[k], notes[k], notes[k + 1])
    /\ Chain(tst, var, body[L], notes[L], notes[1])
    /\ \A k \in 1..L : body[k].op # "count"

(* A section that repeats such a body Loop times is sound. *)
LEMMA LoopSound ==
  ASSUME NEW tst, NEW var, NEW fail, NEW L, NEW body, NEW notes,
         Circle(tst, var, L, body, notes)
  PROVE  SoundSec(tst, Sec(Times(Loop, body), var, fail), Times(Loop, notes),
                  body[1], notes[1], body[L], notes[L])
<1> DEFINE F == [d \in 1..Loop |-> body]
           G == [d \in 1..Loop |-> notes]
           steps == Times(Loop, body)
           places == Times(Loop, notes)
<1>1. Loop \in Nat \ {0} /\ L \in {1, 2, 5, 6, 7, 12} /\ Len(body) = L /\ Len(notes) = L
  BY MqttConstants DEF Circle
<1>2. \A i \in 1..Loop * L : ((i - 1) \div L) + 1 \in 1..Loop
  BY <1>1, PlaceInLoop
<1>3. steps = [i \in 1..Loop * L |-> F[((i - 1) \div L) + 1][((i - 1) % L) + 1]]
  BY <1>1, <1>2 DEF Times
<1>4. places = [i \in 1..Loop * L |-> G[((i - 1) \div L) + 1][((i - 1) % L) + 1]]
  BY <1>1, <1>2 DEF Times
<1>5. /\ \A d \in 1..Loop, k \in 1..L - 1 : Chain(tst, var, F[d][k], G[d][k], G[d][k + 1])
      /\ \A d \in 1..Loop - 1 : Chain(tst, var, F[d][L], G[d][L], G[d + 1][1])
      /\ \A d \in 1..Loop, k \in 1..L : F[d][k].op # "count"
  BY <1>1 DEF Circle
<1>6. 1 \in 1..Loop /\ Loop \in 1..Loop
  BY <1>1
<1>7. F[1] = body /\ F[Loop] = body /\ G[1] = notes /\ G[Loop] = notes
  BY <1>6
<1> HIDE DEF F, G, steps, places
<1>8. Chained(tst, var, Loop, L, F, G, steps, places)
  BY <1>1, <1>3, <1>4, <1>5 DEF Chained
<1>9. SoundSec(tst, Sec(steps, var, fail), places, F[1][1], G[1][1], F[Loop][L], G[Loop][L])
  BY <1>8, EachSound
<1>10. QED
  BY <1>7, <1>9, Zenon DEF steps, places

USE DEF SUB, PUB, WILL, C, CW, S, U, P, Y, D, Cmp, Do, Sockets, MQTT_TEST_LIST_MULTI
USE DEF Succeeds, ThenSub, ThenTopics, ThenN, ThenDue, ThenPub, ThenWil, ThenLast,
      ThenTold, ThenKept, ThenRes, Stores, ToldMore, Known, On, Off, Plain, Up, Open,
      Blank, Turned

(* Sections of one to five steps, each of which leads to the next one. *)
LEMMA Steps1 ==
  ASSUME NEW tst, NEW sec, NEW notes, Len(sec.steps) = 1, Len(notes) = 1,
         \A j \in 1..1 : sec.steps[j].op # "count"
  PROVE  SoundSec(tst, sec, notes, sec.steps[1], notes[1], sec.steps[1], notes[1])
BY DEF SoundSec, SectionSound

(* ... of three steps, ... *)
LEMMA Steps3 ==
  ASSUME NEW tst, NEW sec, NEW notes, Len(sec.steps) = 3, Len(notes) = 3,
         \A j \in 1..3 : sec.steps[j].op # "count",
         Chain(tst, sec.var, sec.steps[1], notes[1], notes[2]),
         Chain(tst, sec.var, sec.steps[2], notes[2], notes[3])
  PROVE  SoundSec(tst, sec, notes, sec.steps[1], notes[1], sec.steps[3], notes[3])
BY DEF SoundSec, SectionSound

(* ... of four steps, ... *)
LEMMA Steps4 ==
  ASSUME NEW tst, NEW sec, NEW notes, Len(sec.steps) = 4, Len(notes) = 4,
         \A j \in 1..4 : sec.steps[j].op # "count",
         Chain(tst, sec.var, sec.steps[1], notes[1], notes[2]),
         Chain(tst, sec.var, sec.steps[2], notes[2], notes[3]),
         Chain(tst, sec.var, sec.steps[3], notes[3], notes[4])
  PROVE  SoundSec(tst, sec, notes, sec.steps[1], notes[1], sec.steps[4], notes[4])
BY DEF SoundSec, SectionSound

(* ... of five steps, ... *)
LEMMA Steps5 ==
  ASSUME NEW tst, NEW sec, NEW notes, Len(sec.steps) = 5, Len(notes) = 5,
         \A j \in 1..5 : sec.steps[j].op # "count",
         Chain(tst, sec.var, sec.steps[1], notes[1], notes[2]),
         Chain(tst, sec.var, sec.steps[2], notes[2], notes[3]),
         Chain(tst, sec.var, sec.steps[3], notes[3], notes[4]),
         Chain(tst, sec.var, sec.steps[4], notes[4], notes[5])
  PROVE  SoundSec(tst, sec, notes, sec.steps[1], notes[1], sec.steps[5], notes[5])
BY DEF SoundSec, SectionSound

(* Tests of one to seven sections, joined one to the next: one section,     *)
(* ...                                                                      *)
LEMMA Sections1 ==
  ASSUME NEW tst, NEW s1,
         NEW n1,
         n1[1] = Start(tst), s1.steps[1].op # "count",
         SectionSound(tst, s1, n1),
         Ends(tst, s1.var, s1.steps[Len(s1.steps)], n1[Len(s1.steps)])
  PROVE  SoundTest(tst, <<s1>>, <<n1>>)
BY DEF SoundTest

(* ... three sections, ... *)
LEMMA Sections3 ==
  ASSUME NEW tst, NEW s1, NEW s2, NEW s3,
         NEW n1, NEW n2, NEW n3,
         n1[1] = Start(tst), s1.steps[1].op # "count",
         SectionSound(tst, s1, n1),
         SectionSound(tst, s2, n2),
         SectionSound(tst, s3, n3),
         LinkSound(tst, s1, n1, s2, n2[1]),
         LinkSound(tst, s2, n2, s3, n3[1]),
         Ends(tst, s3.var, s3.steps[Len(s3.steps)], n3[Len(s3.steps)])
  PROVE  SoundTest(tst, <<s1, s2, s3>>, <<n1, n2, n3>>)
BY DEF SoundTest

(* ... five sections, ... *)
LEMMA Sections5 ==
  ASSUME NEW tst, NEW s1, NEW s2, NEW s3, NEW s4, NEW s5,
         NEW n1, NEW n2, NEW n3, NEW n4, NEW n5,
         n1[1] = Start(tst), s1.steps[1].op # "count",
         SectionSound(tst, s1, n1),
         SectionSound(tst, s2, n2),
         SectionSound(tst, s3, n3),
         SectionSound(tst, s4, n4),
         SectionSound(tst, s5, n5),
         LinkSound(tst, s1, n1, s2, n2[1]),
         LinkSound(tst, s2, n2, s3, n3[1]),
         LinkSound(tst, s3, n3, s4, n4[1]),
         LinkSound(tst, s4, n4, s5, n5[1]),
         Ends(tst, s5.var, s5.steps[Len(s5.steps)], n5[Len(s5.steps)])
  PROVE  SoundTest(tst, <<s1, s2, s3, s4, s5>>, <<n1, n2, n3, n4, n5>>)
BY DEF SoundTest

(* The outline of mqtttest_qos is sound, for each quality of service. *)
LEMMA QosSound ==
  ASSUME NEW tst \in {"t10", "t12", "t14"}, NEW q, q = QoS(tst)
  PROVE  SoundTest(tst, mqtttest_qos(q), OutlineQos)
<1> DEFINE s1 == Sec(<<C(SUB), S(SUB, "QOS", q), C(PUB)>>, 1, "end")
           n1 == Begin("QOS")
           b2 == <<Do("reset_last"), Do("random"), P(PUB, "QOS", q, 0), Y(SUB), Cmp("rand",
                 q, 0)>>
           t2 == Turn5({"QOS"}, 1, "on", "pub")
           s2 == Sec(Times(Loop, b2), 1, "next")
           n2 == Times(Loop, t2)
           s3 == Sec(<<D(PUB), U(SUB, "QOS"), D(SUB)>>, 2, "end")
           n3 == Close("QOS")
<1>m11. s1.steps[1] = C(SUB) /\ n1[1] = Blank
  BY DEF Sec, Begin
<1>m12. s1.steps[2] = S(SUB, "QOS", q) /\ n1[2] = Up({}, 0)
  BY DEF Sec, Begin
<1>m13. s1.steps[3] = C(PUB) /\ n1[3] = Up({"QOS"}, 1)
  BY DEF Sec, Begin
<1>m21. b2[1] = Do("reset_last") /\ t2[1] = Turned({"QOS"}, 1, "on", "any", "none", "none")
  BY DEF Turn5
<1>m22. b2[2] = Do("random") /\ t2[2] = Turned({"QOS"}, 1, "on", "none", "none", "none")
  BY DEF Turn5
<1>m23. /\ b2[3] = P(PUB, "QOS", q, 0)
        /\ t2[3] = Turned({"QOS"}, 1, "on", "none", "drawn", "none")
  BY DEF Turn5
<1>m24. b2[4] = Y(SUB) /\ t2[4] = Turned({"QOS"}, 1, "on", "none", "sent", "pub")
  BY DEF Turn5
<1>m25. b2[5] = Cmp("rand", q, 0) /\ t2[5] = Turned({"QOS"}, 1, "on", "pub", "passed", "none")
  BY DEF Turn5
<1>m31. s3.steps[1] = D(PUB) /\ n3[1] = Open({"QOS"}, 1)
  BY DEF Sec, Close
<1>m32. s3.steps[2] = U(SUB, "QOS") /\ n3[2] = Up({"QOS"}, 1)
  BY DEF Sec, Close
<1>m33. s3.steps[3] = D(SUB) /\ n3[3] = Up({}, 0)
  BY DEF Sec, Close
<1> HIDE DEF s1, n1, b2, t2, s2, n2, s3, n3
<1> USE DEF Chain, Leads, Needs, NeedsConnect, Unconnected, NeedsSubscribe,
            NeedsUnsubscribe, NeedsPublish, NeedsYield, NeedsDisconnect, NeedsCompare
<1>c11. Chain(tst, 1, s1.steps[1], n1[1], n1[2])
  BY <1>m11, <1>m12
<1>c12. Chain(tst, 1, s1.steps[2], n1[2], n1[3])
  BY <1>m12, <1>m13
<1>j1. Chain(tst, 1, s1.steps[3], n1[3], t2[1])
  BY <1>m13, <1>m21
<1>c21. Chain(tst, 1, b2[1], t2[1], t2[2])
  BY <1>m21, <1>m22
<1>c22. Chain(tst, 1, b2[2], t2[2], t2[3])
  BY <1>m22, <1>m23
<1>c23. Chain(tst, 1, b2[3], t2[3], t2[4])
  BY <1>m23, <1>m24 DEF Matches, QoS
<1>c24. Chain(tst, 1, b2[4], t2[4], t2[5])
  BY <1>m24, <1>m25 DEF Matches
<1>c25. Chain(tst, 1, b2[5], t2[5], t2[1])
  BY <1>m25, <1>m21 DEF Matches, QoS
<1>j2. Chain(tst, 1, b2[5], t2[5], n3[1])
  BY <1>m25, <1>m31 DEF Matches, QoS
<1>c31. Chain(tst, 2, s3.steps[1], n3[1], n3[2])
  BY <1>m31, <1>m32
<1>c32. Chain(tst, 2, s3.steps[2], n3[2], n3[3])
  BY <1>m32, <1>m33
<1>e. Ends(tst, 2, s3.steps[3], n3[3])
  BY <1>m33 DEF Ends, NeedToFail
<1> HIDE DEF Chain, Leads, Needs, NeedsConnect, Unconnected, NeedsSubscribe,
            NeedsUnsubscribe, NeedsPublish, NeedsYield, NeedsDisconnect, NeedsCompare
<1> USE DEF s1, n1, b2, t2, s2, n2, s3, n3
<1>l1. /\ Len(s1.steps) = 3 /\ Len(n1) = 3 /\ s1.var = 1
       /\ \A j \in 1..3 : s1.steps[j].op # "count"
  BY DEF Sec, Begin, Close, Turn5
<1>f1. FailNote(s1, t2[1])
  BY DEF FailNote, Sec, Begin, Close, Turn5
<1>l2. /\ Len(b2) = 5 /\ Len(t2) = 5
       /\ \A j \in 1..5 : b2[j].op # "count"
  BY DEF Sec, Begin, Close, Turn5
<1>v2. s2.var = 1
  BY DEF Sec
<1>f2. FailNote(s2, n3[1])
  BY DEF FailNote, Sec, Begin, Close, Turn5
<1>l3. /\ Len(s3.steps) = 3 /\ Len(n3) = 3 /\ s3.var = 2
       /\ \A j \in 1..3 : s3.steps[j].op # "count"
  BY DEF Sec, Begin, Close, Turn5
<1>s. n1[1] = Start(tst)
  BY DEF Start, Begin, Close, Turn5
<1>u2. s2 = Sec(Times(Loop, b2), 1, "next") /\ n2 = Times(Loop, t2)
  OBVIOUS
<1> HIDE DEF s1, n1, b2, t2, s2, n2, s3, n3
<1>p1. SoundSec(tst, s1, n1, s1.steps[1], n1[1], s1.steps[3], n1[3])
  BY <1>c11, <1>c12, <1>l1, Steps3
<1>q2. Circle(tst, 1, 5, b2, t2)
  BY <1>c21, <1>c22, <1>c23, <1>c24, <1>c25, <1>l2 DEF Circle
<1>p2. SoundSec(tst, s2, n2, b2[1], t2[1], b2[5], t2[5])
  BY <1>q2, <1>u2, LoopSound
<1>p3. SoundSec(tst, s3, n3, s3.steps[1], n3[1], s3.steps[3], n3[3])
  BY <1>c31, <1>c32, <1>l3, Steps3
<1>k1. LinkSound(tst, s1, n1, s2, n2[1])
  BY <1>p1, <1>p2, <1>j1, <1>l1, <1>l2, <1>f1, Joined
<1>k2. LinkSound(tst, s2, n2, s3, n3[1])
  BY <1>p2, <1>p3, <1>j2, <1>v2, <1>l3, <1>f2, Joined
<1>d. Ends(tst, s3.var, s3.steps[Len(s3.steps)], n3[Len(s3.steps)])
  BY <1>e, <1>l3, <1>p3 DEF SoundSec
<1>o. n1[1] = Start(tst) /\ s1.steps[1].op # "count"
  BY <1>s, <1>l1, <1>p1 DEF SoundSec
<1>z. SoundTest(tst, <<s1, s2, s3>>, <<n1, n2, n3>>)
  BY <1>p1, <1>p2, <1>p3, <1>k1, <1>k2, <1>d, <1>o, Sections3 DEF SoundSec
<1> QED
  BY <1>z DEF mqtttest_qos, OutlineQos, s1, n1, b2, t2, s2, n2, s3, n3

(* The outline of mqtttest_retain is sound. *)
LEMMA RetainSound ==
  SoundTest("t16", mqtttest_retain, OutlineRetain)
<1> DEFINE r(due) == On({"RETAIN"}, 1, due)
           e == On({}, 0, "none")
           F(sub, pub) == Known(sub, pub, "off", "first", "none", FALSE, "good")
           K(last_, told) == Known(r("none"), "on", "off", last_, told, FALSE, "any")
           H(sub, pub) == Known(sub, pub, "off", "any", "if", TRUE, "good")
           L(sub, last_) == Known(sub, "off", "off", last_, "passed", TRUE, "good")
           s1 == Sec(<<C(SUB), S(SUB, "RETAIN", 0), C(PUB), Y(SUB), Cmp("first", 0, 1)>>,
                 1, "end")
           n1 == << F(Off, "off"), F(e, "off"), F(r("some"), "off"), F(r("some"), "on"),
                    F(r("none"), "on") >>
           b2 == <<Do("reset_last"), Do("random"), P(PUB, "RETAIN", 0, 1), Y(SUB),
                 Cmp("rand", 0, 0)>>
           t2 == << K("any", "none"), K("none", "none"), K("none", "drawn"),
                    Known(r("pub"), "on", "off", "none", "sent", TRUE, "good"),
                    Known(r("none"), "on", "off", "pub", "passed", TRUE, "good") >>
           s2 == Sec(Times(Loop, b2), 1, "next")
           n2 == Times(Loop, t2)
           s3 == Sec(<<D(PUB), U(SUB, "RETAIN"), D(SUB)>>, 2, "end")
           n3 == << H(r("none"), "on"), H(r("none"), "off"), H(e, "off") >>
           s4 == Sec(<<Do("check")>>, 0, "end")
           n4 == << H(Off, "off") >>
           b5 == <<Do("reset_last"), C(SUB), S(SUB, "RETAIN", 0), Y(SUB), Cmp("rand", 0,
                 1), U(SUB, "RETAIN"), D(SUB)>>
           t5 == << L(Off, "any"), L(Off, "none"), L(e, "none"), L(r("kept"), "none"),
                    L(r("none"), "kept"), L(r("none"), "any"), L(e, "any") >>
           s5 == Sec(Times(Loop, b5), 1, "end")
           n5 == Times(Loop, t5)
<1>m11. s1.steps[1] = C(SUB) /\ n1[1] = F(Off, "off")
  BY DEF Sec
<1>m12. s1.steps[2] = S(SUB, "RETAIN", 0) /\ n1[2] = F(e, "off")
  BY DEF Sec
<1>m13. s1.steps[3] = C(PUB) /\ n1[3] = F(r("some"), "off")
  BY DEF Sec
<1>m14. s1.steps[4] = Y(SUB) /\ n1[4] = F(r("some"), "on")
  BY DEF Sec
<1>m15. s1.steps[5] = Cmp("first", 0, 1) /\ n1[5] = F(r("none"), "on")
  BY DEF Sec
<1>m21. b2[1] = Do("reset_last") /\ t2[1] = K("any", "none")
  OBVIOUS
<1>m22. b2[2] = Do("random") /\ t2[2] = K("none", "none")
  OBVIOUS
<1>m23. b2[3] = P(PUB, "RETAIN", 0, 1) /\ t2[3] = K("none", "drawn")
  OBVIOUS
<1>m24. b2[4] = Y(SUB) /\ t2[4] = Known(r("pub"), "on", "off", "none", "sent", TRUE, "good")
  OBVIOUS
<1>m25. /\ b2[5] = Cmp("rand", 0, 0)
        /\ t2[5] = Known(r("none"), "on", "off", "pub", "passed", TRUE, "good")
  OBVIOUS
<1>m31. s3.steps[1] = D(PUB) /\ n3[1] = H(r("none"), "on")
  BY DEF Sec
<1>m32. s3.steps[2] = U(SUB, "RETAIN") /\ n3[2] = H(r("none"), "off")
  BY DEF Sec
<1>m33. s3.steps[3] = D(SUB) /\ n3[3] = H(e, "off")
  BY DEF Sec
<1>m41. s4.steps[1] = Do("check") /\ n4[1] = H(Off, "off")
  BY DEF Sec
<1>m51. b5[1] = Do("reset_last") /\ t5[1] = L(Off, "any")
  OBVIOUS
<1>m52. b5[2] = C(SUB) /\ t5[2] = L(Off, "none")
  OBVIOUS
<1>m53. b5[3] = S(SUB, "RETAIN", 0) /\ t5[3] = L(e, "none")
  OBVIOUS
<1>m54. b5[4] = Y(SUB) /\ t5[4] = L(r("kept"), "none")
  OBVIOUS
<1>m55. b5[5] = Cmp("rand", 0, 1) /\ t5[5] = L(r("none"), "kept")
  OBVIOUS
<1>m56. b5[6] = U(SUB, "RETAIN") /\ t5[6] = L(r("none"), "any")
  OBVIOUS
<1>m57. b5[7] = D(SUB) /\ t5[7] = L(e, "any")
  OBVIOUS
<1> HIDE DEF s1, n1, b2, t2, s2, n2, s3, n3, s4, n4, b5, t5, s5, n5
<1> USE DEF Chain, Leads, Needs, NeedsConnect, Unconnected, NeedsSubscribe,
            NeedsUnsubscribe, NeedsPublish, NeedsYield, NeedsDisconnect, NeedsCompare
<1>c11. Chain("t16", 1, s1.steps[1], n1[1], n1[2])
  BY <1>m11, <1>m12
<1>c12. Chain("t16", 1, s1.steps[2], n1[2], n1[3])
  BY <1>m12, <1>m13
<1>c13. Chain("t16", 1, s1.steps[3], n1[3], n1[4])
  BY <1>m13, <1>m14
<1>c14. Chain("t16", 1, s1.steps[4], n1[4], n1[5])
  BY <1>m14, <1>m15 DEF Matches
<1>j1. Chain("t16", 1, s1.steps[5], n1[5], t2[1])
  BY <1>m15, <1>m21 DEF Matches, QoS
<1>c21. Chain("t16", 1, b2[1], t2[1], t2[2])
  BY <1>m21, <1>m22
<1>c22. Chain("t16", 1, b2[2], t2[2], t2[3])
  BY <1>m22, <1>m23
<1>c23. Chain("t16", 1, b2[3], t2[3], t2[4])
  BY <1>m23, <1>m24 DEF Matches, QoS
<1>c24. Chain("t16", 1, b2[4], t2[4], t2[5])
  BY <1>m24, <1>m25 DEF Matches
<1>c25. Chain("t16", 1, b2[5], t2[5], t2[1])
  BY <1>m25, <1>m21 DEF Matches, QoS
<1>j2. Chain("t16", 1, b2[5], t2[5], n3[1])
  BY <1>m25, <1>m31 DEF Matches, QoS
<1>c31. Chain("t16", 2, s3.steps[1], n3[1], n3[2])
  BY <1>m31, <1>m32
<1>c32. Chain("t16", 2, s3.steps[2], n3[2], n3[3])
  BY <1>m32, <1>m33
<1>j3. Chain("t16", 2, s3.steps[3], n3[3], n4[1])
  BY <1>m33, <1>m41
<1>j4. Chain("t16", 0, s4.steps[1], n4[1], t5[1])
  BY <1>m41, <1>m51
<1>c51. Chain("t16", 1, b5[1], t5[1], t5[2])
  BY <1>m51, <1>m52
<1>c52. Chain("t16", 1, b5[2], t5[2], t5[3])
  BY <1>m52, <1>m53
<1>c53. Chain("t16", 1, b5[3], t5[3], t5[4])
  BY <1>m53, <1>m54
<1>c54. Chain("t16", 1, b5[4], t5[4], t5[5])
  BY <1>m54, <1>m55 DEF Matches
<1>c55. Chain("t16", 1, b5[5], t5[5], t5[6])
  BY <1>m55, <1>m56 DEF Matches, QoS
<1>c56. Chain("t16", 1, b5[6], t5[6], t5[7])
  BY <1>m56, <1>m57
<1>c57. Chain("t16", 1, b5[7], t5[7], t5[1])
  BY <1>m57, <1>m51
<1>e. Ends("t16", 1, b5[7], t5[7])
  BY <1>m57 DEF Ends, NeedToFail
<1> HIDE DEF Chain, Leads, Needs, NeedsConnect, Unconnected, NeedsSubscribe,
            NeedsUnsubscribe, NeedsPublish, NeedsYield, NeedsDisconnect, NeedsCompare
<1> USE DEF s1, n1, b2, t2, s2, n2, s3, n3, s4, n4, b5, t5, s5, n5
<1>l1. /\ Len(s1.steps) = 5 /\ Len(n1) = 5 /\ s1.var = 1
       /\ \A j \in 1..5 : s1.steps[j].op # "count"
  BY DEF Sec
<1>f1. FailNote(s1, t2[1])
  BY DEF FailNote, Sec
<1>l2. /\ Len(b2) = 5 /\ Len(t2) = 5
       /\ \A j \in 1..5 : b2[j].op # "count"
  BY DEF Sec
<1>v2. s2.var = 1
  BY DEF Sec
<1>f2. FailNote(s2, n3[1])
  BY DEF FailNote, Sec
<1>l3. /\ Len(s3.steps) = 3 /\ Len(n3) = 3 /\ s3.var = 2
       /\ \A j \in 1..3 : s3.steps[j].op # "count"
  BY DEF Sec
<1>f3. FailNote(s3, n4[1])
  BY DEF FailNote, Sec
<1>l4. /\ Len(s4.steps) = 1 /\ Len(n4) = 1 /\ s4.var = 0
       /\ \A j \in 1..1 : s4.steps[j].op # "count"
  BY DEF Sec
<1>f4. FailNote(s4, t5[1])
  BY DEF FailNote, Sec
<1>l5. /\ Len(b5) = 7 /\ Len(t5) = 7
       /\ \A j \in 1..7 : b5[j].op # "count"
  BY DEF Sec
<1>v5. s5.var = 1
  BY DEF Sec
<1>s. n1[1] = Start("t16")
  BY DEF Start
<1>u2. s2 = Sec(Times(Loop, b2), 1, "next") /\ n2 = Times(Loop, t2)
  OBVIOUS
<1>u5. s5 = Sec(Times(Loop, b5), 1, "end") /\ n5 = Times(Loop, t5)
  OBVIOUS
<1> HIDE DEF r, e, F, K, H, L, s1, n1, b2, t2, s2, n2, s3, n3, s4, n4, b5, t5, s5, n5
<1>p1. SoundSec("t16", s1, n1, s1.steps[1], n1[1], s1.steps[5], n1[5])
  BY <1>c11, <1>c12, <1>c13, <1>c14, <1>l1, Steps5
<1>q2. Circle("t16", 1, 5, b2, t2)
  BY <1>c21, <1>c22, <1>c23, <1>c24, <1>c25, <1>l2 DEF Circle
<1>p2. SoundSec("t16", s2, n2, b2[1], t2[1], b2[5], t2[5])
  BY <1>q2, <1>u2, LoopSound
<1>p3. SoundSec("t16", s3, n3, s3.steps[1], n3[1], s3.steps[3], n3[3])
  BY <1>c31, <1>c32, <1>l3, Steps3
<1>p4. SoundSec("t16", s4, n4, s4.steps[1], n4[1], s4.steps[1], n4[1])
  BY <1>l4, Steps1
<1>q5. Circle("t16", 1, 7, b5, t5)
  BY <1>c51, <1>c52, <1>c53, <1>c54, <1>c55, <1>c56, <1>c57, <1>l5 DEF Circle
<1>p5. SoundSec("t16", s5, n5, b5[1], t5[1], b5[7], t5[7])
  BY <1>q5, <1>u5, LoopSound
<1>k1. LinkSound("t16", s1, n1, s2, n2[1])
  BY <1>p1, <1>p2, <1>j1, <1>l1, <1>l2, <1>f1, Joined
<1>k2. LinkSound("t16", s2, n2, s3, n3[1])
  BY <1>p2, <1>p3, <1>j2, <1>v2, <1>l3, <1>f2, Joined
<1>k3. LinkSound("t16", s3, n3, s4, n4[1])
  BY <1>p3, <1>p4, <1>j3, <1>l3, <1>l4, <1>f3, Joined
<1>k4. LinkSound("t16", s4, n4, s5, n5[1])
  BY <1>p4, <1>p5, <1>j4, <1>l4, <1>l5, <1>f4, Joined
<1>d. Ends("t16", s5.var, s5.steps[Len(s5.steps)], n5[Len(s5.steps)])
  BY <1>e, <1>v5, <1>p5 DEF SoundSec
<1>o. n1[1] = Start("t16") /\ s1.steps[1].op # "count"
  BY <1>s, <1>l1, <1>p1 DEF SoundSec
<1>z. SoundTest("t16", <<s1, s2, s3, s4, s5>>, <<n1, n2, n3, n4, n5>>)
  BY <1>p1, <1>p2, <1>p3, <1>p4, <1>p5, <1>k1, <1>k2, <1>k3, <1>k4, <1>d, <1>o,
        Sections5 DEF SoundSec
<1> QED
  BY <1>z DEF mqtttest_retain, OutlineRetain, r, e, F, K, H, L, s1, n1, b2, t2, s2, n2, s3,
        n3, s4, n4, b5, t5, s5, n5

(* ... and of two steps. *)
LEMMA Steps2 ==
  ASSUME NEW tst, NEW sec, NEW notes, Len(sec.steps) = 2, Len(notes) = 2,
         \A j \in 1..2 : sec.steps[j].op # "count",
         Chain(tst, sec.var, sec.steps[1], notes[1], notes[2])
  PROVE  SoundSec(tst, sec, notes, sec.steps[1], notes[1], sec.steps[2], notes[2])
BY DEF SoundSec, SectionSound

(* The outline of mqtttest_connect is sound. *)
LEMMA ConnectSound ==
  SoundTest("t03", mqtttest_connect, OutlineConnect)
<1> DEFINE b1 == <<C(0), D(0)>>
           t1 == << Blank, Plain(On({}, 0, "none"), "off") >>
           s1 == Sec(Times(Loop, b1), 1, "end")
           n1 == Times(Loop, t1)
<1> USE DEF Chain, Leads, Needs, NeedsConnect, Unconnected, NeedsSubscribe,
            NeedsUnsubscribe, NeedsPublish, NeedsYield, NeedsDisconnect, NeedsCompare
<1>c11. Chain("t03", 1, b1[1], t1[1], t1[2])
  BY DEF Sec
<1>c12. Chain("t03", 1, b1[2], t1[2], t1[1])
  BY DEF Sec
<1>e. Ends("t03", 1, b1[2], t1[2])
  BY DEF Sec, Ends, NeedToFail
<1> HIDE DEF Chain, Leads, Needs, NeedsConnect, Unconnected, NeedsSubscribe,
            NeedsUnsubscribe, NeedsPublish, NeedsYield, NeedsDisconnect, NeedsCompare
<1>l1. /\ Len(b1) = 2 /\ Len(t1) = 2
       /\ \A j \in 1..2 : b1[j].op # "count"
  BY DEF Sec
<1>v1. s1.var = 1
  BY DEF Sec
<1>s. t1[1] = Start("t03")
  BY DEF Start
<1>u1. s1 = Sec(Times(Loop, b1), 1, "end") /\ n1 = Times(Loop, t1)
  OBVIOUS
<1> HIDE DEF b1, t1, s1, n1
<1>q1. Circle("t03", 1, 2, b1, t1)
  BY <1>c11, <1>c12, <1>l1 DEF Circle
<1>p1. SoundSec("t03", s1, n1, b1[1], t1[1], b1[2], t1[2])
  BY <1>q1, <1>u1, LoopSound
<1>d. Ends("t03", s1.var, s1.steps[Len(s1.steps)], n1[Len(s1.steps)])
  BY <1>e, <1>v1, <1>p1 DEF SoundSec
<1>o. n1[1] = Start("t03") /\ s1.steps[1].op # "count"
  BY <1>s, <1>l1, <1>p1 DEF SoundSec
<1>z. SoundTest("t03", <<s1>>, <<n1>>)
  BY <1>p1, <1>d, <1>o, Sections1 DEF SoundSec
<1> QED
  BY <1>z DEF mqtttest_connect, OutlineConnect, b1, t1, s1, n1

(* The outline of mqtttest_will is sound. *)
LEMMA WillSound ==
  SoundTest("t18", mqtttest_will, OutlineWill)
<1> DEFINE K(pub, wil, last_, told, due) ==
               Known(On({"DEF"}, 1, due), pub, wil, last_, told, FALSE, "good")
           s1 == Sec(<<C(SUB), S(SUB, "DEF", 0), C(WILL), S(WILL, "WILL", 0)>>, 1, "end")
           n1 == << Blank, Up({}, 0), Up({"DEF"}, 1), K("off", "on", "any", "none", "none") >>
           b2 == <<Do("random_will"), CW(PUB), Do("reset_last"), Do("random"), P(PUB,
                 "DEF", 0, 0), Y(SUB), Cmp("rand", 0, 0), Do("reset_last"), Do("usleep"),
                 Y(WILL), Cmp("will", 0, 0), Do("drop_pub")>>
           t2 == << K("off", "heard", "any", "none", "none"),
                    K("off", "heard", "any", "none", "none"),
                    K("on", "heard", "any", "none", "none"),
                    K("on", "heard", "none", "none", "none"),
                    K("on", "heard", "none", "drawn", "none"),
                    K("on", "heard", "none", "sent", "pub"),
                    K("on", "heard", "pub", "passed", "none"),
                    K("on", "heard", "any", "none", "none"),
                    K("on", "heard", "none", "none", "none"),
                    K("down", "due", "none", "none", "none"),
                    K("down", "heard", "will", "none", "none"),
                    K("down", "heard", "any", "none", "none") >>
           s2 == Sec(Times(Loop, b2), 1, "next")
           n2 == Times(Loop, t2)
           s3 == Sec(<<U(WILL, "WILL"), D(WILL), U(SUB, "DEF"), D(SUB)>>, 2, "end")
           n3 == << K("off", "heard", "any", "none", "none"), K("off", "on", "any", "none",
                 "none"),
                    Up({"DEF"}, 1), Up({}, 0) >>
<1>m11. s1.steps[1] = C(SUB) /\ n1[1] = Blank
  BY DEF Sec
<1>m12. s1.steps[2] = S(SUB, "DEF", 0) /\ n1[2] = Up({}, 0)
  BY DEF Sec
<1>m13. s1.steps[3] = C(WILL) /\ n1[3] = Up({"DEF"}, 1)
  BY DEF Sec
<1>m14. s1.steps[4] = S(WILL, "WILL", 0) /\ n1[4] = K("off", "on", "any", "none", "none")
  BY DEF Sec
<1>m21. b2[1] = Do("random_will") /\ t2[1] = K("off", "heard", "any", "none", "none")
  OBVIOUS
<1>m22. b2[2] = CW(PUB) /\ t2[2] = K("off", "heard", "any", "none", "none")
  OBVIOUS
<1>m23. b2[3] = Do("reset_last") /\ t2[3] = K("on", "heard", "any", "none", "none")
  OBVIOUS
<1>m24. b2[4] = Do("random") /\ t2[4] = K("on", "heard", "none", "none", "none")
  OBVIOUS
<1>m25. b2[5] = P(PUB, "DEF", 0, 0) /\ t2[5] = K("on", "heard", "none", "drawn", "none")
  OBVIOUS
<1>m26. b2[6] = Y(SUB) /\ t2[6] = K("on", "heard", "none", "sent", "pub")
  OBVIOUS
<1>m27. b2[7] = Cmp("rand", 0, 0) /\ t2[7] = K("on", "heard", "pub", "passed", "none")
  OBVIOUS
<1>m28. b2[8] = Do("reset_last") /\ t2[8] = K("on", "heard", "any", "none", "none")
  OBVIOUS
<1>m29. b2[9] = Do("usleep") /\ t2[9] = K("on", "heard", "none", "none", "none")
  OBVIOUS
<1>m210. b2[10] = Y(WILL) /\ t2[10] = K("down", "due", "none", "none", "none")
  OBVIOUS
<1>m211. b2[11] = Cmp("will", 0, 0) /\ t2[11] = K("down", "heard", "will", "none", "none")
  OBVIOUS
<1>m212. b2[12] = Do("drop_pub") /\ t2[12] = K("down", "heard", "any", "none", "none")
  OBVIOUS
<1>m31. s3.steps[1] = U(WILL, "WILL") /\ n3[1] = K("off", "heard", "any", "none", "none")
  BY DEF Sec
<1>m32. s3.steps[2] = D(WILL) /\ n3[2] = K("off", "on", "any", "none", "none")
  BY DEF Sec
<1>m33. s3.steps[3] = U(SUB, "DEF") /\ n3[3] = Up({"DEF"}, 1)
  BY DEF Sec
<1>m34. s3.steps[4] = D(SUB) /\ n3[4] = Up({}, 0)
  BY DEF Sec
<1> HIDE DEF s1, n1, b2, t2, s2, n2, s3, n3
<1> USE DEF Chain, Leads, Needs, NeedsConnect, Unconnected, NeedsSubscribe,
            NeedsUnsubscribe, NeedsPublish, NeedsYield, NeedsDisconnect, NeedsCompare
<1>c11. Chain("t18", 1, s1.steps[1], n1[1], n1[2])
  BY <1>m11, <1>m12
<1>c12. Chain("t18", 1, s1.steps[2], n1[2], n1[3])
  BY <1>m12, <1>m13
<1>c13. Chain("t18", 1, s1.steps[3], n1[3], n1[4])
  BY <1>m13, <1>m14
<1>j1. Chain("t18", 1, s1.steps[4], n1[4], t2[1])
  BY <1>m14, <1>m21
<1>c21. Chain("t18", 1, b2[1], t2[1], t2[2])
  BY <1>m21, <1>m22
<1>c22. Chain("t18", 1, b2[2], t2[2], t2[3])
  BY <1>m22, <1>m23
<1>c23. Chain("t18", 1, b2[3], t2[3], t2[4])
  BY <1>m23, <1>m24
<1>c24. Chain("t18", 1, b2[4], t2[4], t2[5])
  BY <1>m24, <1>m25
<1>c25. Chain("t18", 1, b2[5], t2[5], t2[6])
  BY <1>m25, <1>m26 DEF Matches, QoS
<1>c26. Chain("t18", 1, b2[6], t2[6], t2[7])
  BY <1>m26, <1>m27 DEF Matches
<1>c27. Chain("t18", 1, b2[7], t2[7], t2[8])
  BY <1>m27, <1>m28 DEF Matches, QoS
<1>c28. Chain("t18", 1, b2[8], t2[8], t2[9])
  BY <1>m28, <1>m29
<1>c29. Chain("t18", 1, b2[9], t2[9], t2[10])
  BY <1>m29, <1>m210
<1>c210. Chain("t18", 1, b2[10], t2[10], t2[11])
  BY <1>m210, <1>m211 DEF Matches
<1>c211. Chain("t18", 1, b2[11], t2[11], t2[12])
  BY <1>m211, <1>m212 DEF Matches, QoS
<1>c212. Chain("t18", 1, b2[12], t2[12], t2[1])
  BY <1>m212, <1>m21
<1>j2. Chain("t18", 1, b2[12], t2[12], n3[1])
  BY <1>m212, <1>m31
<1>c31. Chain("t18", 2, s3.steps[1], n3[1], n3[2])
  BY <1>m31, <1>m32
<1>c32. Chain("t18", 2, s3.steps[2], n3[2], n3[3])
  BY <1>m32, <1>m33
<1>c33. Chain("t18", 2, s3.steps[3], n3[3], n3[4])
  BY <1>m33, <1>m34
<1>e. Ends("t18", 2, s3.steps[4], n3[4])
  BY <1>m34 DEF Ends, NeedToFail
<1> HIDE DEF Chain, Leads, Needs, NeedsConnect, Unconnected, NeedsSubscribe,
            NeedsUnsubscribe, NeedsPublish, NeedsYield, NeedsDisconnect, NeedsCompare
<1> USE DEF s1, n1, b2, t2, s2, n2, s3, n3
<1>l1. /\ Len(s1.steps) = 4 /\ Len(n1) = 4 /\ s1.var = 1
       /\ \A j \in 1..4 : s1.steps[j].op # "count"
  BY DEF Sec
<1>f1. FailNote(s1, t2[1])
  BY DEF FailNote, Sec
<1>l2. /\ Len(b2) = 12 /\ Len(t2) = 12
       /\ \A j \in 1..12 : b2[j].op # "count"
  BY DEF Sec
<1>v2. s2.var = 1
  BY DEF Sec
<1>f2. FailNote(s2, n3[1])
  BY DEF FailNote, Sec
<1>l3. /\ Len(s3.steps) = 4 /\ Len(n3) = 4 /\ s3.var = 2
       /\ \A j \in 1..4 : s3.steps[j].op # "count"
  BY DEF Sec
<1>s. n1[1] = Start("t18")
  BY DEF Start
<1>u2. s2 = Sec(Times(Loop, b2), 1, "next") /\ n2 = Times(Loop, t2)
  OBVIOUS
<1> HIDE DEF K, s1, n1, b2, t2, s2, n2, s3, n3
<1>p1. SoundSec("t18", s1, n1, s1.steps[1], n1[1], s1.steps[4], n1[4])
  BY <1>c11, <1>c12, <1>c13, <1>l1, Steps4
<1>q2. Circle("t18", 1, 12, b2, t2)
  BY <1>c21, <1>c22, <1>c23, <1>c24, <1>c25, <1>c26, <1>c27, <1>c28, <1>c29, <1>c210,
        <1>c211, <1>c212, <1>l2 DEF Circle
<1>p2. SoundSec("t18", s2, n2, b2[1], t2[1], b2[12], t2[12])
  BY <1>q2, <1>u2, LoopSound
<1>p3. SoundSec("t18", s3, n3, s3.steps[1], n3[1], s3.steps[4], n3[4])
  BY <1>c31, <1>c32, <1>c33, <1>l3, Steps4
<1>k1. LinkSound("t18", s1, n1, s2, n2[1])
  BY <1>p1, <1>p2, <1>j1, <1>l1, <1>l2, <1>f1, Joined
<1>k2. LinkSound("t18", s2, n2, s3, n3[1])
  BY <1>p2, <1>p3, <1>j2, <1>v2, <1>l3, <1>f2, Joined
<1>d. Ends("t18", s3.var, s3.steps[Len(s3.steps)], n3[Len(s3.steps)])
  BY <1>e, <1>l3, <1>p3 DEF SoundSec
<1>o. n1[1] = Start("t18") /\ s1.steps[1].op # "count"
  BY <1>s, <1>l1, <1>p1 DEF SoundSec
<1>z. SoundTest("t18", <<s1, s2, s3>>, <<n1, n2, n3>>)
  BY <1>p1, <1>p2, <1>p3, <1>k1, <1>k2, <1>d, <1>o, Sections3 DEF SoundSec
<1> QED
  BY <1>z DEF mqtttest_will, OutlineWill, K, s1, n1, b2, t2, s2, n2, s3, n3

(* The outlines of mqtttest_error_disconnect are sound. *)
LEMMA ErrorDisconnectSound ==
  ASSUME NEW case \in 0..2
  PROVE  SoundTest(IF case = 0 THEN "t43" ELSE IF case = 1 THEN "t44" ELSE "t45",
                   mqtttest_error_disconnect(case), OutlineErrorDisconnect)
<1> DEFINE tst == IF case = 0 THEN "t43" ELSE IF case = 1 THEN "t44" ELSE "t45"
           call == CASE case = 0 -> P(PUB, topiclist[1], 0, 0)
                     [] case = 1 -> S(SUB, topiclist[1], 0)
                     [] case = 2 -> U(SUB, topiclist[1])
           s1 == Sec(<<Do("random"), call>>, 1, "end")
           n1 == << Blank, Known(Off, "off", "off", "any", "drawn", FALSE, "good") >>
<1> USE DEF Chain, Leads, Needs, NeedsConnect, Unconnected, NeedsSubscribe,
            NeedsUnsubscribe, NeedsPublish, NeedsYield, NeedsDisconnect, NeedsCompare
<1>c. Chain(tst, 1, s1.steps[1], n1[1], n1[2])
  BY DEF Sec
<1>t. topiclist[1] = "number/1"
  BY DEF topiclist
<1>e. Ends(tst, 1, call, n1[2])
  <2>1. CASE case = 0
    BY <1>t, <2>1 DEF Ends, NeedToFail, QoS, Unconnected
  <2>2. CASE case = 1
    BY <1>t, <2>2 DEF Ends, NeedToFail, QoS
  <2>3. CASE case = 2
    BY <1>t, <2>3 DEF Ends, NeedToFail, QoS
  <2>4. QED
    BY <2>1, <2>2, <2>3
<1> HIDE DEF Chain, Leads, Needs, NeedsConnect, Unconnected, NeedsSubscribe,
            NeedsUnsubscribe, NeedsPublish, NeedsYield, NeedsDisconnect, NeedsCompare
<1>o. call.op # "count" /\ tst # "t16"
  OBVIOUS
<1>l. /\ Len(s1.steps) = 2 /\ Len(n1) = 2 /\ s1.var = 1 /\ s1.steps[2] = call
      /\ \A j \in 1..2 : s1.steps[j].op # "count"
  <2> HIDE DEF call
  <2> QED BY <1>o DEF Sec
<1>s. n1[1] = Start(tst)
  BY <1>o DEF Start
<1> HIDE DEF tst, call, s1, n1
<1>p. SoundSec(tst, s1, n1, s1.steps[1], n1[1], s1.steps[2], n1[2])
  BY <1>c, <1>l, Steps2
<1>d. Ends(tst, s1.var, s1.steps[Len(s1.steps)], n1[Len(s1.steps)])
  BY <1>e, <1>l
<1>z. SoundTest(tst, <<s1>>, <<n1>>)
  BY <1>p, <1>d, <1>l, <1>s, Sections1 DEF SoundSec
<1> QED
  BY <1>z DEF mqtttest_error_disconnect, OutlineErrorDisconnect, tst, call, s1, n1

(* ... and seven sections. *)
LEMMA Sections7 ==
  ASSUME NEW tst, NEW s1, NEW s2, NEW s3, NEW s4, NEW s5, NEW s6, NEW s7,
         NEW n1, NEW n2, NEW n3, NEW n4, NEW n5, NEW n6, NEW n7,
         n1[1] = Start(tst), s1.steps[1].op # "count",
         SectionSound(tst, s1, n1),
         SectionSound(tst, s2, n2),
         SectionSound(tst, s3, n3),
         SectionSound(tst, s4, n4),
         SectionSound(tst, s5, n5),
         SectionSound(tst, s6, n6),
         SectionSound(tst, s7, n7),
         LinkSound(tst, s1, n1, s2, n2[1]),
         LinkSound(tst, s2, n2, s3, n3[1]),
         LinkSound(tst, s3, n3, s4, n4[1]),
         LinkSound(tst, s4, n4, s5, n5[1]),
         LinkSound(tst, s5, n5, s6, n6[1]),
         LinkSound(tst, s6, n6, s7, n7[1]),
         Ends(tst, s7.var, s7.steps[Len(s7.steps)], n7[Len(s7.steps)])
  PROVE  SoundTest(tst, <<s1, s2, s3, s4, s5, s6, s7>>, <<n1, n2, n3, n4, n5, n6, n7>>)
BY DEF SoundTest

(* The six steps of a turn, in which the topic t is published. *)
SixSteps(s, t, what) == <<Do("reset_last"), Do("random"), P(s, t, 0, 0), Y(SUB),
                          Cmp(what, 0, 0), Y(PUB)>>

(* Each step of a turn leads to the next one. *)
LEMMA TurnSteps ==
  ASSUME NEW tst, QoS(tst) = 0, NEW ts, NEW n, NEW pub, NEW s \in {SUB, PUB},
         s = PUB => pub = "on", NEW t, t # "WILL", NEW due,
         due = IF \E f \in ts : Matches(f, t) THEN "pub" ELSE "none"
  PROVE  LET c(last_, told, d) == Turned(ts, n, pub, last_, told, d)
             what == IF due = "pub" THEN "rand" ELSE "none"
             l == IF due = "pub" THEN "pub" ELSE "none"
         IN /\ Chain(tst, 1, Do("reset_last"), c("any", "none", "none"), c("none", "none", "none"))
            /\ Chain(tst, 1, Do("random"), c("none", "none", "none"), c("none", "drawn", "none"))
            /\ Chain(tst, 1, P(s, t, 0, 0), c("none", "drawn", "none"), c("none", "sent", due))
            /\ Chain(tst, 1, Y(SUB), c("none", "sent", due), c(l, "passed", "none"))
            /\ \A told \in {"none", "passed"} :
                  Chain(tst, 1, Cmp(what, 0, 0), c(l, "passed", "none"), c("any", told, "none"))
            /\ pub = "on" =>
                  Chain(tst, 1, Y(PUB), c("any", "passed", "none"), c("any", "none", "none"))
<1> DEFINE c(last_, told, d) == Turned(ts, n, pub, last_, told, d)
           what == IF due = "pub" THEN "rand" ELSE "none"
           l == IF due = "pub" THEN "pub" ELSE "none"
<1> USE DEF Chain, Leads, Needs, NeedsPublish, NeedsYield, NeedsCompare
<1>1. Chain(tst, 1, Do("reset_last"), c("any", "none", "none"), c("none", "none", "none"))
  OBVIOUS
<1>2. Chain(tst, 1, Do("random"), c("none", "none", "none"), c("none", "drawn", "none"))
  OBVIOUS
<1>3. Chain(tst, 1, P(s, t, 0, 0), c("none", "drawn", "none"), c("none", "sent", due))
  OBVIOUS
<1>4. Chain(tst, 1, Y(SUB), c("none", "sent", due), c(l, "passed", "none"))
  <2>1. CASE due = "pub"
    BY <2>1
  <2>2. CASE due = "none"
    BY <2>2
  <2> HIDE DEF Chain, Turned, Y, c, l
  <2>3. QED
    BY <2>1, <2>2
<1>5. \A told \in {"none", "passed"} :
         Chain(tst, 1, Cmp(what, 0, 0), c(l, "passed", "none"), c("any", told, "none"))
  OBVIOUS
<1>6. pub = "on" =>
         Chain(tst, 1, Y(PUB), c("any", "passed", "none"), c("any", "none", "none"))
  OBVIOUS
<1> HIDE DEF Chain, Turned, Do, P, Y, Cmp
<1> QED
  BY <1>1, <1>2, <1>3, <1>4, <1>5, <1>6

(* A turn: its steps b with what is known before them, a. *)
IsTurn(tst, ts, n, pub, s, t, due, b, a) ==
    /\ QoS(tst) = 0 /\ s \in {SUB, PUB} /\ (s = PUB => pub = "on") /\ t # "WILL"
    /\ due = IF \E f \in ts : Matches(f, t) THEN "pub" ELSE "none"
    /\ b = SixSteps(s, t, IF due = "pub" THEN "rand" ELSE "none")
    /\ a = Turn5(ts, n, pub, due)

(* A turn leads from step to step, and to the start of any other turn. *)
LEMMA TurnSound ==
  ASSUME NEW tst, NEW ts, NEW n, NEW pub, NEW s, NEW t, NEW due, NEW b, NEW a,
         IsTurn(tst, ts, n, pub, s, t, due, b, a)
  PROVE  /\ \A k \in 1..4 : Chain(tst, 1, b[k], a[k], a[k + 1])
         /\ \A told \in {"none", "passed"} :
               Chain(tst, 1, b[5], a[5], Turned(ts, n, pub, "any", told, "none"))
         /\ pub = "on" => Chain(tst, 1, b[6], Turned(ts, n, "on", "any", "passed", "none"),
                               Turned(ts, n, "on", "any", "none", "none"))
         /\ \A k \in 1..6 : b[k].op # "count"
         /\ a[1] = Turned(ts, n, pub, "any", "none", "none")
<1> USE DEF IsTurn
<1>b. /\ b[1] = Do("reset_last") /\ b[2] = Do("random") /\ b[3] = P(s, t, 0, 0)
      /\ b[4] = Y(SUB) /\ b[5] = Cmp(IF due = "pub" THEN "rand" ELSE "none", 0, 0)
      /\ b[6] = Y(PUB)
  BY DEF SixSteps
<1>7. \A k \in 1..6 : b[k].op # "count"
  BY <1>b
<1> HIDE DEF Chain, Turned, Do, P, Y, Cmp
<1>a. /\ a[1] = Turned(ts, n, pub, "any", "none", "none")
      /\ a[2] = Turned(ts, n, pub, "none", "none", "none")
      /\ a[3] = Turned(ts, n, pub, "none", "drawn", "none")
      /\ a[4] = Turned(ts, n, pub, "none", "sent", due)
      /\ a[5] = Turned(ts, n, pub, IF due = "pub" THEN "pub" ELSE "none", "passed", "none")
  BY DEF Turn5
<1>s. LET c(last_, told, d) == Turned(ts, n, pub, last_, told, d)
          what == IF due = "pub" THEN "rand" ELSE "none"
          l == IF due = "pub" THEN "pub" ELSE "none"
      IN /\ Chain(tst, 1, Do("reset_last"), c("any", "none", "none"), c("none", "none", "none"))
         /\ Chain(tst, 1, Do("random"), c("none", "none", "none"), c("none", "drawn", "none"))
         /\ Chain(tst, 1, P(s, t, 0, 0), c("none", "drawn", "none"), c("none", "sent", due))
         /\ Chain(tst, 1, Y(SUB), c("none", "sent", due), c(l, "passed", "none"))
         /\ \A told \in {"none", "passed"} :
               Chain(tst, 1, Cmp(what, 0, 0), c(l, "passed", "none"), c("any", told, "none"))
         /\ pub = "on" =>
               Chain(tst, 1, Y(PUB), c("any", "passed", "none"), c("any", "none", "none"))
  BY TurnSteps, ZenonT(60)
<1>1. Chain(tst, 1, b[1], a[1], a[2])
  BY <1>a, <1>b, <1>s
<1>2. Chain(tst, 1, b[2], a[2], a[3])
  BY <1>a, <1>b, <1>s
<1>3. Chain(tst, 1, b[3], a[3], a[4])
  BY <1>a, <1>b, <1>s
<1>4. Chain(tst, 1, b[4], a[4], a[5])
  BY <1>a, <1>b, <1>s
<1>5. \A told \in {"none", "passed"} :
         Chain(tst, 1, b[5], a[5], Turned(ts, n, pub, "any", told, "none"))
  BY <1>a, <1>b, <1>s
<1>6. pub = "on" => Chain(tst, 1, b[6], Turned(ts, n, "on", "any", "passed", "none"),
                        Turned(ts, n, "on", "any", "none", "none"))
  BY <1>b, <1>s
<1> QED
  BY <1>1, <1>2, <1>3, <1>4, <1>5, <1>6, <1>7, <1>a

(* A turn that ends with a yield of the publisher. *)
IsSix(tst, ts, n, t, due, b, a) ==
    /\ QoS(tst) = 0 /\ t # "WILL"
    /\ due = IF \E f \in ts : Matches(f, t) THEN "pub" ELSE "none"
    /\ b = SixSteps(PUB, t, IF due = "pub" THEN "rand" ELSE "none")
    /\ a = Turn6(ts, n, due)

(* So does a turn of six steps. *)
LEMMA SixSound ==
  ASSUME NEW tst, NEW ts, NEW n, NEW t, NEW due, NEW b, NEW a,
         IsSix(tst, ts, n, t, due, b, a)
  PROVE  /\ \A k \in 1..5 : Chain(tst, 1, b[k], a[k], a[k + 1])
         /\ Chain(tst, 1, b[6], a[6], Open(ts, n))
         /\ \A k \in 1..6 : b[k].op # "count"
         /\ a[1] = Open(ts, n)
<1> USE DEF IsSix
<1> DEFINE f == Turn5(ts, n, "on", due)
<1>1. /\ \A k \in 1..4 : Chain(tst, 1, b[k], f[k], f[k + 1])
      /\ Chain(tst, 1, b[5], f[5], Turned(ts, n, "on", "any", "passed", "none"))
      /\ Chain(tst, 1, b[6], Turned(ts, n, "on", "any", "passed", "none"),
                               Turned(ts, n, "on", "any", "none", "none"))
      /\ \A k \in 1..6 : b[k].op # "count"
  <2>1. IsTurn(tst, ts, n, "on", PUB, t, due, b, f)
    BY DEF IsTurn
  <2> HIDE DEF Turned, f
  <2>2. QED BY <2>1, TurnSound
<1>2. f[1] = Turned(ts, n, "on", "any", "none", "none")
  BY DEF Turn5
<1> HIDE DEF f
<1>3. /\ a[1] = f[1] /\ a[2] = f[2] /\ a[3] = f[3] /\ a[4] = f[4] /\ a[5] = f[5]
      /\ a[6] = Turned(ts, n, "on", "any", "passed", "none")
  <2> HIDE DEF Turned
  <2> QED BY DEF Turn6, f
<1>4. Open(ts, n) = Turned(ts, n, "on", "any", "none", "none")
  OBVIOUS
<1> HIDE DEF Turned, Open
<1>5. ASSUME NEW k \in 1..5 PROVE Chain(tst, 1, b[k], a[k], a[k + 1])
  <2>1. CASE k = 5
    BY <1>1, <1>3, <2>1
  <2>2. CASE k \in 1..4
    BY <1>1, <1>3, <2>2
  <2>3. QED
    BY <2>1, <2>2
<1> QED
  BY <1>1, <1>2, <1>3, <1>4, <1>5

(* The topics of the list by number. *)
LEMMA Topics ==
  /\ topiclist[1] = "number/1" /\ topiclist[2] = "number/2" /\ topiclist[3] = "number/3"
  /\ topiclist[4] = "test/1" /\ topiclist[5] = "test/2" /\ topiclist[6] = "DUMMY/number/2"
BY DEF topiclist

(* They differ from each other and from the topics of other tests. *)
LEMMA TopicsDiffer ==
  /\ \A i, j \in 1..6 : topiclist[i] = topiclist[j] => i = j
  /\ \A i \in 1..6 : topiclist[i] \notin {"WILL", "RETAIN", "none"}
<1>1. \A i \in 1..6 : i \in {1, 2, 3, 4, 5, 6}
  OBVIOUS
<1>2. \A i, j \in {1, 2, 3, 4, 5, 6} : topiclist[i] = topiclist[j] => i = j
  BY Topics
<1>3. \A i \in {1, 2, 3, 4, 5, 6} : topiclist[i] \notin {"WILL", "RETAIN", "none"}
  BY Topics
<1>4. QED
  BY <1>1, <1>2, <1>3, Zenon

(* The answers of mqtttest_wild are those of the broker. *)
LEMMA WildAnswers ==
  ASSUME NEW w \in {"w0", "w1", "w2"}, NEW d \in 1..6
  PROVE  mqtttest_wild[w].answer[d] = 1 <=> Matches(mqtttest_wild[w].topic, topiclist[d])
<1>1. d \in {1, 2, 3, 4, 5, 6}
  OBVIOUS
<1>2. \A t \in {topiclist[1], topiclist[2], topiclist[3], topiclist[4], topiclist[5]} :
         t \in {topiclist[i] : i \in 1..5}
  OBVIOUS
<1>3. topiclist[6] \notin {topiclist[i] : i \in 1..5}
  <2>1. \A i \in 1..5 : i \in 1..6 /\ i # 6
    OBVIOUS
  <2>2. QED
    BY <2>1, TopicsDiffer
<1>4. CASE w = "w0"
  <2>1. /\ mqtttest_wild[w].topic = "number/+"
        /\ \A i \in {1, 2, 3, 4, 5, 6} :
              mqtttest_wild[w].answer[i] = IF i \in {1, 2, 3} THEN 1 ELSE 0
    BY <1>4 DEF mqtttest_wild
  <2>2. QED
    BY <1>1, <2>1, Topics DEF Matches
<1>5. CASE w = "w1"
  <2>1. /\ mqtttest_wild[w].topic = "+/2"
        /\ \A i \in {1, 2, 3, 4, 5, 6} :
              mqtttest_wild[w].answer[i] = IF i \in {2, 5} THEN 1 ELSE 0
    BY <1>5 DEF mqtttest_wild
  <2>2. QED
    BY <1>1, <2>1, Topics DEF Matches
<1>6. CASE w = "w2"
  <2>1. /\ mqtttest_wild[w].topic = "DATA/#"
        /\ \A i \in {1, 2, 3, 4, 5, 6} :
              mqtttest_wild[w].answer[i] = IF i # 6 THEN 1 ELSE 0
    BY <1>6 DEF mqtttest_wild
  <2>2. CASE d # 6
    BY <1>1, <1>2, <2>1, <2>2 DEF Matches
  <2>3. CASE d = 6
    BY <1>3, <2>1, <2>3, Topics DEF Matches
  <2>4. QED
    BY <2>2, <2>3
<1>7. QED
  BY <1>4, <1>5, <1>6

(* The outlines of mqtttest_wildcard are sound, for each of its filters. *)
LEMMA WildSound ==
  ASSUME NEW tst \in {"t30", "t32", "t34"}, NEW w,
         w = IF tst = "t30" THEN "w0" ELSE IF tst = "t32" THEN "w1" ELSE "w2"
  PROVE  SoundTest(tst, mqtttest_wildcard(w), OutlineWildcard(w))
<1> DEFINE topic == mqtttest_wild[w].topic
           expects(d) == IF mqtttest_wild[w].answer[d] = 1 THEN "rand" ELSE "none"
           Turn(d) == <<Do("reset_last"), Do("random"), P(PUB, topiclist[d], 0, 0),
                        Y(SUB), Cmp(expects(d), 0, 0), Y(PUB)>>
           due(d) == IF mqtttest_wild[w].answer[d] = 1 THEN "pub" ELSE "none"
           Notes(d) == Turn6({topic}, 1, due(d))
           F == [d \in 1..6 |-> Turn(d)]
           G == [d \in 1..6 |-> Notes(d)]
           e == Each(Turn, 6)
           g == Each(Notes, 6)
           s1 == Sec(<<C(SUB), S(SUB, topic, 0), C(PUB)>>, 1, "end")
           n1 == Begin(topic)
           s2 == Sec(e, 1, "next")
           s3 == Sec(<<D(PUB), U(SUB, topic), D(SUB)>>, 2, "end")
           n3 == Close(topic)
<1>t. topic \in {"number/+", "+/2", "DATA/#"}
  BY DEF mqtttest_wild
<1>q. QoS(tst) = 0 /\ tst # "t16" /\ tst \notin NeedToFail
  BY DEF QoS, NeedToFail
<1>w. w \in {"w0", "w1", "w2"}
  OBVIOUS
<1> HIDE DEF topic
<1>f. ASSUME NEW d \in 1..6
      PROVE  /\ \A k \in 1..5 : Chain(tst, 1, Turn(d)[k], Notes(d)[k], Notes(d)[k + 1])
             /\ Chain(tst, 1, Turn(d)[6], Notes(d)[6], Open({topic}, 1))
             /\ \A k \in 1..6 : Turn(d)[k].op # "count"
             /\ Notes(d)[1] = Open({topic}, 1)
  <2>1. due(d) = IF \E f \in {topic} : Matches(f, topiclist[d]) THEN "pub" ELSE "none"
    BY <1>w, WildAnswers DEF topic
  <2>2. topiclist[d] # "WILL"
    BY TopicsDiffer
  <2>3. Turn(d) = SixSteps(PUB, topiclist[d], IF due(d) = "pub" THEN "rand" ELSE "none")
    BY DEF SixSteps
  <2> DEFINE b == Turn(d)
             a == Notes(d)
             u == due(d)
  <2>4. IsSix(tst, {topic}, 1, topiclist[d], u, b, a)
    BY <1>q, <2>1, <2>2, <2>3 DEF IsSix
  <2> HIDE DEF b, a, u, Open, Chain
  <2>5. /\ \A k \in 1..5 : Chain(tst, 1, b[k], a[k], a[k + 1])
        /\ Chain(tst, 1, b[6], a[6], Open({topic}, 1))
        /\ \A k \in 1..6 : b[k].op # "count"
        /\ a[1] = Open({topic}, 1)
    BY <2>4, SixSound
  <2>6. QED
    BY <2>5 DEF b, a
<1>l. Len(Turn(1)) = 6 /\ Len(Notes(1)) = 6
  BY DEF Turn6
<1> HIDE DEF Turn, Notes
<1>e. /\ e = [i \in 1..6 * 6 |-> F[((i - 1) \div 6) + 1][((i - 1) % 6) + 1]]
      /\ g = [i \in 1..6 * 6 |-> G[((i - 1) \div 6) + 1][((i - 1) % 6) + 1]]
  <2>1. \A i \in 1..6 * 6 : ((i - 1) \div 6) + 1 \in 1..6
    OBVIOUS
  <2>2. QED
    BY <1>l, <2>1 DEF Each
<1>F. \A d \in 1..6 : F[d] = Turn(d) /\ G[d] = Notes(d)
  OBVIOUS
<1> HIDE DEF e, g, F, G
<1>c. Chained(tst, 1, 6, 6, F, G, e, g)
  <2>0. 6 \in Nat \ {0} /\ 6 \in {1, 2, 5, 6, 7, 12}
    OBVIOUS
  <2>1. \A d \in 1..6, k \in 1..6 - 1 : Chain(tst, 1, F[d][k], G[d][k], G[d][k + 1])
    <3> HIDE DEF Chain
    <3> QED BY <1>f, <1>F
  <2>2. \A d \in 1..6 - 1 : Chain(tst, 1, F[d][6], G[d][6], G[d + 1][1])
    <3> HIDE DEF Chain, Open
    <3>1. \A d \in 1..6 - 1 : d \in 1..6 /\ d + 1 \in 1..6
      OBVIOUS
    <3> QED BY <1>f, <1>F, <3>1
  <2>3. \A d \in 1..6, k \in 1..6 : F[d][k].op # "count"
    BY <1>f, <1>F
  <2>4. QED
    BY <1>e, <2>0, <2>1, <2>2, <2>3, Zenon DEF Chained
<1>p2. SoundSec(tst, s2, g, F[1][1], G[1][1], F[6][6], G[6][6])
  BY <1>c, EachSound
<1>o. /\ G[1][1] = Open({topic}, 1) /\ F[1][1].op # "count"
      /\ Chain(tst, 1, F[6][6], G[6][6], Open({topic}, 1))
  <2> HIDE DEF Chain, Open
  <2> QED BY <1>f, <1>F
<1> USE DEF Chain, Leads, Needs, NeedsConnect, Unconnected, NeedsSubscribe,
            NeedsUnsubscribe, NeedsPublish, NeedsYield, NeedsDisconnect, NeedsCompare
<1>c11. Chain(tst, 1, s1.steps[1], n1[1], n1[2])
  BY DEF Sec, Begin
<1>c12. Chain(tst, 1, s1.steps[2], n1[2], n1[3])
  BY <1>t DEF Sec, Begin
<1>j1. Chain(tst, 1, s1.steps[3], n1[3], Open({topic}, 1))
  BY DEF Sec, Begin
<1>c31. Chain(tst, 2, s3.steps[1], n3[1], n3[2])
  BY DEF Sec, Close
<1>c32. Chain(tst, 2, s3.steps[2], n3[2], n3[3])
  BY DEF Sec, Close
<1>e3. Ends(tst, 2, s3.steps[3], n3[3])
  BY <1>q DEF Sec, Close, Ends
<1> HIDE DEF Chain, Leads, Needs, NeedsConnect, Unconnected, NeedsSubscribe,
            NeedsUnsubscribe, NeedsPublish, NeedsYield, NeedsDisconnect, NeedsCompare
<1>l1. /\ Len(s1.steps) = 3 /\ Len(n1) = 3 /\ s1.var = 1
       /\ \A j \in 1..3 : s1.steps[j].op # "count"
  BY DEF Sec, Begin
<1>l3. /\ Len(s3.steps) = 3 /\ Len(n3) = 3 /\ s3.var = 2
       /\ \A j \in 1..3 : s3.steps[j].op # "count"
  BY DEF Sec, Close
<1>v2. s2.var = 1
  BY DEF Sec
<1>n3. n3[1] = Open({topic}, 1)
  BY DEF Close
<1>f1. FailNote(s1, Open({topic}, 1))
  BY DEF FailNote, Sec
<1>f2. FailNote(s2, Open({topic}, 1))
  BY DEF FailNote, Sec
<1>s. n1[1] = Start(tst)
  BY <1>q DEF Start, Begin
<1> HIDE DEF s1, n1, s2, s3, n3, Open
<1>p1. SoundSec(tst, s1, n1, s1.steps[1], n1[1], s1.steps[3], n1[3])
  BY <1>c11, <1>c12, <1>l1, Steps3
<1>p3. SoundSec(tst, s3, n3, s3.steps[1], n3[1], s3.steps[3], n3[3])
  BY <1>c31, <1>c32, <1>l3, Steps3
<1>k1. LinkSound(tst, s1, n1, s2, g[1])
  BY <1>p1, <1>p2, <1>j1, <1>l1, <1>f1, <1>o, Joined
<1>k2. LinkSound(tst, s2, g, s3, n3[1])
  BY <1>p2, <1>p3, <1>o, <1>v2, <1>l3, <1>n3, <1>f2, Joined
<1>d. Ends(tst, s3.var, s3.steps[Len(s3.steps)], n3[Len(s3.steps)])
  BY <1>e3, <1>l3
<1>z. SoundTest(tst, <<s1, s2, s3>>, <<n1, g, n3>>)
  BY <1>p1, <1>p2, <1>p3, <1>k1, <1>k2, <1>d, <1>s, <1>l1, Sections3 DEF SoundSec
<1>x. mqtttest_wildcard(w) = <<s1, s2, s3>>
  BY DEF mqtttest_wildcard, s1, s2, s3, e, topic, Turn
<1>y. OutlineWildcard(w) = <<n1, g, n3>>
  BY DEF OutlineWildcard, n1, n3, g, topic, Notes
<1> QED
  BY <1>x, <1>y, <1>z

(* The first and the remaining topics, one more and one less. *)
LEMMA FirstTopics ==
  /\ First(0) = {} /\ Rest(6) = {} /\ Rest(1) = First(5)
  /\ \A d \in 1..5 : /\ First(d) = First(d - 1) \cup {topiclist[d]}
                     /\ topiclist[d] \notin First(d - 1)
                     /\ Rest(d + 1) = Rest(d) \ {topiclist[d]}
                     /\ topiclist[d] \in Rest(d)
<1>1. First(0) = {} /\ Rest(6) = {} /\ Rest(1) = First(5)
  BY DEF First, Rest
<1>2. ASSUME NEW d \in 1..5
      PROVE  First(d) = First(d - 1) \cup {topiclist[d]} /\ topiclist[d] \notin First(d - 1)
  <2>1. 1..d = (1..d - 1) \cup {d}
    OBVIOUS
  <2>2. \A i \in 1..d - 1 : i # d /\ i \in 1..6 /\ d \in 1..6
    OBVIOUS
  <2>3. topiclist[d] \notin First(d - 1)
    BY <2>2, TopicsDiffer DEF First
  <2>4. QED
    BY <2>1, <2>3 DEF First
<1>3. ASSUME NEW d \in 1..5
      PROVE  Rest(d + 1) = Rest(d) \ {topiclist[d]} /\ topiclist[d] \in Rest(d)
  <2>1. d..5 = (d + 1..5) \cup {d} /\ d \in d..5
    OBVIOUS
  <2>2. \A i \in d + 1..5 : i # d /\ i \in 1..6 /\ d \in 1..6
    OBVIOUS
  <2>3. \A i \in d + 1..5 : topiclist[i] # topiclist[d]
    BY <2>2, TopicsDiffer
  <2>4. QED
    BY <2>1, <2>3 DEF Rest
<1>4. QED
  BY <1>1, <1>2, <1>3

(* The subscriptions and their ends, one after the other. *)
LEMMA SubscribeAll ==
  ASSUME NEW tst, NEW d \in 1..5
  PROVE  Chain(tst, 1, S(SUB, topiclist[d], 0), Up(First(d - 1), d - 1), Up(First(d), d))
<1> DEFINE t == topiclist[d]
           x == First(d - 1)
<1>1. t \notin {"WILL", "RETAIN", "none"} /\ t \notin x /\ First(d) = x \cup {t}
  BY FirstTopics, TopicsDiffer
<1>2. d - 1 < 5 /\ (d - 1) + 1 = d
  OBVIOUS
<1> HIDE DEF t, x
<1>3. ASSUME NEW n, n < 5
      PROVE  Chain(tst, 1, S(SUB, t, 0), Up(x, n), Up(x \cup {t}, n + 1))
  BY <1>1, <1>3 DEF Chain, Leads, Needs, NeedsSubscribe
<1>4. QED
  BY <1>1, <1>2, <1>3 DEF t, x

(* ... and their ends. *)
LEMMA UnsubscribeAll ==
  ASSUME NEW tst, NEW d \in 1..5
  PROVE  Chain(tst, 2, U(SUB, topiclist[d]), Up(Rest(d), 6 - d), Up(Rest(d + 1), 5 - d))
<1> DEFINE t == topiclist[d]
           x == Rest(d)
<1>1. t \in x /\ Rest(d + 1) = x \ {t}
  BY FirstTopics
<1>2. (6 - d) - 1 = 5 - d
  OBVIOUS
<1> HIDE DEF t, x
<1>3. ASSUME NEW n
      PROVE  Chain(tst, 2, U(SUB, t), Up(x, n), Up(x \ {t}, n - 1))
  BY <1>1 DEF Chain, Leads, Needs, NeedsUnsubscribe
<1>4. QED
  BY <1>1, <1>2, <1>3 DEF t, x

(* All topics, one step each. *)
IsRow(tst, var, f, g, F, G, k) ==
    /\ k \in Nat \ {0}
    /\ f = [i \in 1..k |-> F[i]] /\ g = [i \in 1..k |-> G[i]]
    /\ \A d \in 1..k - 1 : Chain(tst, var, F[d], G[d], G[d + 1])
    /\ \A d \in 1..k : F[d].op # "count"

(* A section that goes through the topics once is sound. *)
LEMMA RowSound ==
  ASSUME NEW tst, NEW var, NEW fail, NEW f, NEW g, NEW F, NEW G, NEW k,
         IsRow(tst, var, f, g, F, G, k)
  PROVE  SoundSec(tst, Sec(f, var, fail), g, F[1], G[1], F[k], G[k])
<1>1. k \in Nat \ {0} /\ 1 \in 1..k /\ k \in 1..k
  BY DEF IsRow
<1>2. Len(f) = k /\ Len(g) = k /\ \A i \in 1..k : f[i] = F[i] /\ g[i] = G[i]
  BY DEF IsRow
<1>3. \A j \in 1..k - 1 : Chain(tst, var, f[j], g[j], g[j + 1])
  <2>1. \A j \in 1..k - 1 : j \in 1..k /\ j + 1 \in 1..k
    BY <1>1
  <2>2. QED
    BY <1>2, <2>1 DEF IsRow
<1>4. \A j \in 1..k : f[j].op # "count"
  BY <1>2 DEF IsRow
<1>5. SectionSound(tst, [steps |-> f, var |-> var, fail |-> fail], g)
  BY <1>2, <1>3, <1>4 DEF SectionSound
<1>6. QED
  BY <1>1, <1>2, <1>5 DEF SoundSec, Sec

(* A section of one step that is no count is sound, ... *)
LEMMA OneStep ==
  ASSUME NEW tst, NEW st, st.op # "count", NEW var, NEW fail, NEW a
  PROVE  SoundSec(tst, Sec(<<st>>, var, fail), <<a>>, st, a, st, a)
<1> DEFINE s == Sec(<<st>>, var, fail)
           n == <<a>>
<1>1. /\ Len(s.steps) = 1 /\ Len(n) = 1 /\ s.steps[1] = st /\ n[1] = a
      /\ \A j \in 1..1 : s.steps[j].op # "count"
  BY DEF Sec
<1> HIDE DEF s, n
<1>2. SoundSec(tst, s, n, st, a, st, a)
  BY <1>1, Steps1
<1> QED
  BY <1>2 DEF s, n

(* The outlines of mqtttest_multi are sound, with one socket and with two. *)
LEMMA MultiSound ==
  ASSUME NEW same \in BOOLEAN, NEW tst, tst = IF same THEN "t22" ELSE "t20"
  PROVE  SoundTest(tst, mqtttest_multi(same), OutlineMulti(same))
<1> DEFINE Subscribe(d) == <<S(SUB, topiclist[d], 0)>>
           Unsubscribe(d) == <<U(SUB, topiclist[d])>>
           six(d) == <<Do("reset_last"), Do("random"),
                       P(IF same THEN SUB ELSE PUB, topiclist[d], 0, 0),
                       Y(SUB), Cmp("rand", 0, 0), Y(PUB)>>
           len == IF same THEN 5 ELSE 6
           Turn(d) == SubSeq(six(d), 1, len)
           first == Sec(<<C(SUB)>>, 1, "end")
           subscribed == Sec(Each(Subscribe, MQTT_TEST_LIST_MULTI), 1, "next")
           turns == Sec(Each(Turn, MQTT_TEST_LIST_MULTI), 1, "next")
           ended == Sec(Each(Unsubscribe, MQTT_TEST_LIST_MULTI), 2, "next")
           final == Sec(<<D(SUB)>>, 2, "end")
           opened == Sec(<<C(PUB)>>, 1, "end")
           closed == Sec(<<D(PUB)>>, 2, "end")
           NSubscribe(d) == << Up(First(d - 1), d - 1) >>
           NUnsubscribe(d) == << Up(Rest(d), 6 - d) >>
           NTurn(d) == IF same THEN Turn5(First(5), 5, "off", "pub")
                       ELSE Turn6(First(5), 5, "pub")
           nsubscribed == Each(NSubscribe, 5)
           nturns == Each(NTurn, 5)
           nended == Each(NUnsubscribe, 5)
           pub == IF same THEN "off" ELSE "on"
           All == Turned(First(5), 5, pub, "any", "none", "none")
           FS == [d \in 1..5 |-> Subscribe(d)[1]]
           GS == [d \in 1..5 |-> NSubscribe(d)[1]]
           FU == [d \in 1..5 |-> Unsubscribe(d)[1]]
           GU == [d \in 1..5 |-> NUnsubscribe(d)[1]]
           F == [d \in 1..5 |-> Turn(d)]
           G == [d \in 1..5 |-> NTurn(d)]
<1>q. QoS(tst) = 0 /\ tst # "t16" /\ tst \notin NeedToFail
  BY DEF QoS, NeedToFail
<1>s. /\ Each(Subscribe, 5) = [i \in 1..5 |-> FS[i]]
      /\ Each(NSubscribe, 5) = [i \in 1..5 |-> GS[i]]
      /\ Each(Unsubscribe, 5) = [i \in 1..5 |-> FU[i]]
      /\ Each(NUnsubscribe, 5) = [i \in 1..5 |-> GU[i]]
  <2> HIDE DEF S, U, Up
  <2>1. /\ Len(Subscribe(1)) = 1 /\ Len(NSubscribe(1)) = 1
        /\ Len(Unsubscribe(1)) = 1 /\ Len(NUnsubscribe(1)) = 1
    OBVIOUS
  <2>2. \A i \in 1..5 * 1 : ((i - 1) \div 1) + 1 = i /\ ((i - 1) % 1) + 1 = 1
    OBVIOUS
  <2>3. 5 * 1 = 5
    OBVIOUS
  <2> HIDE DEF Subscribe, NSubscribe, Unsubscribe, NUnsubscribe
  <2>4. QED
    BY <2>1, <2>2, <2>3 DEF Each
<1>ps. SoundSec(tst, subscribed, nsubscribed, FS[1], GS[1], FS[5], GS[5])
  <2>1. IsRow(tst, 1, Each(Subscribe, 5), Each(NSubscribe, 5), FS, GS, 5)
    <3>1. \A d \in 1..5 : FS[d] = S(SUB, topiclist[d], 0) /\ GS[d] = Up(First(d - 1), d - 1)
      OBVIOUS
    <3>2. \A d \in 1..5 - 1 : d \in 1..5 /\ d + 1 \in 1..5 /\ (d + 1) - 1 = d
      OBVIOUS
    <3>3. \A d \in 1..5 : FS[d].op # "count"
      OBVIOUS
    <3> HIDE DEF FS, GS, Chain, S, Up
    <3>4. \A d \in 1..5 - 1 : Chain(tst, 1, FS[d], GS[d], GS[d + 1])
      BY <3>1, <3>2, SubscribeAll
    <3>5. 5 \in Nat \ {0}
      OBVIOUS
    <3> HIDE DEF Subscribe, NSubscribe
    <3>6. QED
      BY <1>s, <3>3, <3>4, <3>5, Zenon DEF IsRow
  <2> DEFINE f == Each(Subscribe, 5)
             g == Each(NSubscribe, 5)
  <2>2. IsRow(tst, 1, f, g, FS, GS, 5)
    BY <2>1
  <2> HIDE DEF f, g, FS, GS
  <2>3. SoundSec(tst, Sec(f, 1, "next"), g, FS[1], GS[1], FS[5], GS[5])
    BY <2>2, RowSound
  <2>4. QED
    BY <2>3 DEF f, g
<1>pe. SoundSec(tst, ended, nended, FU[1], GU[1], FU[5], GU[5])
  <2>1. IsRow(tst, 2, Each(Unsubscribe, 5), Each(NUnsubscribe, 5), FU, GU, 5)
    <3>1. \A d \in 1..5 : FU[d] = U(SUB, topiclist[d]) /\ GU[d] = Up(Rest(d), 6 - d)
      OBVIOUS
    <3>2. \A d \in 1..5 - 1 : d \in 1..5 /\ d + 1 \in 1..5 /\ 6 - (d + 1) = 5 - d
      OBVIOUS
    <3>3. \A d \in 1..5 : FU[d].op # "count"
      OBVIOUS
    <3> HIDE DEF FU, GU, Chain, U, Up
    <3>4. \A d \in 1..5 - 1 : Chain(tst, 2, FU[d], GU[d], GU[d + 1])
      BY <3>1, <3>2, UnsubscribeAll
    <3>5. 5 \in Nat \ {0}
      OBVIOUS
    <3> HIDE DEF Unsubscribe, NUnsubscribe
    <3>6. QED
      BY <1>s, <3>3, <3>4, <3>5, Zenon DEF IsRow
  <2> DEFINE f == Each(Unsubscribe, 5)
             g == Each(NUnsubscribe, 5)
  <2>2. IsRow(tst, 2, f, g, FU, GU, 5)
    BY <2>1
  <2> HIDE DEF f, g, FU, GU
  <2>3. SoundSec(tst, Sec(f, 2, "next"), g, FU[1], GU[1], FU[5], GU[5])
    BY <2>2, RowSound
  <2>4. QED
    BY <2>3 DEF f, g
<1>F. \A d \in 1..5 : F[d] = Turn(d) /\ G[d] = NTurn(d)
  OBVIOUS
<1>t. ASSUME NEW d \in 1..5
      PROVE  /\ \A k \in 1..len : Turn(d)[k] = six(d)[k]
             /\ six(d) = SixSteps(IF same THEN SUB ELSE PUB, topiclist[d], "rand")
             /\ \A k \in 1..6 : six(d)[k].op # "count"
             /\ Len(Turn(d)) = len
             /\ "pub" = IF \E x \in First(5) : Matches(x, topiclist[d]) THEN "pub" ELSE "none"
             /\ topiclist[d] # "WILL"
  <2>1. len \in 5..6
    OBVIOUS
  <2>2. six(d) = SixSteps(IF same THEN SUB ELSE PUB, topiclist[d], "rand")
    BY DEF SixSteps
  <2>3. \A k \in 1..6 : six(d)[k].op # "count"
    OBVIOUS
  <2>4. \E x \in First(5) : Matches(x, topiclist[d])
    BY DEF First, Matches
  <2>5. topiclist[d] # "WILL"
    BY TopicsDiffer
  <2> HIDE DEF six, len
  <2>6. Turn(d) = [k \in 1..len |-> six(d)[k]]
    BY <2>1
  <2>7. Len(Turn(d)) = len /\ \A k \in 1..len : Turn(d)[k] = six(d)[k]
    BY <2>1, <2>6
  <2>8. QED
    BY <2>2, <2>3, <2>4, <2>5, <2>7
<1>5. ASSUME NEW d \in 1..5, same
      PROVE  /\ \A k \in 1..4 : Chain(tst, 1, six(d)[k], NTurn(d)[k], NTurn(d)[k + 1])
             /\ Chain(tst, 1, six(d)[5], NTurn(d)[5], All)
             /\ NTurn(d)[1] = All
  <2> DEFINE b == six(d)
             a == NTurn(d)
  <2>1. IsTurn(tst, First(5), 5, "off", SUB, topiclist[d], "pub", b, a)
    BY <1>5, <1>q, <1>t DEF IsTurn
  <2> HIDE DEF b, a, Chain, Turned
  <2>2. /\ \A k \in 1..4 : Chain(tst, 1, b[k], a[k], a[k + 1])
        /\ \A told \in {"none", "passed"} :
              Chain(tst, 1, b[5], a[5], Turned(First(5), 5, "off", "any", told, "none"))
        /\ a[1] = Turned(First(5), 5, "off", "any", "none", "none")
    BY <2>1, TurnSound
  <2>3. QED
    BY <1>5, <2>2 DEF a, b
<1>6. ASSUME NEW d \in 1..5, ~same
      PROVE  /\ \A k \in 1..5 : Chain(tst, 1, six(d)[k], NTurn(d)[k], NTurn(d)[k + 1])
             /\ Chain(tst, 1, six(d)[6], NTurn(d)[6], All)
             /\ NTurn(d)[1] = All
  <2> DEFINE b == six(d)
             a == NTurn(d)
  <2>1. IsSix(tst, First(5), 5, topiclist[d], "pub", b, a)
    BY <1>6, <1>q, <1>t DEF IsSix
  <2>2. Open(First(5), 5) = All
    BY <1>6
  <2> HIDE DEF b, a, Chain, Turned, Open
  <2>3. /\ \A k \in 1..5 : Chain(tst, 1, b[k], a[k], a[k + 1])
        /\ Chain(tst, 1, b[6], a[6], Open(First(5), 5))
        /\ a[1] = Open(First(5), 5)
    BY <2>1, SixSound
  <2>4. QED
    BY <1>6, <2>2, <2>3 DEF a, b
<1>n. ASSUME NEW d \in 1..5 PROVE Len(NTurn(d)) = len
  BY DEF Turn5, Turn6
<1>y. len \in {5, 6} /\ 5 \in Nat \ {0} /\ 1 \in 1..5 /\ 5 \in 1..5
  OBVIOUS
<1> HIDE DEF Turn, NTurn, F, G
<1>c. Chained(tst, 1, 5, len, F, G, Each(Turn, 5), Each(NTurn, 5))
  <2>1. /\ Each(Turn, 5) = [i \in 1..5 * len |-> F[((i - 1) \div len) + 1][((i - 1) % len) + 1]]
        /\ Each(NTurn, 5) = [i \in 1..5 * len |-> G[((i - 1) \div len) + 1][((i - 1) % len) + 1]]
    <3> HIDE DEF len
    <3>1. \A i \in 1..5 * len : ((i - 1) \div len) + 1 \in 1..5
      BY <1>y, PlaceInLoop
    <3>2. Len(Turn(1)) = len /\ Len(NTurn(1)) = len
      BY <1>t, <1>n, <1>y
    <3>3. QED
      BY <1>F, <3>1, <3>2 DEF Each
  <2>2. \A d \in 1..5, k \in 1..len - 1 : Chain(tst, 1, F[d][k], G[d][k], G[d][k + 1])
    <3> SUFFICES ASSUME NEW d \in 1..5, NEW k \in 1..len - 1
                 PROVE  Chain(tst, 1, F[d][k], G[d][k], G[d][k + 1])
      OBVIOUS
    <3>1. k \in 1..len /\ (same => k \in 1..4) /\ (~same => k \in 1..5)
      OBVIOUS
    <3> HIDE DEF Chain, six, len
    <3>2. F[d][k] = six(d)[k] /\ G[d] = NTurn(d)
      BY <1>F, <1>t, <3>1
    <3>3. QED
      BY <1>5, <1>6, <3>1, <3>2
  <2>3. \A d \in 1..5 - 1 : Chain(tst, 1, F[d][len], G[d][len], G[d + 1][1])
    <3> SUFFICES ASSUME NEW d \in 1..5 - 1
                 PROVE  Chain(tst, 1, F[d][len], G[d][len], G[d + 1][1])
      OBVIOUS
    <3>1. d \in 1..5 /\ d + 1 \in 1..5 /\ len \in 1..len /\ len = IF same THEN 5 ELSE 6
      OBVIOUS
    <3> HIDE DEF Chain, six, len, All
    <3>2. F[d][len] = six(d)[len] /\ G[d] = NTurn(d) /\ G[d + 1] = NTurn(d + 1)
      BY <1>F, <1>t, <3>1
    <3>3. QED
      BY <1>5, <1>6, <3>1, <3>2
  <2>4. \A d \in 1..5, k \in 1..len : F[d][k].op # "count"
    <3> SUFFICES ASSUME NEW d \in 1..5, NEW k \in 1..len PROVE F[d][k].op # "count"
      OBVIOUS
    <3>1. k \in 1..6
      OBVIOUS
    <3> HIDE DEF six, len
    <3>2. F[d] = Turn(d) /\ Turn(d)[k] = six(d)[k] /\ six(d)[k].op # "count"
      BY <1>F, <1>t, <3>1, Zenon
    <3>3. QED
      BY <3>2, Zenon
  <2>5. len \in {1, 2, 5, 6, 7, 12}
    OBVIOUS
  <2> HIDE DEF len
  <2>6. QED
    BY <1>y, <2>1, <2>2, <2>3, <2>4, <2>5, Zenon DEF Chained
<1>pt. SoundSec(tst, turns, nturns, F[1][1], G[1][1], F[5][len], G[5][len])
  <2> DEFINE e == Each(Turn, 5)
             g == Each(NTurn, 5)
  <2>1. Chained(tst, 1, 5, len, F, G, e, g)
    BY <1>c
  <2> HIDE DEF e, g, len
  <2>2. SoundSec(tst, Sec(e, 1, "next"), g, F[1][1], G[1][1], F[5][len], G[5][len])
    BY <2>1, EachSound
  <2>3. QED
    BY <2>2 DEF e, g
<1>ot. /\ G[1][1] = All /\ F[1][1].op # "count"
       /\ Chain(tst, 1, F[5][len], G[5][len], All)
  <2>1. 1 \in 1..len /\ len \in 1..len /\ 1 \in 1..6 /\ (same => len = 5) /\ (~same => len = 6)
    OBVIOUS
  <2> HIDE DEF Chain, All, six, len
  <2>2. F[5][len] = six(5)[len] /\ F[1][1] = six(1)[1] /\ G[1] = NTurn(1) /\ G[5] = NTurn(5)
    BY <1>F, <1>t, <1>y, <2>1
  <2>3. F[1][1].op # "count"
    BY <1>t, <1>y, <2>1, <2>2
  <2>4. QED
    BY <1>5, <1>6, <1>y, <2>1, <2>2, <2>3
<1>os. /\ GS[1] = Up({}, 0) /\ FS[1].op # "count"
       /\ Chain(tst, 1, FS[5], GS[5], Up(First(5), 5))
  <2>1. FS[5] = S(SUB, topiclist[5], 0) /\ GS[5] = Up(First(5 - 1), 5 - 1) /\ FS[1].op # "count"
    OBVIOUS
  <2>2. GS[1] = Up({}, 0)
    <3>1. GS[1] = Up(First(1 - 1), 1 - 1) /\ 1 - 1 = 0
      OBVIOUS
    <3> HIDE DEF GS, Up
    <3>2. QED
      BY <3>1, FirstTopics
  <2> HIDE DEF FS, GS, Chain, S, Up
  <2>3. QED
    BY <1>y, <2>1, <2>2, SubscribeAll
<1>oe. /\ GU[1] = Up(First(5), 5) /\ FU[1].op # "count"
       /\ Chain(tst, 2, FU[5], GU[5], Up({}, 0))
  <2>1. FU[5] = U(SUB, topiclist[5]) /\ GU[5] = Up(Rest(5), 6 - 5) /\ FU[1].op # "count"
    OBVIOUS
  <2>2. GU[1] = Up(First(5), 5)
    <3>1. GU[1] = Up(Rest(1), 6 - 1) /\ 6 - 1 = 5
      OBVIOUS
    <3> HIDE DEF GU, Up
    <3>2. QED
      BY <3>1, FirstTopics
  <2>3. 5 + 1 = 6 /\ 5 - 5 = 0
    OBVIOUS
  <2> HIDE DEF FU, GU, Chain, U, Up
  <2>4. Chain(tst, 2, U(SUB, topiclist[5]), Up(Rest(5), 6 - 5), Up(Rest(5 + 1), 5 - 5))
    BY <1>y, UnsubscribeAll
  <2>5. QED
    BY <2>1, <2>2, <2>3, <2>4, FirstTopics
<1> USE DEF Chain, Leads, Needs, NeedsConnect, Unconnected, NeedsSubscribe,
            NeedsUnsubscribe, NeedsPublish, NeedsYield, NeedsDisconnect, NeedsCompare
<1>j1. Chain(tst, 1, C(SUB), Blank, Up({}, 0))
  OBVIOUS
<1>j2. Chain(tst, 1, C(PUB), Up(First(5), 5), Open(First(5), 5))
  OBVIOUS
<1>j3. Chain(tst, 2, D(PUB), Open(First(5), 5), Up(First(5), 5))
  OBVIOUS
<1>e. Ends(tst, 2, D(SUB), Up({}, 0))
  BY <1>q DEF Ends
<1> HIDE DEF Chain, Leads, Needs, NeedsConnect, Unconnected, NeedsSubscribe,
            NeedsUnsubscribe, NeedsPublish, NeedsYield, NeedsDisconnect, NeedsCompare
<1>fl. \A var \in {1, 2}, fail \in {"end", "next"} :
         \A steps : \A a \in {Up({}, 0), Up(First(5), 5), Open(First(5), 5)} :
            FailNote(Sec(steps, var, fail), a)
  BY DEF FailNote, Sec
<1>v. /\ first.var = 1 /\ subscribed.var = 1 /\ turns.var = 1 /\ ended.var = 2
      /\ opened.var = 1 /\ closed.var = 2 /\ final.var = 2
  BY DEF Sec
<1>1. /\ SoundSec(tst, first, <<Blank>>, C(SUB), Blank, C(SUB), Blank)
      /\ SoundSec(tst, opened, <<Up(First(5), 5)>>, C(PUB), Up(First(5), 5),
                  C(PUB), Up(First(5), 5))
      /\ SoundSec(tst, closed, <<Open(First(5), 5)>>, D(PUB), Open(First(5), 5),
                  D(PUB), Open(First(5), 5))
      /\ SoundSec(tst, final, <<Up({}, 0)>>, D(SUB), Up({}, 0), D(SUB), Up({}, 0))
  <2>1. C(SUB).op # "count" /\ C(PUB).op # "count" /\ D(PUB).op # "count" /\ D(SUB).op # "count"
    OBVIOUS
  <2> HIDE DEF C, D, Up, Open, Blank
  <2>2. QED
    BY <2>1, OneStep
<1>o. C(SUB).op # "count" /\ C(PUB).op # "count" /\ D(PUB).op # "count" /\ D(SUB).op # "count"
  OBVIOUS
<1>st. Blank = Start(tst)
  BY <1>q DEF Start
<1>a. /\ same => All = Up(First(5), 5)
      /\ ~same => All = Open(First(5), 5)
  OBVIOUS
<1>f. /\ FailNote(first, Up({}, 0)) /\ FailNote(subscribed, Up(First(5), 5))
      /\ FailNote(turns, Up(First(5), 5)) /\ FailNote(turns, Open(First(5), 5))
      /\ FailNote(opened, Open(First(5), 5)) /\ FailNote(closed, Up(First(5), 5))
      /\ FailNote(ended, Up({}, 0))
  <2> HIDE DEF Up, Open
  <2> QED BY <1>fl
<1>m. mqtttest_multi(same) = IF same THEN <<first, subscribed, turns, ended, final>>
                             ELSE <<first, subscribed, opened, turns, closed, ended, final>>
  BY DEF mqtttest_multi, Turn
<1>w. OutlineMulti(same) =
        IF same THEN <<<<Blank>>, nsubscribed, nturns, nended, <<Up({}, 0)>>>>
        ELSE <<<<Blank>>, nsubscribed, <<Up(First(5), 5)>>, nturns, <<Open(First(5), 5)>>,
               nended, <<Up({}, 0)>>>>
  BY DEF OutlineMulti, NTurn
<1>d. Ends(tst, final.var, final.steps[Len(final.steps)], <<Up({}, 0)>>[Len(final.steps)])
  BY <1>1, <1>e, <1>v DEF SoundSec
<1>n1. \A x : <<x>>[1] = x
  OBVIOUS
<1> HIDE DEF first, subscribed, turns, ended, final, opened, closed, nsubscribed, nturns,
      nended,
             FS, GS, FU, GU, Up, Open, Blank, All, C, D, len
<1> DEFINE n0 == <<Blank>>
           nz == <<Up({}, 0)>>
           no == <<Up(First(5), 5)>>
           nc == <<Open(First(5), 5)>>
<1>g. n0[1] = Blank /\ nz[1] = Up({}, 0) /\ no[1] = Up(First(5), 5) /\ nc[1] = Open(First(5), 5)
  OBVIOUS
<1>h. /\ SoundSec(tst, first, n0, C(SUB), Blank, C(SUB), Blank)
      /\ SoundSec(tst, opened, no, C(PUB), Up(First(5), 5), C(PUB), Up(First(5), 5))
      /\ SoundSec(tst, closed, nc, D(PUB), Open(First(5), 5),
                  D(PUB), Open(First(5), 5))
      /\ SoundSec(tst, final, nz, D(SUB), Up({}, 0), D(SUB), Up({}, 0))
      /\ Ends(tst, final.var, final.steps[Len(final.steps)], nz[Len(final.steps)])
  BY <1>1, <1>d
<1> HIDE DEF n0, nz, no, nc
<1>k1. LinkSound(tst, first, n0, subscribed, nsubscribed[1])
  BY <1>h, <1>ps, <1>os, <1>j1, <1>v, <1>f, Joined
<1>k2. LinkSound(tst, ended, nended, final, nz[1])
  BY <1>h, <1>pe, <1>oe, <1>v, <1>f, <1>g, <1>o, Joined
<1>z0. n0[1] = Start(tst) /\ first.steps[1].op # "count"
  BY <1>g, <1>st, <1>h, <1>o DEF SoundSec
<1>7. CASE same
  <2>1. LinkSound(tst, subscribed, nsubscribed, turns, nturns[1])
    BY <1>7, <1>ps, <1>pt, <1>os, <1>ot, <1>a, <1>v, <1>f, Joined
  <2>2. LinkSound(tst, turns, nturns, ended, nended[1])
    BY <1>7, <1>pt, <1>pe, <1>ot, <1>oe, <1>a, <1>v, <1>f, Joined
  <2>3. SoundTest(tst, <<first, subscribed, turns, ended, final>>,
                  <<n0, nsubscribed, nturns, nended, nz>>)
    BY <1>h, <1>ps, <1>pt, <1>pe, <1>k1, <2>1, <2>2, <1>k2, <1>z0, Sections5 DEF SoundSec
  <2>4. QED
    BY <1>7, <1>m, <1>w, <2>3 DEF n0, nz
<1>8. CASE ~same
  <2>1. LinkSound(tst, subscribed, nsubscribed, opened, no[1])
    BY <1>ps, <1>h, <1>os, <1>g, <1>v, <1>f, <1>o, Joined
  <2>2. LinkSound(tst, opened, no, turns, nturns[1])
    BY <1>8, <1>h, <1>pt, <1>ot, <1>j2, <1>a, <1>v, <1>f, Joined
  <2>3. LinkSound(tst, turns, nturns, closed, nc[1])
    BY <1>8, <1>h, <1>pt, <1>ot, <1>a, <1>g, <1>v, <1>f, <1>o, Joined
  <2>4. LinkSound(tst, closed, nc, ended, nended[1])
    BY <1>h, <1>pe, <1>oe, <1>j3, <1>v, <1>f, Joined
  <2>5. SoundTest(tst, <<first, subscribed, opened, turns, closed, ended, final>>,
                  <<n0, nsubscribed, no, nturns, nc, nended, nz>>)
    BY <1>h, <1>ps, <1>pt, <1>pe, <1>k1, <2>1, <2>2, <2>3, <2>4, <1>k2, <1>z0,
          Sections7 DEF SoundSec
  <2>6. QED
    BY <1>8, <1>m, <1>w, <2>5 DEF n0, nz, no, nc
<1> QED
  BY <1>7, <1>8

(* The joint behind a step that has to fail. *)
LEMMA JoinedRefused ==
  ASSUME NEW tst, NEW sec, NEW notes, NEW first, NEW start, NEW final, NEW end,
         NEW next, NEW notes2, NEW first2, NEW start2, NEW final2, NEW end2,
         SoundSec(tst, sec, notes, first, start, final, end),
         SoundSec(tst, next, notes2, first2, start2, final2, end2),
         Refused(tst, sec.var, final, end, start2),
         sec.fail = "next", tst \in NeedToFail,
         first2.op = "count" => first2.n = Len(sec.steps) - 1, FailNote(sec, start2)
  PROVE  LinkSound(tst, sec, notes, next, notes2[1])
BY DEF LinkSound, SoundSec

(* ... and so is one that only counts. *)
LEMMA OneCount ==
  ASSUME NEW tst, NEW st, NEW var, NEW fail, NEW a
  PROVE  SoundSec(tst, Sec(<<st>>, var, fail), <<a>>, st, a, st, a)
BY DEF SoundSec, SectionSound, Sec

(* The topics that are still subscribed, one less. *)
LEMMA PartTopics ==
  ASSUME NEW top \in {1, 5}, NEW d \in 1..top
  PROVE  /\ {topiclist[i] : i \in d + 1..top} = {topiclist[i] : i \in d..top} \ {topiclist[d]}
         /\ topiclist[d] \in {topiclist[i] : i \in d..top}
<1>1. d..top = (d + 1..top) \cup {d} /\ d \in d..top
  OBVIOUS
<1>2. \A i \in d + 1..top : i # d /\ i \in 1..6 /\ d \in 1..6
  OBVIOUS
<1>3. \A i \in d + 1..top : topiclist[i] # topiclist[d]
  BY <1>2, TopicsDiffer
<1>4. QED
  BY <1>1, <1>3

(* The outlines of mqtttest_error_connect are sound, in each of its cases. *)
LEMMA ErrorConnectSound ==
  ASSUME NEW case \in 0..2, NEW tst,
         tst = IF case = 0 THEN "t40" ELSE IF case = 1 THEN "t41" ELSE "t42"
  PROVE  SoundTest(tst, mqtttest_error_connect(case), OutlineErrorConnect(case))
<1> DEFINE topic(d) == topiclist[IF case = 0 THEN d ELSE 1]
           Subscribe(d) == <<S(SUB, topiclist[IF case = 0 THEN d ELSE 1], 0)>>
           Unsubscribe(d) == <<U(SUB, topiclist[IF case = 0 THEN d ELSE 1])>>
           turns == IF case = 0 THEN 6 ELSE 2
           good == IF case = 0 THEN MQTT_TEST_LIST_MULTI ELSE 1
           Bad(ts, n) == Known(On(ts, n, "none"), "off", "off", "any", "none", FALSE, "bad")
           top == IF case = 0 THEN 5 ELSE 1
           NSubscribe(d) == << Up(First(d - 1), d - 1) >>
           NUnsubscribe(d) == << Bad({topiclist[i] : i \in d..top}, top - d + 1) >>
           first == Sec(<<C(SUB)>>, 0, "end")
           final == Sec(<<D(SUB)>>, 0, "end")
           none == Sec(<<U(SUB, topiclist[1])>>, 1, "next")
           count == [op |-> "count", n |-> good]
           counted == Sec(<<[op |-> "count", n |-> good]>>, 0, "end")
           Part(d) == {topiclist[i] : i \in d..top}
<1>q. tst # "t16" /\ tst \in NeedToFail
  BY DEF NeedToFail
<1>t. \A d \in 1..6 : topic(d) \notin {"WILL", "RETAIN", "none"}
  <2>1. \A d \in 1..6 : (IF case = 0 THEN d ELSE 1) \in 1..6
    OBVIOUS
  <2>2. QED
    BY <2>1, TopicsDiffer
<1>1. /\ SoundSec(tst, first, <<Blank>>, C(SUB), Blank, C(SUB), Blank)
      /\ SoundSec(tst, none, <<Up({}, 0)>>, U(SUB, topiclist[1]), Up({}, 0),
                  U(SUB, topiclist[1]), Up({}, 0))
      /\ SoundSec(tst, counted, <<Bad(First(top), top)>>, count, Bad(First(top), top),
                  count, Bad(First(top), top))
      /\ SoundSec(tst, final, <<Bad({}, 0)>>, D(SUB), Bad({}, 0), D(SUB), Bad({}, 0))
  <2> HIDE DEF C, D, U, Up, Blank, Bad, count
  <2>1. counted = Sec(<<count>>, 0, "end")
    BY DEF count
  <2> HIDE DEF counted
  <2>2. QED
    BY <2>1, OneCount
<1>v. /\ first.var = 0 /\ none.var = 1 /\ counted.var = 0 /\ final.var = 0
      /\ none.fail = "next" /\ Len(none.steps) = 1
  BY DEF Sec
<1> USE DEF Chain, Leads, Needs, NeedsConnect, Unconnected, NeedsSubscribe,
            NeedsUnsubscribe, NeedsPublish, NeedsYield, NeedsDisconnect, NeedsCompare
<1>j1. Chain(tst, 0, C(SUB), Blank, Up({}, 0))
  OBVIOUS
<1>j2. Refused(tst, 1, U(SUB, topiclist[1]), Up({}, 0), Bad({}, 0))
  BY DEF Refused
<1>j3. Chain(tst, 0, count, Bad(First(top), top), Bad(First(top), top))
  OBVIOUS
<1>e. Ends(tst, 0, D(SUB), Bad({}, 0))
  BY <1>q DEF Ends
<1>u. ASSUME NEW t, NEW x, NEW n, t \in x
      PROVE  Chain(tst, 0, U(SUB, t), Bad(x, n), Bad(x \ {t}, n - 1))
  BY <1>u
<1>x. ASSUME NEW t, NEW x, NEW n, t \notin x
      PROVE  Refused(tst, 0, U(SUB, t), Bad(x, n), Bad(x, n))
  BY <1>x DEF Refused
<1>r. ASSUME NEW t, t \notin {"WILL", "RETAIN", "none"}, NEW x, NEW n, t \in x \/ n = 5
      PROVE  Refused(tst, 1, S(SUB, t, 0), Up(x, n), Bad(x, n))
  BY <1>r DEF Refused
<1> HIDE DEF Chain, Leads, Needs, NeedsConnect, Unconnected, NeedsSubscribe,
            NeedsUnsubscribe, NeedsPublish, NeedsYield, NeedsDisconnect, NeedsCompare
<1>f. ASSUME NEW fail, NEW steps, NEW ts, NEW n, NEW var
      PROVE  /\ FailNote(Sec(steps, var, fail), Up(ts, n))
             /\ FailNote(Sec(steps, var, fail), Bad(ts, n))
  BY DEF FailNote, Sec
<1>b. Blank = Start(tst)
  BY <1>q DEF Start
<1>o. C(SUB).op # "count" /\ U(SUB, topiclist[1]).op # "count" /\ D(SUB).op # "count" /\ count.n = top
  OBVIOUS
<1> DEFINE n0 == <<Blank>>
           nz == <<Bad({}, 0)>>
           nc == <<Bad(First(top), top)>>
           nn == <<Up({}, 0)>>
<1>g. n0[1] = Blank /\ nz[1] = Bad({}, 0) /\ nc[1] = Bad(First(top), top) /\ nn[1] = Up({}, 0)
  OBVIOUS
<1>h. /\ SoundSec(tst, first, n0, C(SUB), Blank, C(SUB), Blank)
      /\ SoundSec(tst, none, nn, U(SUB, topiclist[1]), Up({}, 0), U(SUB, topiclist[1]), Up({}, 0))
      /\ SoundSec(tst, counted, nc, count, Bad(First(top), top), count, Bad(First(top), top))
      /\ SoundSec(tst, final, nz, D(SUB), Bad({}, 0), D(SUB), Bad({}, 0))
  BY <1>1
<1>d. Ends(tst, final.var, final.steps[Len(final.steps)], nz[Len(final.steps)])
  <2> HIDE DEF final, Bad, nz, D
  <2> QED BY <1>h, <1>e, <1>v DEF SoundSec
<1>ff. /\ FailNote(first, Up({}, 0)) /\ FailNote(none, Bad({}, 0))
       /\ FailNote(counted, Bad(First(top), top))
  <2> HIDE DEF Up, Bad
  <2> QED BY <1>f
<1>z. n0[1] = Start(tst) /\ first.steps[1].op # "count"
  <2> HIDE DEF n0, first, Blank, C
  <2> QED BY <1>g, <1>b, <1>h, <1>o DEF SoundSec
<1>2. CASE case = 1
  <2>1. mqtttest_error_connect(case) = <<first, none, final>>
    BY <1>2 DEF mqtttest_error_connect
  <2>2. OutlineErrorConnect(case) = <<n0, nn, nz>>
    BY <1>2 DEF OutlineErrorConnect
  <2> HIDE DEF first, none, final, n0, nn, nz, Bad, Up, Blank, C, D, U
  <2>3. LinkSound(tst, first, n0, none, nn[1])
    BY <1>h, <1>j1, <1>v, <1>ff, <1>o, Joined
  <2>4. LinkSound(tst, none, nn, final, nz[1])
    BY <1>h, <1>j2, <1>v, <1>ff, <1>o, <1>q, JoinedRefused
  <2>5. SoundTest(tst, <<first, none, final>>, <<n0, nn, nz>>)
    BY <1>h, <2>3, <2>4, <1>d, <1>z, Sections3 DEF SoundSec
  <2>6. QED
    BY <2>1, <2>2, <2>5
<1>3. CASE case # 1
  <2> DEFINE e == Each(Subscribe, turns)
             ne == Each(NSubscribe, turns)
             u == Each(Unsubscribe, turns)
             nu == Each(NUnsubscribe, turns)
             subscribed == Sec(Each(Subscribe, turns), 1, "next")
             ended == Sec(Each(Unsubscribe, turns), 0, "next")
             FS == [d \in 1..turns |-> Subscribe(d)[1]]
             GS == [d \in 1..turns |-> NSubscribe(d)[1]]
             FU == [d \in 1..turns |-> Unsubscribe(d)[1]]
             GU == [d \in 1..turns |-> NUnsubscribe(d)[1]]
  <2>1. mqtttest_error_connect(case) = <<first, subscribed, counted, ended, final>>
    BY <1>3 DEF mqtttest_error_connect
  <2>2. OutlineErrorConnect(case) = <<n0, ne, nc, nu, nz>>
    <3>1. top + 1 = turns
      OBVIOUS
    <3>2. QED
      BY <1>3, <3>1 DEF OutlineErrorConnect
  <2>s. /\ e = [i \in 1..turns |-> FS[i]]
        /\ ne = [i \in 1..turns |-> GS[i]]
        /\ u = [i \in 1..turns |-> FU[i]]
        /\ nu = [i \in 1..turns |-> GU[i]]
    <3>0. turns \in {2, 6}
      OBVIOUS
    <3> HIDE DEF S, U, Up, Bad, turns
    <3>1. /\ Len(Subscribe(1)) = 1 /\ Len(NSubscribe(1)) = 1
          /\ Len(Unsubscribe(1)) = 1 /\ Len(NUnsubscribe(1)) = 1
      OBVIOUS
    <3>2. \A i \in 1..turns * 1 : ((i - 1) \div 1) + 1 = i /\ ((i - 1) % 1) + 1 = 1
      BY <3>0
    <3>3. turns * 1 = turns
      BY <3>0
    <3> HIDE DEF Subscribe, NSubscribe, Unsubscribe, NUnsubscribe
    <3>4. QED
      BY <3>1, <3>2, <3>3 DEF Each
  <2>F. \A d \in 1..turns : /\ FS[d] = S(SUB, topic(d), 0) /\ GS[d] = Up(First(d - 1), d - 1)
                           /\ FU[d] = U(SUB, topic(d)) /\ GU[d] = Bad(Part(d), top - d + 1)
    <3> HIDE DEF S, U, Up, Bad
    <3> QED OBVIOUS
  <2>c. /\ \A d \in 1..turns : FS[d].op # "count" /\ FU[d].op # "count"
    BY <2>F
  <2>n. /\ turns \in Nat \ {0} /\ turns = top + 1 /\ 1 \in 1..turns /\ turns \in 1..turns
        /\ top \in {1, 5} /\ turns - 1 = top /\ turns \in 1..6
        /\ \A d \in 1..top : /\ d \in 1..5 /\ d \in 1..turns /\ d + 1 \in 1..turns
                            /\ (d + 1) - 1 = d
                            /\ (top - d + 1) - 1 = top - (d + 1) + 1
    OBVIOUS
  <2>t. \A d \in 1..top : topic(d) = topiclist[d]
    BY <1>3
  <2>3. IsRow(tst, 1, e, ne, FS, GS, turns)
    <3> HIDE DEF FS, GS, topic, turns, top, e, ne, Up, S
    <3>1. ASSUME NEW d \in 1..turns - 1 PROVE Chain(tst, 1, FS[d], GS[d], GS[d + 1])
      <4>1. d \in 1..top /\ d \in 1..turns /\ d + 1 \in 1..turns /\ d \in 1..5 /\ (d + 1) - 1 = d
        BY <2>n
      <4>2. topic(d) = topiclist[d]
        BY <4>1, <2>t
      <4>3. Chain(tst, 1, S(SUB, topiclist[d], 0), Up(First(d - 1), d - 1), Up(First(d), d))
        BY <4>1, SubscribeAll
      <4>4. /\ FS[d] = S(SUB, topiclist[d], 0) /\ GS[d] = Up(First(d - 1), d - 1)
            /\ GS[d + 1] = Up(First((d + 1) - 1), (d + 1) - 1)
        BY <2>F, <4>1, <4>2
      <4>5. QED
        BY <4>1, <4>3, <4>4
    <3>2. QED
      BY <2>s, <2>c, <2>n, <3>1, Zenon DEF IsRow
  <2>4. IsRow(tst, 0, u, nu, FU, GU, turns)
    <3> HIDE DEF FU, GU, topic, turns, top, u, nu, Bad, U
    <3>1. ASSUME NEW d \in 1..turns - 1 PROVE Chain(tst, 0, FU[d], GU[d], GU[d + 1])
      <4>1. d \in 1..top /\ d \in 1..turns /\ d + 1 \in 1..turns
        BY <2>n
      <4>2. topic(d) = topiclist[d]
        BY <4>1, <2>t
      <4>3. Part(d + 1) = Part(d) \ {topiclist[d]} /\ topiclist[d] \in Part(d)
        BY <4>1, <2>n, PartTopics
      <4>4. Chain(tst, 0, U(SUB, topiclist[d]), Bad(Part(d), top - d + 1),
                  Bad(Part(d) \ {topiclist[d]}, (top - d + 1) - 1))
        BY <4>3, <1>u
      <4>5. FU[d] = U(SUB, topiclist[d]) /\ GU[d] = Bad(Part(d), top - d + 1)
            /\ GU[d + 1] = Bad(Part(d + 1), top - (d + 1) + 1)
        BY <2>F, <4>1, <4>2
      <4>6. QED
        BY <4>1, <4>3, <4>4, <4>5, <2>n
    <3>2. QED
      BY <2>s, <2>c, <2>n, <3>1, Zenon DEF IsRow
  <2>5. /\ SoundSec(tst, subscribed, ne, FS[1], GS[1], FS[turns], GS[turns])
        /\ SoundSec(tst, ended, nu, FU[1], GU[1], FU[turns], GU[turns])
    <3> HIDE DEF e, ne, u, nu, FS, GS, FU, GU, turns
    <3>1. /\ SoundSec(tst, Sec(e, 1, "next"), ne, FS[1], GS[1], FS[turns], GS[turns])
          /\ SoundSec(tst, Sec(u, 0, "next"), nu, FU[1], GU[1], FU[turns], GU[turns])
      BY <2>3, <2>4, RowSound
    <3>2. QED
      BY <3>1 DEF e, u
  <2>6. /\ GS[1] = Up({}, 0) /\ FS[1].op # "count"
        /\ Refused(tst, 1, FS[turns], GS[turns], Bad(First(top), top))
    <3>1. FS[1].op # "count"
      BY <2>c, <2>n
    <3>2. 1 - 1 = 0
      OBVIOUS
    <3>a. topic(turns) \in First(top) \/ top = 5
      BY <1>3 DEF First
    <3> HIDE DEF FS, GS, topic, turns, top, Up, S, Bad
    <3>3. GS[1] = Up({}, 0)
      <4>1. GS[1] = Up(First(1 - 1), 1 - 1)
        BY <2>F, <2>n
      <4>2. QED
        BY <3>2, <4>1, FirstTopics
    <3>4. FS[turns] = S(SUB, topic(turns), 0) /\ GS[turns] = Up(First(top), top)
      BY <2>F, <2>n
    <3>5. topic(turns) \notin {"WILL", "RETAIN", "none"}
      BY <1>t, <2>n
    <3>6. QED
      BY <1>r, <3>a, <3>1, <3>3, <3>4, <3>5
  <2>7. /\ GU[1] = Bad(First(top), top) /\ FU[1].op # "count"
        /\ Refused(tst, 0, FU[turns], GU[turns], Bad({}, 0))
    <3>1. FU[1].op # "count"
      BY <2>c, <2>n
    <3>2. top - 1 + 1 = top /\ top - turns + 1 = 0 /\ turns..top = {}
      OBVIOUS
    <3>3. Part(1) = First(top)
      BY DEF First
    <3> HIDE DEF FU, GU, topic, turns, top, Bad, U
    <3>4. GU[1] = Bad(First(top), top)
      BY <2>F, <2>n, <3>2, <3>3
    <3>5. FU[turns] = U(SUB, topic(turns)) /\ GU[turns] = Bad({}, 0)
      <4>1. Part(turns) = {}
        BY <3>2
      <4>2. FU[turns] = U(SUB, topic(turns)) /\ GU[turns] = Bad(Part(turns), top - turns + 1)
        BY <2>F, <2>n
      <4>3. QED
        BY <3>2, <4>1, <4>2
    <3>6. topic(turns) \notin {}
      OBVIOUS
    <3>7. Refused(tst, 0, U(SUB, topic(turns)), Bad({}, 0), Bad({}, 0))
      BY <1>x, <3>6
    <3>8. QED
      BY <3>1, <3>4, <3>5, <3>7
  <2>f. FailNote(subscribed, Bad(First(top), top)) /\ FailNote(ended, Bad({}, 0))
    <3> HIDE DEF Bad
    <3> QED BY <1>f
  <2>v. /\ subscribed.var = 1 /\ subscribed.fail = "next" /\ ended.var = 0 /\ ended.fail = "next"
        /\ Len(subscribed.steps) = turns
    <3>1. /\ subscribed.var = 1 /\ subscribed.fail = "next" /\ ended.var = 0
          /\ ended.fail = "next" /\ subscribed.steps = e
      BY DEF Sec
    <3> HIDE DEF FS, turns, subscribed, e, ended
    <3>2. Len(e) = turns
      <4>1. e = [i \in 1..turns |-> FS[i]] /\ turns \in Nat
        BY <2>s, <2>n
      <4> HIDE DEF Subscribe
      <4>2. QED
        BY <4>1
    <3>3. QED
      BY <3>1, <3>2
  <2>x. count.n = Len(subscribed.steps) - 1
    <3> HIDE DEF count, subscribed, turns, top
    <3> QED BY <1>o, <2>v, <2>n
  <2> HIDE DEF first, subscribed, counted, ended, final, n0, ne, nc, nu, nz, Bad, Up, Blank,
               C, D, U, S, FS, GS, FU, GU, turns, top, e, u, count
  <2>8. LinkSound(tst, first, n0, subscribed, ne[1])
    BY <1>h, <2>5, <2>6, <1>j1, <1>v, <1>ff, Joined
  <2>9. LinkSound(tst, subscribed, ne, counted, nc[1])
    BY <1>h, <2>5, <2>6, <2>v, <2>x, <2>f, <1>q, <1>g, JoinedRefused
  <2>10. LinkSound(tst, counted, nc, ended, nu[1])
    BY <1>h, <2>5, <2>7, <1>j3, <1>v, <1>ff, Joined
  <2>11. LinkSound(tst, ended, nu, final, nz[1])
    BY <1>h, <2>5, <2>7, <2>v, <2>f, <1>q, <1>o, JoinedRefused
  <2>12. SoundTest(tst, <<first, subscribed, counted, ended, final>>, <<n0, ne, nc, nu, nz>>)
    BY <1>h, <2>5, <2>8, <2>9, <2>10, <2>11, <1>d, <1>z, Sections5 DEF SoundSec
  <2>13. QED
    BY <2>1, <2>2, <2>12
<1> QED
  BY <1>2, <1>3

HIDE DEF SUB, PUB, WILL, C, CW, S, U, P, Y, D, Cmp, Do, Sockets, MQTT_TEST_LIST_MULTI
HIDE DEF Succeeds, ThenSub, ThenTopics, ThenN, ThenDue, ThenPub, ThenWil, ThenLast,
      ThenTold, ThenKept, ThenRes, Stores, ToldMore, Known, On, Off, Plain, Up, Open,
      Blank, Turned

(* Every test of mqtttest_site has a sound outline, for any number of       *)
(* turns.                                                                   *)
LEMMA EverySound ==
  ASSUME NEW t \in DOMAIN mqtttest_site
  PROVE  SoundTest(t, mqtttest_site[t], Outline[t])
<1>d. t \in {"t03", "t10", "t12", "t14", "t16", "t18", "t20", "t22", "t30",
             "t32", "t34", "t40", "t41", "t42", "t43", "t44", "t45"}
  BY DEF mqtttest_site
<1>q. SoundTest("t10", mqtttest_qos(0), OutlineQos) /\ SoundTest("t12", mqtttest_qos(1), OutlineQos)
      /\ SoundTest("t14", mqtttest_qos(2), OutlineQos)
  <2>1. QoS("t10") = 0 /\ QoS("t12") = 1 /\ QoS("t14") = 2
    BY DEF QoS
  <2>2. QED
    BY <2>1, QosSound
<1>m. SoundTest("t20", mqtttest_multi(FALSE), OutlineMulti(FALSE))
      /\ SoundTest("t22", mqtttest_multi(TRUE), OutlineMulti(TRUE))
  BY MultiSound
<1>w. /\ SoundTest("t30", mqtttest_wildcard("w0"), OutlineWildcard("w0"))
      /\ SoundTest("t32", mqtttest_wildcard("w1"), OutlineWildcard("w1"))
      /\ SoundTest("t34", mqtttest_wildcard("w2"), OutlineWildcard("w2"))
  BY WildSound
<1>c. /\ SoundTest("t40", mqtttest_error_connect(0), OutlineErrorConnect(0))
      /\ SoundTest("t41", mqtttest_error_connect(1), OutlineErrorConnect(1))
      /\ SoundTest("t42", mqtttest_error_connect(2), OutlineErrorConnect(2))
  <2>1. 0 \in 0..2 /\ 1 \in 0..2 /\ 2 \in 0..2 /\ 1 # 0 /\ 2 # 0 /\ 2 # 1
    OBVIOUS
  <2>2. QED
    BY <2>1, ErrorConnectSound
<1>e. /\ SoundTest("t43", mqtttest_error_disconnect(0), OutlineErrorDisconnect)
      /\ SoundTest("t44", mqtttest_error_disconnect(1), OutlineErrorDisconnect)
      /\ SoundTest("t45", mqtttest_error_disconnect(2), OutlineErrorDisconnect)
  <2>1. 0 \in 0..2 /\ 1 \in 0..2 /\ 2 \in 0..2 /\ 1 # 0 /\ 2 # 0 /\ 2 # 1
    OBVIOUS
  <2>2. QED
    BY <2>1, ErrorDisconnectSound
<1>1. CASE t = "t03"
  <2>1. mqtttest_site[t] = mqtttest_connect
    BY <1>1 DEF mqtttest_site
  <2>2. Outline[t] = OutlineConnect
    BY <1>1 DEF Outline
  <2>3. QED
    BY <1>1, <2>1, <2>2, ConnectSound
<1>2. CASE t = "t10"
  <2>1. mqtttest_site[t] = mqtttest_qos(0)
    BY <1>2 DEF mqtttest_site
  <2>2. Outline[t] = OutlineQos
    BY <1>2 DEF Outline
  <2>3. QED
    BY <1>2, <2>1, <2>2, <1>q
<1>3. CASE t = "t12"
  <2>1. mqtttest_site[t] = mqtttest_qos(1)
    BY <1>3 DEF mqtttest_site
  <2>2. Outline[t] = OutlineQos
    BY <1>3 DEF Outline
  <2>3. QED
    BY <1>3, <2>1, <2>2, <1>q
<1>4. CASE t = "t14"
  <2>1. mqtttest_site[t] = mqtttest_qos(2)
    BY <1>4 DEF mqtttest_site
  <2>2. Outline[t] = OutlineQos
    BY <1>4 DEF Outline
  <2>3. QED
    BY <1>4, <2>1, <2>2, <1>q
<1>5. CASE t = "t16"
  <2>1. mqtttest_site[t] = mqtttest_retain
    BY <1>5 DEF mqtttest_site
  <2>2. Outline[t] = OutlineRetain
    BY <1>5 DEF Outline
  <2>3. QED
    BY <1>5, <2>1, <2>2, RetainSound
<1>6. CASE t = "t18"
  <2>1. mqtttest_site[t] = mqtttest_will
    BY <1>6 DEF mqtttest_site
  <2>2. Outline[t] = OutlineWill
    BY <1>6 DEF Outline
  <2>3. QED
    BY <1>6, <2>1, <2>2, WillSound
<1>7. CASE t = "t20"
  <2>1. mqtttest_site[t] = mqtttest_multi(FALSE)
    BY <1>7 DEF mqtttest_site
  <2>2. Outline[t] = OutlineMulti(FALSE)
    BY <1>7 DEF Outline
  <2>3. QED
    BY <1>7, <2>1, <2>2, <1>m
<1>8. CASE t = "t22"
  <2>1. mqtttest_site[t] = mqtttest_multi(TRUE)
    BY <1>8 DEF mqtttest_site
  <2>2. Outline[t] = OutlineMulti(TRUE)
    BY <1>8 DEF Outline
  <2>3. QED
    BY <1>8, <2>1, <2>2, <1>m
<1>9. CASE t = "t30"
  <2>1. mqtttest_site[t] = mqtttest_wildcard("w0")
    BY <1>9 DEF mqtttest_site
  <2>2. Outline[t] = OutlineWildcard("w0")
    BY <1>9 DEF Outline
  <2>3. QED
    BY <1>9, <2>1, <2>2, <1>w
<1>10. CASE t = "t32"
  <2>1. mqtttest_site[t] = mqtttest_wildcard("w1")
    BY <1>10 DEF mqtttest_site
  <2>2. Outline[t] = OutlineWildcard("w1")
    BY <1>10 DEF Outline
  <2>3. QED
    BY <1>10, <2>1, <2>2, <1>w
<1>11. CASE t = "t34"
  <2>1. mqtttest_site[t] = mqtttest_wildcard("w2")
    BY <1>11 DEF mqtttest_site
  <2>2. Outline[t] = OutlineWildcard("w2")
    BY <1>11 DEF Outline
  <2>3. QED
    BY <1>11, <2>1, <2>2, <1>w
<1>12. CASE t = "t40"
  <2>1. mqtttest_site[t] = mqtttest_error_connect(0)
    BY <1>12 DEF mqtttest_site
  <2>2. Outline[t] = OutlineErrorConnect(0)
    BY <1>12 DEF Outline
  <2>3. QED
    BY <1>12, <2>1, <2>2, <1>c
<1>13. CASE t = "t41"
  <2>1. mqtttest_site[t] = mqtttest_error_connect(1)
    BY <1>13 DEF mqtttest_site
  <2>2. Outline[t] = OutlineErrorConnect(1)
    BY <1>13 DEF Outline
  <2>3. QED
    BY <1>13, <2>1, <2>2, <1>c
<1>14. CASE t = "t42"
  <2>1. mqtttest_site[t] = mqtttest_error_connect(2)
    BY <1>14 DEF mqtttest_site
  <2>2. Outline[t] = OutlineErrorConnect(2)
    BY <1>14 DEF Outline
  <2>3. QED
    BY <1>14, <2>1, <2>2, <1>c
<1>15. CASE t = "t43"
  <2>1. mqtttest_site[t] = mqtttest_error_disconnect(0)
    BY <1>15 DEF mqtttest_site
  <2>2. Outline[t] = OutlineErrorDisconnect
    BY <1>15 DEF Outline
  <2>3. QED
    BY <1>15, <2>1, <2>2, <1>e
<1>16. CASE t = "t44"
  <2>1. mqtttest_site[t] = mqtttest_error_disconnect(1)
    BY <1>16 DEF mqtttest_site
  <2>2. Outline[t] = OutlineErrorDisconnect
    BY <1>16 DEF Outline
  <2>3. QED
    BY <1>16, <2>1, <2>2, <1>e
<1>17. CASE t = "t45"
  <2>1. mqtttest_site[t] = mqtttest_error_disconnect(2)
    BY <1>17 DEF mqtttest_site
  <2>2. Outline[t] = OutlineErrorDisconnect
    BY <1>17 DEF Outline
  <2>3. QED
    BY <1>17, <2>1, <2>2, <1>e
<1>18. QED
  BY <1>d, <1>1, <1>2, <1>3, <1>4, <1>5, <1>6, <1>7, <1>8, <1>9, <1>10, <1>11, <1>12,
        <1>13, <1>14, <1>15, <1>16, <1>17

-----------------------------------------------------------------------------
(* Where a step of a test leads to. *)

(* Where the test goes on after a step: the next step of the section, ...   *)
Onwards(tst, secs, notes, i, j, ok, p, n) ==
    LET sec == secs[i]
        st == sec.steps[j]
        a == notes[i][j]
        st2 == secs[p[1]].steps[p[2]]
        c == notes[p[1]][p[2]]
    IN IF p = Done
       THEN \/ Ends(tst, sec.var, st, a)
            \/ ~ok /\ Succeeds(st, a)
       ELSE IF ok
       THEN \/ Chain(tst, sec.var, st, a, c) /\ st2.op # "count"
            \/ Refused(tst, sec.var, st, a, c)
       ELSE /\ sec.fail = "next" /\ FailNote(sec, c)
            /\ \/ Succeeds(st, a)
               \/ /\ Refused(tst, sec.var, st, a, c)
                  /\ st2.op = "count" => n = st2.n

(* Sections have steps. *)
Shape(secs) == /\ Len(secs) \in Nat
               /\ \A k \in 1..Len(secs) : Len(secs[k].steps) \in Nat \ {0}

(* What is known before a step of a sound test is what the step needs. *)
LEMMA PlaceSound ==
  ASSUME NEW tst, NEW secs, NEW notes, SoundTest(tst, secs, notes), Shape(secs),
         NEW i \in 1..Len(secs), NEW j \in 1..Len(secs[i].steps)
  PROVE  /\ Needs(tst, secs[i].steps[j], notes[i][j])
         /\ tst \notin NeedToFail => Succeeds(secs[i].steps[j], notes[i][j])
<1> DEFINE k == Len(secs[i].steps)
<1>0. Len(secs) \in Nat /\ k \in Nat \ {0} /\ j \in 1..k
  BY DEF Shape
<1>1. CASE j < k
  <2>1. Chain(tst, secs[i].var, secs[i].steps[j], notes[i][j], notes[i][j + 1])
    BY <1>0, <1>1 DEF SoundTest, SectionSound
  <2>2. QED
    BY <2>1 DEF Chain
<1>2. CASE j = k /\ i < Len(secs)
  <2>1. LinkSound(tst, secs[i], notes[i], secs[i + 1], notes[i + 1][1])
    BY <1>0, <1>2 DEF SoundTest
  <2>2. QED
    BY <1>2, <2>1 DEF LinkSound, Chain, Refused
<1>3. CASE j = k /\ i = Len(secs)
  <2>1. Ends(tst, secs[i].var, secs[i].steps[j], notes[i][j])
    BY <1>0, <1>3 DEF SoundTest
  <2>2. QED
    BY <2>1 DEF Ends
<1>4. QED
  BY <1>0, <1>1, <1>2, <1>3

(* What is known at the place where a sound test goes on. *)
LEMMA OnwardsSound ==
  ASSUME NEW tst, NEW secs, NEW notes, SoundTest(tst, secs, notes), Shape(secs),
         NEW i \in 1..Len(secs), NEW j \in 1..Len(secs[i].steps),
         NEW ok \in BOOLEAN, NEW p, NEW n,
         p = IF ok /\ j # Len(secs[i].steps) THEN <<i, j + 1>>
             ELSE IF (ok \/ secs[i].fail = "next") /\ i < Len(secs) THEN <<i + 1, 1>>
             ELSE Done,
         ~ok => n = j - 1
  PROVE  Onwards(tst, secs, notes, i, j, ok, p, n)
<1> DEFINE k == Len(secs[i].steps)
<1>0. Len(secs) \in Nat /\ k \in Nat \ {0} /\ j \in 1..k /\ i \in 1..Len(secs)
  BY DEF Shape
<1>a. SectionSound(tst, secs[i], notes[i])
  BY <1>0 DEF SoundTest
<1>c. ASSUME j < k
      PROVE  Chain(tst, secs[i].var, secs[i].steps[j], notes[i][j], notes[i][j + 1])
  <2>1. j \in 1..k - 1
    BY <1>0, <1>c
  <2>2. QED
    BY <1>a, <2>1 DEF SectionSound
<1>d. <<i, j + 1>> # Done /\ <<i + 1, 1>> # Done
  BY <1>0 DEF Done
<1>s. ASSUME j < k PROVE Succeeds(secs[i].steps[j], notes[i][j])
  BY <1>s, <1>c DEF Chain
<1>l. ASSUME i < Len(secs)
      PROVE  LinkSound(tst, secs[i], notes[i], secs[i + 1], notes[i + 1][1])
  BY <1>0, <1>l DEF SoundTest
<1>e. ASSUME i = Len(secs), j = k PROVE Ends(tst, secs[i].var, secs[i].steps[j], notes[i][j])
  BY <1>0, <1>e DEF SoundTest
<1>1. CASE ok /\ j < k
  <2>1. p = <<i, j + 1>> /\ p # Done
    BY <1>0, <1>1, <1>d
  <2>2. Chain(tst, secs[i].var, secs[i].steps[j], notes[i][j], notes[i][j + 1])
    BY <1>1, <1>c
  <2>3. secs[i].steps[j + 1].op # "count"
    <3>1. j + 1 \in 1..k /\ j + 1 # 1
      BY <1>0, <1>1
    <3>2. \A x \in 1..k : secs[i].steps[x].op = "count" => x = 1
      BY <1>a DEF SectionSound
    <3>3. QED
      BY <3>1, <3>2
  <2>4. p[1] = i /\ p[2] = j + 1
    BY <2>1
  <2>5. QED
    BY <1>1, <2>1, <2>2, <2>3, <2>4 DEF Onwards
<1>2. CASE ok /\ j = k /\ i < Len(secs)
  <2>1. p = <<i + 1, 1>> /\ p # Done
    BY <1>0, <1>2, <1>d
  <2>2. LinkSound(tst, secs[i], notes[i], secs[i + 1], notes[i + 1][1])
    BY <1>2, <1>l
  <2>4. p[1] = i + 1 /\ p[2] = 1
    BY <2>1
  <2>5. \/ /\ Chain(tst, secs[i].var, secs[i].steps[j], notes[i][j], notes[i + 1][1])
           /\ secs[i + 1].steps[1].op # "count"
        \/ Refused(tst, secs[i].var, secs[i].steps[j], notes[i][j], notes[i + 1][1])
    BY <1>2, <2>2 DEF LinkSound
  <2>6. QED
    BY <1>2, <2>1, <2>4, <2>5 DEF Onwards
<1>3. CASE ok /\ j = k /\ i = Len(secs)
  <2>1. p = Done
    BY <1>0, <1>3
  <2>2. QED
    BY <1>3, <1>e, <2>1 DEF Onwards
<1>4. CASE ~ok /\ secs[i].fail = "next" /\ i < Len(secs)
  <2>1. p = <<i + 1, 1>> /\ p # Done /\ n = j - 1
    BY <1>0, <1>4, <1>d
  <2>2. LinkSound(tst, secs[i], notes[i], secs[i + 1], notes[i + 1][1])
    BY <1>4, <1>l
  <2>3. FailNote(secs[i], notes[i + 1][1])
    BY <2>2 DEF LinkSound
  <2>4. p[1] = i + 1 /\ p[2] = 1
    BY <2>1
  <2>5. \/ Succeeds(secs[i].steps[j], notes[i][j])
        \/ /\ Refused(tst, secs[i].var, secs[i].steps[j], notes[i][j], notes[i + 1][1])
           /\ secs[i + 1].steps[1].op = "count" => n = secs[i + 1].steps[1].n
    <3>1. CASE j < k
      BY <1>s, <3>1
    <3>2. CASE j = k
      BY <2>1, <2>2, <3>2 DEF LinkSound, Chain
    <3>3. QED
      BY <1>0, <3>1, <3>2
  <2>6. QED
    BY <1>4, <2>1, <2>3, <2>4, <2>5 DEF Onwards
<1>5. CASE ~ok /\ ~(secs[i].fail = "next" /\ i < Len(secs))
  <2>1. p = Done
    BY <1>5
  <2>2. CASE j < k
    BY <1>5, <1>s, <2>1, <2>2 DEF Onwards
  <2>3. CASE j = k /\ i = Len(secs)
    BY <1>e, <2>1, <2>3 DEF Onwards
  <2>4. CASE j = k /\ i < Len(secs)
    <3>1. LinkSound(tst, secs[i], notes[i], secs[i + 1], notes[i + 1][1])
      BY <2>4, <1>l
    <3>2. Succeeds(secs[i].steps[j], notes[i][j])
      BY <1>5, <2>4, <3>1 DEF LinkSound, Chain
    <3>3. QED
      BY <1>5, <2>1, <3>2 DEF Onwards
  <2>5. QED
    BY <1>0, <2>2, <2>3, <2>4
<1>6. QED
  BY <1>0, <1>1, <1>2, <1>3, <1>4, <1>5

(* The same of the test that runs. *)
Knows == /\ Needs(test, Step, Note)
         /\ test \notin NeedToFail => Succeeds(Step, Note)

(* Where a step that succeeds (ok) or fails leads to. *)
Onward(ok) ==
    IF at' = Done
    THEN \/ Ends(test, Section.var, Step, Note)
         \/ ~ok /\ Succeeds(Step, Note)
    ELSE IF ok
    THEN \/ Chain(test, Section.var, Step, Note, Note') /\ Step'.op # "count"
         \/ Refused(test, Section.var, Step, Note, Note')
    ELSE /\ Section.fail = "next" /\ FailNote(Section, Note')
         /\ \/ Succeeds(Step, Note)
            \/ /\ Refused(test, Section.var, Step, Note, Note')
               /\ Step'.op = "count" => cntc' = Step'.n

(* The test that runs is one of mqtttest_site, and its outline is sound. *)
LEMMA TestIsSound ==
  ASSUME TestInvariant, main = "test"
  PROVE  /\ test \in DOMAIN mqtttest_site
         /\ SoundTest(test, Sections, Outline[test]) /\ Shape(Sections)
<1>1. test \in DOMAIN mqtttest_site
  BY TestsAssumption DEF TestInvariant
<1>2. SoundTest(test, Sections, Outline[test])
  BY <1>1, EverySound DEF Sections
<1>3. Shape(Sections)
  BY <1>1, TableGood DEF TableIsGood, GoodTest, GoodSteps, Shape, Sections
<1>4. QED
  BY <1>1, <1>2, <1>3

(* Before each of its steps what the step needs is known. *)
LEMMA HereIsKnown ==
  ASSUME TestInvariant, Running
  PROVE  Knows
<1>1. SoundTest(test, Sections, Outline[test]) /\ Shape(Sections)
  BY TestIsSound DEF Running
<1>2. at[1] \in 1..Len(Sections) /\ at[2] \in 1..Len(Sections[at[1]].steps)
  BY StepIsGood DEF Running, Section
<1>3. /\ Needs(test, Sections[at[1]].steps[at[2]], Outline[test][at[1]][at[2]])
      /\ test \notin NeedToFail =>
            Succeeds(Sections[at[1]].steps[at[2]], Outline[test][at[1]][at[2]])
  BY <1>1, <1>2, PlaceSound
<1>4. QED
  BY <1>3 DEF Knows, Step, Section, Note

(* After Advance what the outline says of the next place is known. *)
LEMMA AdvanceKnown ==
  ASSUME TestInvariant, Running, NEW ok \in BOOLEAN, Advance(ok), UNCHANGED test
  PROVE  Onward(ok)
<1> DEFINE secs == Sections
           notes == Outline[test]
           i == at[1]
           j == at[2]
<1>1. SoundTest(test, secs, notes) /\ Shape(secs)
  BY TestIsSound DEF Running
<1>2. i \in 1..Len(secs) /\ j \in 1..Len(secs[i].steps)
  BY StepIsGood DEF Running, Section
<1>3. /\ at' = IF ok /\ j # Len(secs[i].steps) THEN <<i, j + 1>>
               ELSE IF (ok \/ secs[i].fail = "next") /\ i < Len(secs) THEN <<i + 1, 1>>
               ELSE Done
      /\ ~ok => cntc' = j - 1
  BY DEF Advance, Section
<1>4. secs' = secs /\ notes' = notes
  BY DEF Sections
<1>5. Onwards(test, secs, notes, i, j, ok, at', cntc')
  <2> HIDE DEF secs, notes, i, j
  <2> QED
    BY <1>1, <1>2, <1>3, OnwardsSound
<1>6. QED
  <2>1. Step' = secs[at'[1]].steps[at'[2]]
    BY <1>4 DEF Step, Section
  <2>2. Note' = notes[at'[1]][at'[2]]
    BY <1>4 DEF Note
  <2>3. Step = secs[i].steps[j] /\ Section = secs[i] /\ Note = notes[i][j]
    BY DEF Step, Section, Note
  <2> HIDE DEF secs, notes, i, j
  <2>4. QED
    BY <1>5, <2>1, <2>2, <2>3 DEF Onwards, Onward

-----------------------------------------------------------------------------
(* Sequences of messages, and what a step does to the messages of the       *)
(* world.                                                                   *)

(* The items of a sequence; a sequence is one of its own items. *)
LEMMA OwnItems ==
  ASSUME NEW X, NEW q \in Seq(X)
  PROVE  /\ q \in Seq(Items(q)) /\ Items(q) \subseteq X /\ Len(q) \in Nat
         /\ \A i \in 1..Len(q) : q[i] \in Items(q)
<1>1. /\ Len(q) \in Nat /\ q = [i \in 1..Len(q) |-> q[i]]
      /\ \A i \in 1..Len(q) : q[i] \in X
  OBVIOUS
<1>2. \A i \in 1..Len(q) : q[i] \in Items(q)
  BY DEF Items
<1>3. Items(q) \subseteq X
  BY <1>1 DEF Items
<1>4. q \in Seq(Items(q))
  <2> DEFINE n == Len(q)
             Z == Items(q)
  <2>1. n \in Nat /\ q \in [1..n -> Z]
    BY <1>1, <1>2
  <2> HIDE DEF n, Z
  <2>2. q \in Seq(Z)
    BY <2>1
  <2>3. QED
    BY <2>2 DEF Z
<1>5. QED
  BY <1>1, <1>2, <1>3, <1>4

(* No items, what is left after the first k, one item more. *)
LEMMA NoItems == Items(<<>>) = {} /\ <<>> \in Seq(Items(<<>>))
BY DEF Items

(* A sequence without items is empty. *)
LEMMA EmptyItems ==
  ASSUME NEW q, q \in Seq(Items(q)), Items(q) = {}
  PROVE  q = <<>>
<1>1. Len(q) \in Nat /\ \A i \in 1..Len(q) : q[i] \in Items(q)
  BY OwnItems
<1>2. Len(q) = 0
  BY <1>1
<1>3. QED
  BY <1>2

(* What is left after the first k items. *)
LEMMA RestItems ==
  ASSUME NEW q, q \in Seq(Items(q)), NEW k \in 0..Len(q)
  PROVE  LET r == SubSeq(q, k + 1, Len(q)) IN
         /\ r \in Seq(Items(r)) /\ Items(r) \subseteq Items(q)
         /\ Len(r) = Len(q) - k
         /\ k # 0 => q[k] \in Items(q)
         /\ k = 0 => r = q
         /\ k = Len(q) => r = <<>>
<1> DEFINE r == SubSeq(q, k + 1, Len(q))
           X == Items(q)
<1>1. Len(q) \in Nat /\ \A i \in 1..Len(q) : q[i] \in X
  BY OwnItems
<1>2. q \in Seq(X)
  OBVIOUS
<1> HIDE DEF X
<1>3. r \in Seq(X) /\ Len(r) = Len(q) - k
  BY <1>1, <1>2
<1>4. r \in Seq(Items(r)) /\ Items(r) \subseteq X
  <2> HIDE DEF r
  <2> QED BY <1>3, OwnItems
<1>5. k # 0 => q[k] \in X
  BY <1>1
<1>6. k = 0 => r = q
  BY <1>1, <1>2
<1>7. k = Len(q) => r = <<>>
  BY <1>1, <1>2
<1>8. QED
  BY <1>3, <1>4, <1>5, <1>6, <1>7 DEF X

(* One item more. *)
LEMMA MoreItems ==
  ASSUME NEW q, q \in Seq(Items(q)), NEW m
  PROVE  LET r == Append(q, m) IN
         r \in Seq(Items(r)) /\ Items(r) \subseteq Items(q) \cup {m}
<1> DEFINE r == Append(q, m)
           X == Items(q) \cup {m}
<1>1. q \in Seq(X)
  <2>1. Len(q) \in Nat /\ \A i \in 1..Len(q) : q[i] \in Items(q)
    BY OwnItems
  <2>2. q = [i \in 1..Len(q) |-> q[i]]
    OBVIOUS
  <2> DEFINE n == Len(q)
  <2>3. n \in Nat /\ q \in [1..n -> X]
    BY <2>1, <2>2
  <2> HIDE DEF n, X
  <2> QED BY <2>3
<1> HIDE DEF X
<1>2. r \in Seq(X)
  BY <1>1 DEF X
<1> HIDE DEF r
<1>3. r \in Seq(Items(r)) /\ Items(r) \subseteq X
  BY <1>2, OwnItems
<1>4. QED
  BY <1>3 DEF X, r

(* What the broker distributes. *)
LEMMA DistributedTo ==
  ASSUME NEW links, Linked(links), NEW m, NEW s \in Sockets
  PROVE  LET d == Distributed(links, m) IN
         /\ d[s].open = links[s].open /\ d[s].up = links[s].up
         /\ d[s].subs = links[s].subs
         /\ d[s].inbox = IF links[s].up /\ \E f \in links[s].subs : Matches(f, m.t)
                         THEN Append(links[s].inbox, m) ELSE links[s].inbox
<1> DEFINE l == links[s]
           d == Distributed(links, m)
           k == d[s]
           here == l.up /\ \E f \in l.subs : Matches(f, m.t)
<1>1. l = [open |-> l.open, up |-> l.up, subs |-> l.subs, inbox |-> l.inbox]
  BY DEF Linked, LinkShape
<1>2. k = IF here THEN [l EXCEPT !.inbox = Append(@, m)] ELSE l
  BY DEF Distributed
<1> HIDE DEF k, l, here
<1>3. here => k = [open |-> l.open, up |-> l.up, subs |-> l.subs,
                   inbox |-> Append(l.inbox, m)]
  BY <1>1, <1>2
<1>4. ~here => k = l
  BY <1>2
<1>5. here => k.open = l.open /\ k.up = l.up /\ k.subs = l.subs
              /\ k.inbox = Append(l.inbox, m)
  BY <1>3
<1>6. /\ k.open = l.open /\ k.up = l.up /\ k.subs = l.subs
      /\ k.inbox = IF here THEN Append(l.inbox, m) ELSE l.inbox
  BY <1>4, <1>5
<1>7. QED
  BY <1>6, Zenon DEF l, k, here

(* What a step may bring: messages of New, and these only to SUB and, if    *)
(* they are on WILL, to WILL.                                               *)
Flow(New) ==
    /\ last'.recv \in {0, 1} /\ last'.msg \in World \cup New
    /\ \/ retained' = retained
       \/ /\ retained' \in New
          /\ retained'.t = "RETAIN" /\ retained'.qos = 0 /\ retained'.retain = 1
    /\ \A s \in Sockets :
          /\ link'[s].inbox \in Seq(Items(link'[s].inbox))
          /\ \A m \in Items(link'[s].inbox) :
                \/ m \in Items(link[s].inbox)
                \/ m \in New /\ s # PUB /\ (s = WILL => m.t = "WILL")
    /\ link'[WILL].subs \subseteq {"WILL"} /\ link'[PUB].subs = {}

(* The draws of random_message stay behind the clock. *)
Clock == /\ now' \in Nat /\ now' >= now
         /\ randmes' \in 0..now' /\ willmes' \in 0..now'

(* The three sockets of the program. *)
LEMMA ThreeSockets ==
  /\ SUB \in Sockets /\ PUB \in Sockets /\ WILL \in Sockets
  /\ SUB # PUB /\ SUB # WILL /\ PUB # WILL
  /\ \A s \in Sockets : s \in {SUB, PUB, WILL}
BY DEF Sockets, SUB, PUB, WILL

(* Such a step keeps what is true of the messages of the world. *)
LEMMA WorldStep ==
  ASSUME WorldInv, NEW New, Flow(New), Clock,
         \A m \in New : m.body \in 0..now' /\ Proper(m)
  PROVE  WorldInv' /\ World' \subseteq World \cup New
<1>1. \A s \in Sockets : Inbox(s)' \subseteq Inbox(s) \cup New
  BY DEF Flow, Inbox
<1>2. World' \subseteq World \cup New
  BY <1>1, ThreeSockets DEF World, Flow
<1>3. ASSUME NEW m \in World' PROVE m.body \in 0..now' /\ Proper(m)
  <2>1. CASE m \in New
    BY <2>1
  <2>2. CASE m \in World
    <3>1. m.body \in 0..now /\ Proper(m) /\ now \in Nat
      BY <2>2 DEF WorldInv
    <3>2. now' \in Nat /\ now' >= now
      BY DEF Clock
    <3>3. QED
      BY <3>1, <3>2
  <2>3. QED
    BY <1>2, <2>1, <2>2
<1>4. \/ retained' = NoMessage
      \/ retained'.t = "RETAIN" /\ retained'.qos = 0 /\ retained'.retain = 1
  BY DEF WorldInv, Flow, NoMessage
<1>5. \A m \in Inbox(WILL)' : m.t = "WILL"
  BY ThreeSockets DEF WorldInv, Flow, Inbox
<1>6. link'[PUB].inbox = <<>>
  <2>1. Items(link[PUB].inbox) = {}
    BY NoItems DEF WorldInv
  <2>2. Items(link'[PUB].inbox) = {}
    BY <2>1, ThreeSockets DEF Flow
  <2>3. link'[PUB].inbox \in Seq(Items(link'[PUB].inbox))
    BY ThreeSockets DEF Flow
  <2>4. QED
    BY <2>2, <2>3, EmptyItems
<1>7. \A s \in Sockets : link'[s].inbox \in Seq(Inbox(s)')
  BY DEF Flow, Inbox
<1>8. now' \in Nat /\ now' >= 1 /\ randmes' \in 0..now' /\ willmes' \in 0..now'
  BY DEF WorldInv, Clock
<1>9. link'[WILL].subs \subseteq {"WILL"} /\ link'[PUB].subs = {} /\ last'.recv \in {0, 1}
  BY DEF Flow
<1>10. WorldInv'
  BY <1>3, <1>4, <1>5, <1>6, <1>7, <1>8, <1>9, Sockets' = Sockets, Zenon
     DEF WorldInv
<1>11. QED
  BY <1>2, <1>10

(* The clock stands still. *)
LEMMA SameClock ==
  ASSUME WorldInv, UNCHANGED <<now, randmes, willmes>> PROVE Clock
BY DEF WorldInv, Clock

(* Messages that are still due, one link at a time. *)
LEMMA LinksFlow ==
  ASSUME WorldInv, NEW New
  PROVE  \A s \in Sockets :
            link'[s] = link[s] \/ link'[s].inbox = link[s].inbox \/ link'[s].inbox = <<>> =>
               /\ link'[s].inbox \in Seq(Items(link'[s].inbox))
               /\ \A m \in Items(link'[s].inbox) : m \in Items(link[s].inbox)
<1> TAKE s \in Sockets
<1>1. link[s].inbox \in Seq(Items(link[s].inbox))
  BY DEF WorldInv, Inbox
<1>2. QED
  BY <1>1, NoItems, Zenon

(* What is in the world. *)
LEMMA InWorld ==
  /\ last.msg \in World /\ retained \in World
  /\ \A s \in Sockets : Items(link[s].inbox) \subseteq World
BY ThreeSockets DEF World, Inbox

(* Nothing happens at the broker, ... *)
LEMMA NothingFlows ==
  ASSUME WorldInv, UNCHANGED <<link, retained>>,
         last' = last \/ last' = NothingLast
  PROVE  Flow({NoMessage})
<1>1. last'.recv \in {0, 1} /\ last'.msg \in World \cup {NoMessage}
  BY InWorld DEF WorldInv, NothingLast
<1>2. \A s \in Sockets : /\ link'[s].inbox \in Seq(Items(link'[s].inbox))
                         /\ \A m \in Items(link'[s].inbox) : m \in Items(link[s].inbox)
  BY LinksFlow
<1>3. link'[WILL].subs \subseteq {"WILL"} /\ link'[PUB].subs = {}
  BY DEF WorldInv
<1>4. QED
  BY <1>1, <1>2, <1>3 DEF Flow

(* ... a connection is opened or closed, ... *)
LEMMA OpeningFlows ==
  ASSUME WorldInv, UNCHANGED <<last, retained>>, NEW s, NEW l,
         l.subs = {}, l.inbox = <<>>,
         \A x \in Sockets : x # s => link'[x] = link[x],
         s \in Sockets => link'[s] = l
  PROVE  Flow({NoMessage})
<1>1. last'.recv \in {0, 1} /\ last'.msg \in World \cup {NoMessage}
  BY InWorld DEF WorldInv
<1>2. \A x \in Sockets : /\ link'[x].inbox \in Seq(Items(link'[x].inbox))
                         /\ \A m \in Items(link'[x].inbox) : m \in Items(link[x].inbox)
  BY LinksFlow
<1>3. link'[WILL].subs \subseteq {"WILL"} /\ link'[PUB].subs = {}
  BY ThreeSockets DEF WorldInv
<1>4. QED
  BY <1>1, <1>2, <1>3 DEF Flow

(* ... the first k messages that are due arrive, ... *)
LEMMA ArrivingFlows ==
  ASSUME WorldInv, UNCHANGED retained, NEW s \in Sockets,
         NEW k \in 0..Len(link[s].inbox),
         last' = IF k = 0 THEN last ELSE [recv |-> 1, msg |-> link[s].inbox[k]],
         link'[s].inbox = SubSeq(link[s].inbox, k + 1, Len(link[s].inbox)),
         link'[s].subs \subseteq link[s].subs,
         \A x \in Sockets : x # s => link'[x] = link[x]
  PROVE  /\ Flow({NoMessage})
         /\ last' = last \/ (last'.recv = 1 /\ last'.msg \in Items(link[s].inbox))
<1> DEFINE q == link[s].inbox
           r == SubSeq(q, k + 1, Len(q))
<1>0. q \in Seq(Items(q))
  BY DEF WorldInv, Inbox
<1>1. /\ r \in Seq(Items(r)) /\ Items(r) \subseteq Items(q)
      /\ k # 0 => q[k] \in Items(q)
  <2> HIDE DEF q
  <2>1. k \in 0..Len(q)
    BY DEF q
  <2>2. QED
    BY <1>0, <2>1, RestItems
<1>2. last' = last \/ (last'.recv = 1 /\ last'.msg \in Items(q))
  BY <1>1
<1>3. last'.recv \in {0, 1} /\ last'.msg \in World \cup {NoMessage}
  BY <1>2, InWorld DEF WorldInv
<1>4. link'[s].inbox = r
  OBVIOUS
<1>5. ASSUME NEW x \in Sockets
      PROVE  /\ link'[x].inbox \in Seq(Items(link'[x].inbox))
             /\ \A m \in Items(link'[x].inbox) : m \in Items(link[x].inbox)
  <2>1. CASE x = s
    <3> HIDE DEF r
    <3> QED BY <1>1, <1>4, <2>1 DEF q
  <2>2. CASE x # s
    BY <2>2, LinksFlow
  <2>3. QED
    BY <2>1, <2>2
<1>6. link'[WILL].subs \subseteq {"WILL"} /\ link'[PUB].subs = {}
  BY ThreeSockets DEF WorldInv
<1>7. QED
  BY <1>2, <1>3, <1>5, <1>6 DEF Flow

(* ... the broker sends what it retains to a new subscriber, ... *)
LEMMA SubscribingFlows ==
  ASSUME WorldInv, UNCHANGED <<last, retained>>, NEW s \in {SUB, WILL}, NEW t,
         s = WILL => t = "WILL", t # "none",
         link'[s].subs = link[s].subs \cup {t},
         link'[s].inbox = IF retained.t = t THEN Append(link[s].inbox, retained)
                          ELSE link[s].inbox,
         \A x \in Sockets : x # s => link'[x] = link[x]
  PROVE  Flow({retained})
<1> DEFINE q == link[s].inbox
           r == Append(q, retained)
<1>0. q \in Seq(Items(q)) /\ s \in Sockets
  BY ThreeSockets DEF WorldInv, Inbox
<1>1. r \in Seq(Items(r)) /\ Items(r) \subseteq Items(q) \cup {retained}
  <2> HIDE DEF q
  <2> QED BY <1>0, MoreItems
<1>2. last'.recv \in {0, 1} /\ last'.msg \in World \cup {retained}
  BY InWorld DEF WorldInv
<1>3. s = WILL => link'[s].inbox = q
  BY DEF WorldInv, NoMessage, Message
<1>4. ASSUME NEW x \in Sockets
      PROVE  /\ link'[x].inbox \in Seq(Items(link'[x].inbox))
             /\ \A m \in Items(link'[x].inbox) :
                   \/ m \in Items(link[x].inbox)
                   \/ m \in {retained} /\ x # PUB /\ (x = WILL => m.t = "WILL")
  <2>1. CASE x = s /\ link'[s].inbox = q
    BY <2>1, LinksFlow
  <2>2. CASE x = s /\ link'[s].inbox # q
    <3>1. link'[s].inbox = r /\ s = SUB
      BY <1>3, <2>2
    <3> HIDE DEF r
    <3>2. QED
      BY <1>1, <2>2, <3>1, ThreeSockets DEF q
  <2>3. CASE x # s
    BY <2>3, LinksFlow
  <2>4. QED
    BY <2>1, <2>2, <2>3
<1>5. link'[WILL].subs \subseteq {"WILL"} /\ link'[PUB].subs = {}
  BY ThreeSockets DEF WorldInv
<1>6. QED
  BY <1>2, <1>4, <1>5 DEF Flow

(* ... or a message is distributed. *)
LEMMA DistributingFlows ==
  ASSUME WorldInv, UNCHANGED last, NEW links, Linked(links), NEW m, NEW New, m \in New,
         \A s \in Sockets : links[s].subs = link[s].subs /\ links[s].inbox = link[s].inbox,
         link' = Distributed(links, m),
         \/ retained' = retained
         \/ /\ retained' \in New
            /\ retained'.t = "RETAIN" /\ retained'.qos = 0 /\ retained'.retain = 1
  PROVE  Flow(New)
<1>1. last'.recv \in {0, 1} /\ last'.msg \in World \cup New
  BY InWorld DEF WorldInv
<1>2. ASSUME NEW s \in Sockets
      PROVE  /\ link'[s].subs = link[s].subs
             /\ \/ link'[s].inbox = link[s].inbox
                \/ /\ link'[s].inbox = Append(link[s].inbox, m)
                   /\ \E f \in link[s].subs : Matches(f, m.t)
  <2>1. /\ link'[s].subs = links[s].subs
        /\ link'[s].inbox = IF links[s].up /\ \E f \in links[s].subs : Matches(f, m.t)
                            THEN Append(links[s].inbox, m) ELSE links[s].inbox
    <3> DEFINE d == Distributed(links, m)
    <3>1. /\ d[s].subs = links[s].subs
          /\ d[s].inbox = IF links[s].up /\ \E f \in links[s].subs : Matches(f, m.t)
                          THEN Append(links[s].inbox, m) ELSE links[s].inbox
      BY DistributedTo, ZenonT(60)
    <3>2. link' = d
      OBVIOUS
    <3> HIDE DEF d
    <3>3. QED
      BY <3>1, <3>2, Zenon
  <2>2. QED
    BY <2>1
<1>3. ASSUME NEW s \in Sockets
      PROVE  /\ link'[s].inbox \in Seq(Items(link'[s].inbox))
             /\ \A x \in Items(link'[s].inbox) :
                   \/ x \in Items(link[s].inbox)
                   \/ x \in New /\ s # PUB /\ (s = WILL => x.t = "WILL")
  <2>1. CASE link'[s].inbox = link[s].inbox
    BY <2>1, LinksFlow
  <2>2. CASE link'[s].inbox # link[s].inbox
    <3> DEFINE q == link[s].inbox
               r == Append(q, m)
    <3>1. q \in Seq(Items(q))
      BY DEF WorldInv, Inbox
    <3>2. r \in Seq(Items(r)) /\ Items(r) \subseteq Items(q) \cup {m}
      <4> HIDE DEF q
      <4> QED BY <3>1, MoreItems
    <3>3. link'[s].inbox = r
      BY <1>2, <2>2
    <3>4. PICK f \in link[s].subs : Matches(f, m.t)
      BY <1>2, <2>2
    <3>5. s # PUB /\ (s = WILL => m.t = "WILL")
      BY <3>4 DEF WorldInv, Matches
    <3> HIDE DEF r
    <3>6. QED
      BY <3>2, <3>3, <3>5 DEF q
  <2>3. QED
    BY <2>1, <2>2
<1>4. link'[WILL].subs \subseteq {"WILL"} /\ link'[PUB].subs = {}
  BY <1>2, ThreeSockets DEF WorldInv
<1>5. QED
  BY <1>1, <1>3, <1>4 DEF Flow

-----------------------------------------------------------------------------
(* What is told of the message that was drawn last. *)

(* What is told of the message drawn last, and less than that. *)
LEMMA TellsLess ==
  ASSUME NEW x, NEW y, Tells(x)', ToldMore(x, y)
  PROVE  Tells(y)'
BY Zenon DEF Tells, ToldMore

(* Unless the message is sent and not yet passed, nothing fresh is about. *)
LEMMA TellsFresh ==
  ASSUME NEW x, Tells(x), x # "sent"
  PROVE  Fresh
BY Zenon DEF Tells

(* Nothing new has come, and the clock has not gone back. *)
LEMMA FreshKept ==
  ASSUME WorldInv, Fresh, World' \subseteq World \cup {NoMessage}, UNCHANGED now,
         passed => passed'
  PROVE  Fresh'
<1>1. ASSUME Older PROVE Older'
  <2>1. NoMessage.body = 0 /\ now \in Nat /\ now >= 1
    BY DEF WorldInv, NoMessage, Message
  <2>2. QED
    BY <1>1, <2>1 DEF Older
<1>2. QED
  BY <1>1, Zenon DEF Fresh

(* Nor has what was told of the last message changed, ... *)
LEMMA ToldKept ==
  ASSUME WorldInv, Told, World' \subseteq World \cup {NoMessage}, UNCHANGED <<now, randmes, sent>>
  PROVE  Told'
<1>1. NoMessage.body = 0 /\ now \in Nat /\ now >= 1
  BY DEF WorldInv, NoMessage, Message
<1>2. QED
  BY <1>1 DEF Told

(* ... whatever it was. *)
LEMMA TellsKept ==
  ASSUME WorldInv, NEW told, Tells(told), World' \subseteq World \cup {NoMessage},
         UNCHANGED <<now, randmes, sent>>, passed => passed',
         told = "if" => result' = result
  PROVE  Tells(told)'
<1>1. Fresh => Fresh'
  BY FreshKept
<1>2. Told => Told'
  BY ToldKept
<1>3. Older => Older'
  <2>1. NoMessage.body = 0 /\ now \in Nat /\ now >= 1
    BY DEF WorldInv, NoMessage, Message
  <2>2. QED
    BY <2>1 DEF Older
<1>5. told = "if" => (result' >= 0 => result >= 0)
  OBVIOUS
<1>6. randmes = now => randmes' = now'
  OBVIOUS
<1>7. told # "sent" => Fresh'
  BY <1>1, Zenon DEF Tells
<1>8. told = "drawn" => randmes' = now' /\ Older'
  BY <1>3, <1>6, Zenon DEF Tells
<1>9. (told = "sent" => Told') /\ (told = "passed" => Told' /\ passed')
  BY <1>2, Zenon DEF Tells
<1>10. told = "if" => (result' >= 0 => Told' /\ passed')
  BY <1>2, <1>5, Zenon DEF Tells
<1>11. QED
  BY <1>7, <1>8, <1>9, <1>10, Zenon DEF Tells

(* A step that neither draws nor publishes nor waits. *)
LEMMA TellsQuiet ==
  ASSUME WorldInv, NEW var, NEW st, NEW a, NEW c, Tells(a.told), a.told # "sent",
         Leads(var, st, a, c),
         st.op \notin {"random", "random_will", "usleep", "publish", "yield"},
         World' \subseteq World \cup {NoMessage}, UNCHANGED <<now, randmes, sent, passed>>,
         a.told = "if" => /\ st.op = "check" => result >= 0
                          /\ ~(Stores(st) /\ var = 1) => result' = result
  PROVE  Tells(c.told)'
<1> DEFINE told == ThenTold(st, var, a)
<1>0. ToldMore(told, c.told)
  BY DEF Leads
<1>1. told = a.told \/ told = "none" \/ (told = "passed" /\ a.told = "if" /\ st.op = "check")
  BY DEF ThenTold
<1>2. a.told = "if" /\ Stores(st) /\ var = 1 => told = "none"
  <2>1. st.op = "check" => ~Stores(st)
    BY DEF Stores
  <2>2. QED
    BY <2>1 DEF ThenTold
<1> HIDE DEF told
<1>3. Fresh'
  BY TellsFresh, FreshKept
<1>4. CASE told = "none"
  <2>1. Tells("none")'
    BY <1>3, Zenon DEF Tells
  <2>2. QED
    BY <1>0, <1>4, <2>1, TellsLess
<1>5. CASE told = a.told /\ told # "none"
  <2>1. told = "if" => result' = result
    BY <1>2, <1>5
  <2>2. Tells(told)'
    BY <1>5, <2>1, TellsKept
  <2>3. QED
    BY <1>0, <2>2, TellsLess
<1>6. CASE told = "passed" /\ a.told = "if" /\ st.op = "check"
  <2>1. Told /\ passed
    BY <1>6, Zenon DEF Tells
  <2>2. Told' /\ passed'
    BY <2>1, ToldKept
  <2>3. Tells("passed")'
    BY <1>3, <2>2, Zenon DEF Tells
  <2>4. QED
    BY <1>0, <1>6, <2>3, TellsLess
<1>7. QED
  BY <1>1, <1>4, <1>5, <1>6

(* What is known of the last message in any case. *)
LastWeak(a) ==
    /\ a.wil # "off" /\ a.last = "none" => last.recv = 0
    /\ a.last = "will" => (last.recv = 1 => last.msg.t = "WILL")

(* What a note means in any case: of the draw, and of the last message. *)
LEMMA WeakParts ==
  ASSUME NEW c
  PROVE  /\ Weak(c) <=> Tells(c.told) /\ LastWeak(c)
         /\ Weak(c)' <=> Tells(c.told)' /\ LastWeak(c)'
BY Zenon DEF Weak, LastWeak

(* What is known of the last message leads from note to note. *)
LEMMA LastWeakly ==
  ASSUME NEW tst, NEW var, NEW st, NEW a, NEW c, Needs(tst, st, a), Leads(var, st, a, c),
         LastWeak(a),
         \/ st.op \notin {"yield", "unsubscribe", "reset_last"} /\ last' = last
         \/ st.op = "unsubscribe"
         \/ st.op = "reset_last" /\ last' = NothingLast
  PROVE  LastWeak(c)'
<1>1. c.last \in {"any", ThenLast(st, a)} /\ c.wil = ThenWil(st, a)
  BY DEF Leads
<1>2. CASE st.op = "unsubscribe"
  <2>1. c.last = "any"
    BY <1>1, <1>2 DEF ThenLast
  <2>2. QED
    BY <2>1 DEF LastWeak
<1>3. CASE st.op = "reset_last" /\ last' = NothingLast
  <2>1. last'.recv = 0
    BY <1>3 DEF NothingLast
  <2>2. QED
    BY <2>1 DEF LastWeak
<1>4. CASE st.op \notin {"yield", "unsubscribe", "reset_last"} /\ last' = last
  <2>1. ThenLast(st, a) = a.last
    BY <1>4 DEF ThenLast
  <2>2. c.wil # "off" => a.wil # "off" \/ a.last = "any"
    <3>1. CASE st.op = "connect"
      BY <1>1, <3>1 DEF ThenWil, Needs, NeedsConnect
    <3>2. CASE st.op = "subscribe"
      BY <1>1, <3>2, ThreeSockets DEF ThenWil, Needs, NeedsSubscribe
    <3>3. CASE st.op = "usleep"
      BY <1>1, <3>3 DEF ThenWil, Needs
    <3>4. CASE st.op \notin {"connect", "subscribe", "usleep"}
      BY <1>1, <1>4, <3>4 DEF ThenWil
    <3>5. QED
      BY <3>1, <3>2, <3>3, <3>4
  <2>3. QED
    BY <1>1, <1>4, <2>1, <2>2 DEF LastWeak
<1>5. QED
  BY <1>2, <1>3, <1>4

(* The same of both, for a step that neither draws, publishes nor waits. *)
LEMMA WeakQuiet ==
  ASSUME WorldInv, NEW tst, NEW var, NEW st, NEW a, NEW c, Weak(a), a.told # "sent",
         Needs(tst, st, a), Leads(var, st, a, c),
         st.op \notin {"random", "random_will", "usleep", "publish", "yield"},
         World' \subseteq World \cup {NoMessage}, UNCHANGED <<now, randmes, sent, passed>>,
         a.told = "if" => /\ st.op = "check" => result >= 0
                          /\ ~(Stores(st) /\ var = 1) => result' = result,
         \/ st.op \notin {"unsubscribe", "reset_last"} /\ last' = last
         \/ st.op = "unsubscribe"
         \/ st.op = "reset_last" /\ last' = NothingLast
  PROVE  Weak(c)'
<1>1. Tells(a.told) /\ LastWeak(a)
  BY WeakParts
<1>2. Tells(c.told)'
  BY <1>1, TellsQuiet
<1>3. LastWeak(c)'
  BY <1>1, LastWeakly
<1>4. QED
  BY <1>2, <1>3, WeakParts

-----------------------------------------------------------------------------
(* The steps of a test, whatever happens meanwhile. *)

(* What holds before a step of a test, ... *)
Before ==
    /\ WorldInv /\ TestInvariant /\ FlagsInvariant /\ SocketsInvariant
    /\ Running /\ Knows /\ Weak(Note) /\ ~mistaken

(* ... and what holds after it, calm or not: ok tells whether it succeeds.  *)
Weakly(ok) ==
    /\ Advance(ok) /\ WorldInv' /\ ~mistaken'
    /\ Fresh' \/ (ok /\ Step.op = "publish" /\ link[Step.s].up)
    /\ ~ok /\ Section.fail = "next" /\ Section.var = 1 => result' < 0
    /\ ok => \A c : Leads(Section.var, Step, Note, c) => Weak(c)'

(* An outcome decides how the test goes on. *)
LEMMA OutcomeIs ==
  ASSUME NEW v \in Int, Outcome(v)
  PROVE  /\ (v >= 0 /\ Advance(TRUE)) \/ (v < 0 /\ Advance(FALSE))
         /\ Section.var = 1 => result' = v
         /\ Section.var # 1 => result' = result
<1>0. v >= 0 \/ v < 0
  OBVIOUS
<1>1. CASE v >= 0
  <2>1. Advance(TRUE)
    BY <1>1 DEF Outcome, Advance
  <2>2. QED
    BY <1>1, <2>1 DEF Outcome, Store
<1>2. CASE v < 0
  <2>1. Advance(FALSE)
    BY <1>2 DEF Outcome, Advance
  <2>2. QED
    BY <1>2, <2>1 DEF Outcome, Store
<1>3. QED
  BY <1>0, <1>1, <1>2, Zenon

(* A step that brings no message keeps WorldInv. *)
LEMMA QuietWorld ==
  ASSUME WorldInv, Flow({NoMessage}), UNCHANGED <<now, randmes, willmes>>
  PROVE  WorldInv' /\ World' \subseteq World \cup {NoMessage}
<1>1. \A m \in {NoMessage} : m.body \in 0..now' /\ Proper(m)
  BY DEF NoMessage, Message, Proper, WorldInv
<1>2. QED
  BY <1>1, SameClock, WorldStep

(* Only a yield begins with a message that is sent and not yet passed. *)
LEMMA NoneSent ==
  ASSUME Before, Step.op # "yield"
  PROVE  Note.told # "sent" /\ Fresh
<1>1. Note.told # "sent"
  BY DEF Before, Knows, Needs
<1>2. Tells(Note.told)
  BY WeakParts DEF Before
<1>3. QED
  BY <1>1, <1>2, TellsFresh

(* A step that neither draws nor publishes nor waits. *)
LEMMA QuietStep ==
  ASSUME Before, NEW ok \in BOOLEAN, Advance(ok), ~mistaken', WorldInv',
         World' \subseteq World \cup {NoMessage}, UNCHANGED <<now, randmes, sent, passed>>,
         Step.op \notin {"random", "random_will", "usleep", "publish", "yield"},
         ok => \/ Step.op \notin {"unsubscribe", "reset_last"} /\ last' = last
               \/ Step.op = "unsubscribe"
               \/ Step.op = "reset_last" /\ last' = NothingLast,
         ok /\ Note.told = "if" => /\ Step.op = "check" => result >= 0
                                   /\ ~(Stores(Step) /\ Section.var = 1) => result' = result,
         ~ok /\ Section.fail = "next" /\ Section.var = 1 => result' < 0
  PROVE  Weakly(ok)
<1>1. Note.told # "sent" /\ Fresh
  BY NoneSent
<1>2. Fresh'
  BY <1>1, FreshKept DEF Before
<1>3. ASSUME ok, NEW c, Leads(Section.var, Step, Note, c) PROVE Weak(c)'
  BY <1>1, <1>3, WeakQuiet DEF Before, Knows
<1>4. QED
  BY <1>2, <1>3 DEF Weakly

(* The same of a step that stores its outcome. *)
LEMMA OutcomeStep ==
  ASSUME Before, NEW v \in Int, Outcome(v), ~mistaken', WorldInv',
         World' \subseteq World \cup {NoMessage}, UNCHANGED <<now, randmes, sent, passed>>,
         Stores(Step), Step.op \notin {"publish", "yield"},
         last' = last \/ Step.op = "unsubscribe"
  PROVE  \E ok \in BOOLEAN : Weakly(ok)
<1>1. Step.op \notin {"random", "random_will", "usleep", "check", "reset_last"}
  BY DEF Stores
<1>a. /\ (v >= 0 /\ Advance(TRUE)) \/ (v < 0 /\ Advance(FALSE))
      /\ Section.var = 1 => result' = v
      /\ Section.var # 1 => result' = result
  BY OutcomeIs
<1>b. ~(v >= 0 /\ v < 0) /\ (v >= 0 \/ v < 0)
  OBVIOUS
<1>2. CASE v >= 0
  <2>1. Advance(TRUE) /\ (Section.var # 1 => result' = result)
    BY <1>2, <1>a, <1>b, Zenon
  <2>2. Weakly(TRUE)
    BY <1>1, <2>1, QuietStep
  <2>3. QED
    BY <2>2, Zenon
<1>3. CASE v < 0
  <2>1. Advance(FALSE) /\ (Section.var = 1 => result' < 0)
    BY <1>3, <1>a, <1>b, Zenon
  <2>2. Weakly(FALSE)
    BY <1>1, <2>1, QuietStep
  <2>3. QED
    BY <2>2, Zenon
<1>4. QED
  BY <1>b, <1>2, <1>3, Zenon

(* What is known of the step that is next. *)
LEMMA NeedsOf ==
  ASSUME Before
  PROVE  /\ At("connect") => NeedsConnect(test, Step, Note)
         /\ At("subscribe") => NeedsSubscribe(test, Step, Note)
         /\ At("unsubscribe") => NeedsUnsubscribe(Step, Note)
         /\ At("publish") => NeedsPublish(test, Step, Note)
         /\ At("yield") => NeedsYield(Step, Note)
         /\ At("disconnect") => NeedsDisconnect(Step, Note)
         /\ At("compare") => NeedsCompare(test, Step, Note)
<1>1. Needs(test, Step, Note)
  BY DEF Before, Knows
<1>2. QED
  BY <1>1 DEF Needs, At

(* The steps of a test, calm or not: mqtt_test_connect, ... *)
LEMMA ConnectWeakly ==
  ASSUME Before, mqtt_test_connect
  PROVE  \E ok \in BOOLEAN : Weakly(ok)
<1> DEFINE opened == [open |-> TRUE, up |-> TRUE, subs |-> {}, inbox |-> <<>>]
<1>1. PICK v \in {Step.s, FAILURE}, l \in {opened, NoLink} :
         Outcome(v) /\ link' = [link EXCEPT ![Step.s] = l]
  BY DEF mqtt_test_connect
<1>2. UNCHANGED <<now, randmes, willmes, sent, passed, last, retained, mistaken>>
  BY DEF mqtt_test_connect
<1>3. v \in Int
  BY StepIsGood DEF mqtt_test_connect, At, Before, FAILURE, Sockets, SUB, PUB, WILL
<1>4. LinkShape(l) /\ l.subs = {} /\ l.inbox = <<>>
  BY DEF LinkShape, NoLink
<1> HIDE DEF opened
<1>5. /\ \A x \in Sockets : x # Step.s => link'[x] = link[x]
      /\ Step.s \in Sockets => link'[Step.s] = l
  <2>1. Linked(link) /\ link' = [link EXCEPT ![Step.s] = l]
    BY <1>1 DEF Before, SocketsInvariant
  <2>2. QED
    BY <2>1 DEF Linked
<1>6. Flow({NoMessage})
  BY <1>2, <1>4, <1>5, OpeningFlows DEF Before
<1>7. WorldInv' /\ World' \subseteq World \cup {NoMessage}
  BY <1>2, <1>6, QuietWorld DEF Before
<1>8. Stores(Step) /\ Step.op \notin {"publish", "yield"}
  BY DEF mqtt_test_connect, At, Stores
<1>9. QED
  BY <1>1, <1>2, <1>3, <1>7, <1>8, OutcomeStep DEF Before

(* ... mqtt_test_disconnect, ... *)
LEMMA DisconnectWeakly ==
  ASSUME Before, mqtt_test_disconnect
  PROVE  \E ok \in BOOLEAN : Weakly(ok)
<1>1. PICK s : link' = [link EXCEPT ![s] = NoLink]
  BY DEF mqtt_test_disconnect
<1>2. UNCHANGED <<now, randmes, willmes, sent, passed, last, retained, mistaken>>
  BY DEF mqtt_test_disconnect
<1>4. NoLink.subs = {} /\ NoLink.inbox = <<>>
  BY DEF NoLink
<1>5. /\ \A x \in Sockets : x # s => link'[x] = link[x]
      /\ s \in Sockets => link'[s] = NoLink
  <2>1. Linked(link) /\ link' = [link EXCEPT ![s] = NoLink]
    BY <1>1 DEF Before, SocketsInvariant
  <2>2. QED
    BY <2>1 DEF Linked
<1>6. Flow({NoMessage})
  BY <1>2, <1>4, <1>5, OpeningFlows DEF Before
<1>7. WorldInv' /\ World' \subseteq World \cup {NoMessage}
  BY <1>2, <1>6, QuietWorld DEF Before
<1>8. Step.op \in {"disconnect", "drop_pub"}
  BY DEF mqtt_test_disconnect, At
<1>9. CASE Step.op = "disconnect"
  <2>1. PICK v \in {0, FAILURE} : Outcome(v)
    BY <1>9 DEF mqtt_test_disconnect
  <2>2. v \in Int
    BY DEF FAILURE
  <2>3. QED
    BY <1>2, <1>7, <1>9, <2>1, <2>2, OutcomeStep DEF Before, Stores
<1>10. CASE Step.op = "drop_pub"
  <2>1. Advance(TRUE) /\ UNCHANGED result
    BY <1>10 DEF mqtt_test_disconnect
  <2>2. Weakly(TRUE)
    BY <1>2, <1>7, <1>10, <2>1, QuietStep DEF Before
  <2>3. QED
    BY <2>2, Zenon
<1>11. QED
  BY <1>8, <1>9, <1>10

(* ... mqtt_test_reset_last, ... *)
LEMMA ResetWeakly ==
  ASSUME Before, mqtt_test_reset_last
  PROVE  \E ok \in BOOLEAN : Weakly(ok)
<1>1. /\ UNCHANGED <<now, randmes, willmes, sent, passed, link, retained, mistaken, result>>
      /\ last' = NothingLast /\ Advance(TRUE) /\ Step.op = "reset_last"
  BY DEF mqtt_test_reset_last, At
<1>2. Flow({NoMessage})
  BY <1>1, NothingFlows DEF Before
<1>3. WorldInv' /\ World' \subseteq World \cup {NoMessage}
  BY <1>1, <1>2, QuietWorld DEF Before
<1>4. Weakly(TRUE)
  BY <1>1, <1>3, QuietStep DEF Before
<1>5. QED
  BY <1>4, Zenon

(* ... the checks of the result, ... *)
LEMMA CheckWeakly ==
  ASSUME Before, CheckResult
  PROVE  \E ok \in BOOLEAN : Weakly(ok)
<1>1. UNCHANGED <<now, randmes, willmes, sent, passed, link, retained, last, mistaken>>
  BY DEF CheckResult
<1>2. Flow({NoMessage})
  BY <1>1, NothingFlows DEF Before
<1>3. WorldInv' /\ World' \subseteq World \cup {NoMessage}
  BY <1>1, <1>2, QuietWorld DEF Before
<1>4. CASE At("check") /\ Advance(result >= 0) /\ UNCHANGED result
  <2>1. result >= 0 \/ result < 0
    BY DEF Before, TestInvariant, Values, FAILURE
  <2>2. CASE result >= 0
    <3>1. Advance(TRUE)
      BY <1>4, <2>2 DEF Advance
    <3>2. Weakly(TRUE)
      BY <1>1, <1>3, <1>4, <2>2, <3>1, QuietStep DEF Before, At
    <3>3. QED
      BY <3>2, Zenon
  <2>3. CASE result < 0
    <3>1. Advance(FALSE)
      BY <1>4, <2>3 DEF Advance, Before, TestInvariant, Values, FAILURE
    <3>2. Weakly(FALSE)
      BY <1>1, <1>3, <1>4, <2>3, <3>1, QuietStep DEF Before, At
    <3>3. QED
      BY <3>2, Zenon
  <2>4. QED
    BY <2>1, <2>2, <2>3
<1>5. CASE At("count") /\ Advance(TRUE)
  <2>1. Note.told # "if" /\ Step.op = "count"
    BY <1>5 DEF Before, Knows, Needs, At
  <2>2. Weakly(TRUE)
    BY <1>1, <1>3, <1>5, <2>1, QuietStep DEF Before
  <2>3. QED
    BY <2>2, Zenon
<1>6. QED
  BY <1>4, <1>5 DEF CheckResult

(* ... mqtt_test_subscribe, ... *)
LEMMA SubscribeWeakly ==
  ASSUME Before, mqtt_test_subscribe
  PROVE  \E ok \in BOOLEAN : Weakly(ok)
<1> DEFINE s == Step.s
           t == Step.t
<1>1. UNCHANGED <<now, randmes, willmes, sent, passed, last, retained, mistaken>>
  BY DEF mqtt_test_subscribe
<1>2. PICK v \in {0, FAILURE} : Outcome(v)
  BY DEF mqtt_test_subscribe
<1>3. v \in Int
  BY DEF FAILURE
<1>4. Step.op = "subscribe" /\ Stores(Step)
  BY DEF mqtt_test_subscribe, At, Stores
<1>5. s \in {SUB, WILL} /\ (s = WILL => t = "WILL") /\ t # "none" /\ s \in Sockets
  BY NeedsOf, ThreeSockets DEF mqtt_test_subscribe, NeedsSubscribe
<1>6. WorldInv' /\ World' \subseteq World \cup {NoMessage}
  <2>1. CASE UNCHANGED link
    <3>1. Flow({NoMessage})
      BY <1>1, <2>1, NothingFlows DEF Before
    <3>2. QED
      BY <1>1, <3>1, QuietWorld DEF Before
  <2>2. CASE link' = [link EXCEPT ![s].subs = @ \cup {t},
                                  ![s].inbox = IF retained.t = t
                                               THEN Append(@, retained) ELSE @]
    <3>1. /\ link'[s].subs = link[s].subs \cup {t}
          /\ link'[s].inbox = IF retained.t = t THEN Append(link[s].inbox, retained)
                              ELSE link[s].inbox
          /\ \A x \in Sockets : x # s => link'[x] = link[x]
      <4> DEFINE k == link'[s]
                 l == link[s]
                 f == l.subs \cup {t}
                 i == IF retained.t = t THEN Append(l.inbox, retained) ELSE l.inbox
      <4>1. /\ k = [l EXCEPT !.subs = f, !.inbox = i] /\ LinkShape(l)
            /\ \A x \in Sockets : x # s => link'[x] = link[x]
        BY <1>5, <2>2 DEF Before, SocketsInvariant, Linked
      <4> HIDE DEF k, l, f, i
      <4>2. k = [open |-> l.open, up |-> l.up, subs |-> f, inbox |-> i]
        BY <4>1 DEF LinkShape
      <4>3. k.subs = f /\ k.inbox = i
        BY <4>2
      <4>4. QED
        BY <4>1, <4>3 DEF k, l, f, i
    <3>2. Flow({retained})
      <4> HIDE DEF s, t
      <4> QED BY <1>1, <1>5, <3>1, SubscribingFlows DEF Before
    <3>3. \A m \in {retained} : m.body \in 0..now' /\ Proper(m)
      BY <1>1, InWorld DEF Before, WorldInv
    <3>4. WorldInv' /\ World' \subseteq World \cup {retained}
      BY <1>1, <3>2, <3>3, SameClock, WorldStep DEF Before
    <3>5. QED
      BY <3>4, InWorld
  <2>3. QED
    BY <2>1, <2>2 DEF mqtt_test_subscribe
<1>7. QED
  BY <1>1, <1>2, <1>3, <1>4, <1>6, OutcomeStep DEF Before

(* ... mqtt_test_unsubscribe. *)
LEMMA UnsubscribeWeakly ==
  ASSUME Before, mqtt_test_unsubscribe
  PROVE  \E ok \in BOOLEAN : Weakly(ok)
<1> DEFINE s == Step.s
           t == Step.t
           q == link[s].inbox
<1>1. UNCHANGED <<now, randmes, willmes, sent, passed, retained, mistaken>>
  BY DEF mqtt_test_unsubscribe
<1>2. PICK v \in {0, FAILURE} : Outcome(v)
  BY DEF mqtt_test_unsubscribe
<1>3. v \in Int
  BY DEF FAILURE
<1>4. Step.op = "unsubscribe" /\ Stores(Step)
  BY DEF mqtt_test_unsubscribe, At, Stores
<1>5. s \in Sockets
  BY NeedsOf, ThreeSockets DEF mqtt_test_unsubscribe, NeedsUnsubscribe
<1>6. Flow({NoMessage})
  <2>1. CASE UNCHANGED <<link, last>>
    BY <1>1, <2>1, NothingFlows DEF Before
  <2>2. CASE \E k \in 0..Len(link[s].inbox) :
                /\ last' = IF k = 0 THEN last
                           ELSE [recv |-> 1, msg |-> link[s].inbox[k]]
                /\ link' = [link EXCEPT ![s].subs = @ \ {t},
                                        ![s].inbox = SubSeq(@, k + 1, Len(@))]
    <3>1. PICK k \in 0..Len(link[s].inbox) :
                /\ last' = IF k = 0 THEN last
                           ELSE [recv |-> 1, msg |-> link[s].inbox[k]]
                /\ link' = [link EXCEPT ![s].subs = @ \ {t},
                                        ![s].inbox = SubSeq(@, k + 1, Len(@))]
      BY <2>2
    <3>2. /\ link'[s].inbox = SubSeq(link[s].inbox, k + 1, Len(link[s].inbox))
          /\ link'[s].subs = link[s].subs \ {t}
          /\ \A x \in Sockets : x # s => link'[x] = link[x]
      <4> DEFINE r == link'[s]
                 l == link[s]
                 f == l.subs \ {t}
                 i == SubSeq(l.inbox, k + 1, Len(l.inbox))
      <4>1. /\ r = [l EXCEPT !.subs = f, !.inbox = i] /\ LinkShape(l)
            /\ \A x \in Sockets : x # s => link'[x] = link[x]
        BY <1>5, <3>1 DEF Before, SocketsInvariant, Linked
      <4> HIDE DEF r, l, f, i
      <4>2. r = [open |-> l.open, up |-> l.up, subs |-> f, inbox |-> i]
        BY <4>1 DEF LinkShape
      <4>3. r.subs = f /\ r.inbox = i
        BY <4>2
      <4>4. QED
        BY <4>1, <4>3 DEF r, l, f, i
    <3>3. link'[s].subs \subseteq link[s].subs
      BY <3>2
    <3>4. QED
      <4> HIDE DEF s, t
      <4> QED BY <1>1, <1>5, <3>1, <3>2, <3>3, ArrivingFlows DEF Before
  <2>3. QED
    BY <2>1, <2>2 DEF mqtt_test_unsubscribe
<1>7. WorldInv' /\ World' \subseteq World \cup {NoMessage}
  BY <1>1, <1>6, QuietWorld DEF Before
<1>8. QED
  BY <1>1, <1>2, <1>3, <1>4, <1>7, OutcomeStep DEF Before

(* An outcome that is a success ... *)
LEMMA OutcomeGood ==
  ASSUME Outcome(0)
  PROVE  /\ Advance(TRUE) /\ (Section.var = 1 => result' = 0)
         /\ Section.var # 1 => result' = result
<1>1. 0 \in Int /\ ~(0 < 0)
  OBVIOUS
<1>2. /\ (0 >= 0 /\ Advance(TRUE)) \/ (0 < 0 /\ Advance(FALSE))
      /\ Section.var = 1 => result' = 0
      /\ Section.var # 1 => result' = result
  BY <1>1, OutcomeIs, Zenon
<1>3. QED
  BY <1>1, <1>2, Zenon

(* ... and one that is a failure. *)
LEMMA OutcomeBad ==
  ASSUME Outcome(FAILURE)
  PROVE  /\ Advance(FALSE) /\ (Section.var = 1 => result' < 0)
         /\ Section.var # 1 => result' = result
<1>1. FAILURE \in Int /\ ~(FAILURE >= 0) /\ FAILURE < 0
  BY DEF FAILURE
<1>2. /\ (FAILURE >= 0 /\ Advance(TRUE)) \/ (FAILURE < 0 /\ Advance(FALSE))
      /\ Section.var = 1 => result' = FAILURE
      /\ Section.var # 1 => result' = result
  BY <1>1, OutcomeIs, Zenon
<1>3. Section.var = 1 => result' < 0
  BY <1>1, <1>2
<1>4. QED
  BY <1>1, <1>2, <1>3, Zenon

(* A publish, whether the message arrives or not, ... *)
LEMMA PublishWeakly ==
  ASSUME Before, mqtt_test_publish
  PROVE  \E ok \in BOOLEAN : Weakly(ok)
<1> DEFINE m == Message(Step.t, randmes, Step.q, 0)
           k == [m EXCEPT !.retain = 1]
           up == link[Step.s].up
<1>1. UNCHANGED <<now, randmes, willmes, passed, last, mistaken>> /\ Step.op = "publish"
  BY DEF mqtt_test_publish, At
<1>2. NeedsPublish(test, Step, Note)
  BY NeedsOf DEF mqtt_test_publish
<1>3. randmes = now /\ Older /\ Tells(Note.told) /\ LastWeak(Note)
  <2>1. Tells(Note.told) /\ LastWeak(Note)
    BY WeakParts DEF Before
  <2>2. Note.told = "drawn"
    BY <1>2 DEF NeedsPublish
  <2>3. QED
    BY <2>1, <2>2, Zenon DEF Tells
<1>4. m.t = Step.t /\ m.body = now /\ m.retain = 0 /\ m.qos = Step.q /\ m.dup = 0
  BY <1>3 DEF Message
<1>5. k.t = Step.t /\ k.body = now /\ k.retain = 1 /\ k.qos = Step.q /\ k.dup = 0
  BY <1>3 DEF Message
<1>6. now \in Nat /\ now >= 1
  BY DEF Before, WorldInv
<1> HIDE DEF m, k
<1>7. CASE /\ up /\ link' = Distributed(link, m)
           /\ retained' = IF Step.r = 1 THEN k ELSE retained
           /\ sent' = <<m.t, m.body>> /\ Outcome(0)
  <2>1. Advance(TRUE)
    BY <1>7, OutcomeGood, Zenon
  <2>2. Step.r = 1 => k.t = "RETAIN" /\ k.qos = 0
    <3>1. ASSUME Step.r = 1 PROVE Step.t = "RETAIN" /\ test = "t16"
      BY <1>2, <3>1 DEF NeedsPublish
    <3>2. test = "t16" => Succeeds(Step, Note)
      BY DEF Before, Knows, NeedToFail
    <3>3. test = "t16" => Step.q = 0
      BY <1>2, <3>2 DEF NeedsPublish, QoS
    <3>4. QED
      BY <1>5, <3>1, <3>3
  <2>3. Linked(link)
    BY DEF Before, SocketsInvariant
  <2>4. \/ retained' = retained
        \/ /\ retained' \in {m, k}
           /\ retained'.t = "RETAIN" /\ retained'.qos = 0 /\ retained'.retain = 1
    BY <1>5, <1>7, <2>2
  <2>5. Flow({m, k})
    BY <1>1, <1>7, <2>3, <2>4, DistributingFlows DEF Before
  <2>6. \A x \in {m, k} : x.body \in 0..now' /\ Proper(x)
    BY <1>1, <1>4, <1>5, <1>6 DEF Proper
  <2>7. WorldInv' /\ World' \subseteq World \cup {m, k}
    BY <1>1, <2>5, <2>6, SameClock, WorldStep DEF Before
  <2>8. Told'
    <3>1. randmes' = now' /\ sent'[2] = now' /\ sent' = <<Step.t, now>> /\ now' = now
      BY <1>1, <1>3, <1>4, <1>7
    <3>2. ASSUME NEW x \in World' PROVE x.body < now' \/ <<x.t, x.body>> = sent'
      BY <1>3, <1>4, <1>5, <2>7, <3>1 DEF Older
    <3>3. QED
      BY <3>1, <3>2 DEF Told
  <2>9. ASSUME NEW c, Leads(Section.var, Step, Note, c) PROVE Weak(c)'
    <3>0. ThenTold(Step, Section.var, Note) = "sent"
      BY <1>1, <1>2 DEF ThenTold, NeedsPublish
    <3>1. c.told = "sent"
      BY <2>9, <3>0 DEF Leads, ToldMore
    <3>2. Tells(c.told)'
      BY <2>8, <3>1, Zenon DEF Tells
    <3>3. LastWeak(c)'
      BY <1>1, <1>3, <2>9, LastWeakly DEF Before, Knows
    <3>4. QED
      BY <3>2, <3>3, WeakParts
  <2>10. Weakly(TRUE)
    BY <1>1, <1>7, <2>1, <2>7, <2>9 DEF Weakly, Before
  <2>11. QED
    BY <2>10, Zenon
<1>8. CASE UNCHANGED <<link, retained, sent>> /\ Outcome(FAILURE)
  <2>1. Advance(FALSE) /\ (Section.var = 1 => result' < 0)
    BY <1>8, OutcomeBad, Zenon
  <2>2. Flow({NoMessage})
    BY <1>1, <1>8, NothingFlows DEF Before
  <2>3. WorldInv' /\ World' \subseteq World \cup {NoMessage}
    BY <1>1, <2>2, QuietWorld DEF Before
  <2>4. Fresh'
    BY <1>1, <2>3, NoneSent, FreshKept DEF Before
  <2>5. Weakly(FALSE)
    BY <1>1, <2>1, <2>3, <2>4 DEF Weakly, Before
  <2>6. QED
    BY <2>5, Zenon
<1>9. QED
  BY <1>7, <1>8 DEF mqtt_test_publish, m, k

(* ... a yield, whatever it hands over, ... *)
LEMMA YieldWeakly ==
  ASSUME Before, mqtt_test_yield
  PROVE  \E ok \in BOOLEAN : Weakly(ok)
<1> DEFINE s == Step.s
           q == link[s].inbox
<1>1. UNCHANGED <<now, randmes, willmes, sent, retained, mistaken>> /\ Step.op = "yield"
  BY DEF mqtt_test_yield, At
<1>2. passed'
  BY DEF mqtt_test_yield
<1>3. NeedsYield(Step, Note)
  BY NeedsOf DEF mqtt_test_yield
<1>4. s \in Sockets
  BY <1>3, ThreeSockets DEF NeedsYield
<1>5. Tells(Note.told) /\ LastWeak(Note)
  BY WeakParts DEF Before
<1>6. Fresh'
  BY <1>2 DEF Fresh
<1>7. CASE (\E k \in 0..Len(link[s].inbox) : Arrived(s, k)) /\ Outcome(0)
  <2>1. PICK k \in 0..Len(link[s].inbox) : Arrived(s, k)
    BY <1>7
  <2>2. /\ link'[s].inbox = SubSeq(link[s].inbox, k + 1, Len(link[s].inbox))
        /\ link'[s].subs = link[s].subs
        /\ \A x \in Sockets : x # s => link'[x] = link[x]
    <3> DEFINE r == link'[s]
               l == link[s]
               i == SubSeq(l.inbox, k + 1, Len(l.inbox))
    <3>1. /\ r = [l EXCEPT !.inbox = i] /\ LinkShape(l)
          /\ \A x \in Sockets : x # s => link'[x] = link[x]
      BY <1>4, <2>1 DEF Before, SocketsInvariant, Linked, Arrived
    <3> HIDE DEF r, l, i
    <3>2. r = [open |-> l.open, up |-> l.up, subs |-> l.subs, inbox |-> i]
      BY <3>1 DEF LinkShape
    <3>3. r.subs = l.subs /\ r.inbox = i
      BY <3>2
    <3>4. QED
      BY <3>1, <3>3 DEF r, l, i
  <2>3. /\ link'[s].subs \subseteq link[s].subs
        /\ last' = IF k = 0 THEN last ELSE [recv |-> 1, msg |-> link[s].inbox[k]]
    BY <2>1, <2>2 DEF Arrived
  <2>4. /\ Flow({NoMessage})
        /\ last' = last \/ (last'.recv = 1 /\ last'.msg \in Items(link[s].inbox))
    <3> HIDE DEF s
    <3> QED BY <1>1, <1>4, <2>2, <2>3, ArrivingFlows DEF Before
  <2>5. WorldInv' /\ World' \subseteq World \cup {NoMessage}
    BY <1>1, <2>4, QuietWorld DEF Before
  <2>6. Advance(TRUE) /\ (Section.var # 1 => result' = result)
    BY <1>7, OutcomeGood, Zenon
  <2>7. ASSUME NEW c, Leads(Section.var, Step, Note, c) PROVE Weak(c)'
    <3>0. PICK told : told = ThenTold(Step, Section.var, Note)
      OBVIOUS
    <3>1. /\ ToldMore(told, c.told) /\ c.wil = ThenWil(Step, Note)
          /\ c.last \in {"any", ThenLast(Step, Note)}
      BY <2>7, <3>0 DEF Leads
    <3>2. told = IF Note.told = "sent" THEN "passed"
                 ELSE IF Section.var = 1 /\ Note.told = "if" THEN "none" ELSE Note.told
      BY <1>1, <3>0 DEF ThenTold, Stores
    <3>3. Tells(told)'
      <4>1. CASE Note.told = "sent"
        <5>1. Told
          BY <1>5, <4>1, Zenon DEF Tells
        <5>2. Told'
          BY <1>1, <2>5, <5>1, ToldKept DEF Before
        <5>3. Tells("passed")'
          BY <1>2, <1>6, <5>2, Zenon DEF Tells
        <5>4. told = "passed"
          BY <3>2, <4>1
        <5>5. QED
          BY <5>3, <5>4, Zenon
      <4>2. CASE Note.told # "sent" /\ Section.var = 1 /\ Note.told = "if"
        <5>1. Tells("none")'
          BY <1>6, Zenon DEF Tells
        <5>2. told = "none"
          BY <3>2, <4>2
        <5>3. QED
          BY <5>1, <5>2, Zenon
      <4>3. CASE Note.told # "sent" /\ ~(Section.var = 1 /\ Note.told = "if")
        <5>1. Note.told = "if" => result' = result
          BY <2>6, <4>3
        <5>2. told = Note.told
          BY <3>2, <4>3
        <5>3. Tells(told) /\ (told = "if" => result' = result)
          BY <1>5, <5>1, <5>2, Zenon
        <5>4. (passed => passed') /\ UNCHANGED <<now, randmes, sent>> /\ WorldInv
          BY <1>1, <1>2 DEF Before
        <5>5. World' \subseteq World \cup {NoMessage}
          BY <2>5
        <5>6. QED
          BY <5>3, <5>4, <5>5, TellsKept, Zenon
      <4>4. QED
        BY <4>1, <4>2, <4>3, Zenon
    <3>4. Tells(c.told)'
      BY <3>1, <3>3, TellsLess, Zenon
    <3>5. LastWeak(c)'
      <4>1. CASE s = WILL
        <5>1. last.recv = 0 /\ c.last \in {"any", "will"}
          BY <1>1, <1>3, <1>5, <3>1, <4>1, ThreeSockets DEF NeedsYield, LastWeak, ThenLast
        <5>2. last'.recv = 1 => last'.msg.t = "WILL"
          BY <2>4, <4>1, <5>1 DEF Before, WorldInv, Inbox
        <5>3. QED
          BY <5>1, <5>2 DEF LastWeak
      <4>2. CASE s = PUB
        <5>1. link[s].inbox = <<>>
          BY <4>2 DEF Before, WorldInv
        <5>2. last' = last
          BY <2>4, <5>1, NoItems
        <5>3. c.last \in {"any", Note.last} /\ c.wil = Note.wil
          BY <1>1, <3>1, <4>2, ThreeSockets DEF ThenLast, ThenWil
        <5>4. QED
          BY <1>5, <5>2, <5>3 DEF LastWeak
      <4>3. CASE s = SUB
        <5>1. c.wil = Note.wil
          BY <1>1, <3>1, <4>3, ThreeSockets DEF ThenWil
        <5>2. /\ Note.due = "none" => c.last \in {"any", Note.last}
              /\ Note.due = "some" => c.last \in {"any", "first"}
              /\ Note.due \notin {"none", "some"} => c.last \in {"any", Note.due}
          BY <1>1, <3>1, <4>3, ThreeSockets DEF ThenLast
        <5>3. /\ Note.due \in {"none", "pub", "kept", "some"}
              /\ Note.due = "none" => Note.wil = "off" /\ Note.last = "none"
          BY <1>3, <4>3, ThreeSockets DEF NeedsYield
        <5>4. QED
          BY <5>1, <5>2, <5>3 DEF LastWeak
      <4>4. QED
        BY <1>4, <4>1, <4>2, <4>3, ThreeSockets
    <3>6. QED
      BY <3>4, <3>5, WeakParts
  <2>8. Weakly(TRUE)
    BY <1>1, <1>6, <2>5, <2>6, <2>7 DEF Weakly, Before
  <2>9. QED
    BY <2>8, Zenon
<1>8. CASE UNCHANGED <<link, last>> /\ Outcome(FAILURE)
  <2>1. Advance(FALSE) /\ (Section.var = 1 => result' < 0)
    BY <1>8, OutcomeBad, Zenon
  <2>2. Flow({NoMessage})
    BY <1>1, <1>8, NothingFlows DEF Before
  <2>3. WorldInv' /\ World' \subseteq World \cup {NoMessage}
    BY <1>1, <2>2, QuietWorld DEF Before
  <2>4. Weakly(FALSE)
    BY <1>1, <1>6, <2>1, <2>3 DEF Weakly, Before
  <2>5. QED
    BY <2>4, Zenon
<1>9. QED
  BY <1>7, <1>8 DEF mqtt_test_yield

(* ... a draw, ... *)
LEMMA RandomWeakly ==
  ASSUME Before, random_message
  PROVE  \E ok \in BOOLEAN : Weakly(ok)
<1>1. PICK n \in {0, 1} : (passed => n = 1) /\ now' = now + n
  BY DEF random_message
<1>2. /\ UNCHANGED <<sent, link, retained, last, mistaken, result>> /\ Advance(TRUE)
      /\ Step.op \in {"random", "random_will"}
  BY DEF random_message, At
<1>3. /\ randmes' = IF Step.op = "random" THEN now' ELSE randmes
      /\ willmes' = IF Step.op = "random_will" THEN now' ELSE willmes
  BY DEF random_message
<1>4. Fresh
  BY <1>2, NoneSent
<1>5. now \in Nat /\ now >= 1 /\ randmes \in 0..now /\ willmes \in 0..now
  BY DEF Before, WorldInv
<1>6. Clock
  <2>1. now' \in Nat /\ now' >= now
    BY <1>1, <1>5
  <2>2. randmes' \in 0..now' /\ willmes' \in 0..now'
    BY <1>3, <1>5, <2>1
  <2>3. QED
    BY <2>1, <2>2 DEF Clock
<1>7. Flow({NoMessage})
  BY <1>2, NothingFlows DEF Before
<1>8. WorldInv'
  <2>1. \A m \in {NoMessage} : m.body \in 0..now' /\ Proper(m)
    BY <1>6 DEF NoMessage, Message, Proper, Clock
  <2>2. QED
    BY <1>6, <1>7, <2>1, WorldStep DEF Before
<1>9. Older'
  <2>1. World' = World
    BY <1>2 DEF World, Inbox
  <2>2. ASSUME NEW m \in World PROVE m.body < now'
    <3>1. m.body \in 0..now
      BY DEF Before, WorldInv
    <3>2. CASE passed
      BY <1>1, <1>5, <3>1, <3>2
    <3>3. CASE ~passed
      <4>1. Older
        BY <1>4, <3>3, Zenon DEF Fresh
      <4>2. m.body < now
        BY <4>1 DEF Older
      <4>3. QED
        BY <1>1, <1>5, <3>1, <4>2
    <3>4. QED
      BY <3>2, <3>3
  <2>3. QED
    BY <2>1, <2>2 DEF Older
<1>10. Fresh'
  BY <1>9, Zenon DEF Fresh
<1>11. ASSUME NEW c, Leads(Section.var, Step, Note, c) PROVE Weak(c)'
  <2>1. LastWeak(c)'
    <3>1. LastWeak(Note)
      BY WeakParts DEF Before
    <3>2. QED
      BY <1>2, <1>11, <3>1, LastWeakly DEF Before, Knows
  <2>2. c.told = "none" \/ (c.told = "drawn" /\ Step.op = "random")
    <3>1. ~Stores(Step)
      BY <1>2 DEF Stores
    <3>2. ThenTold(Step, Section.var, Note) = IF Step.op = "random" THEN "drawn" ELSE "none"
      BY <1>2, <3>1 DEF ThenTold
    <3>3. QED
      BY <1>2, <1>11, <3>2 DEF Leads, ToldMore
  <2>3. Tells(c.told)'
    <3>1. CASE c.told = "none"
      BY <1>10, <3>1, Zenon DEF Tells
    <3>2. CASE c.told = "drawn" /\ Step.op = "random"
      <4>1. randmes' = now'
        BY <1>3, <3>2
      <4>2. QED
        BY <1>9, <1>10, <3>2, <4>1, Zenon DEF Tells
    <3>3. QED
      BY <2>2, <3>1, <3>2
  <2>4. QED
    BY <2>1, <2>3, WeakParts
<1>12. Weakly(TRUE)
  BY <1>2, <1>8, <1>10, <1>11 DEF Weakly, Before
<1>13. QED
  BY <1>12, Zenon

(* ... and the wait for the will, calm or not. *)
LEMMA UsleepWeakly ==
  ASSUME Before, usleep
  PROVE  \E ok \in BOOLEAN : Weakly(ok)
<1> DEFINE links == [link EXCEPT ![PUB].up = FALSE]
<1>1. /\ UNCHANGED <<now, randmes, willmes, sent, retained, last, mistaken, result>>
      /\ Advance(TRUE) /\ Step.op = "usleep"
  BY DEF usleep, At
<1>2. passed'
  BY DEF usleep
<1>3. Fresh'
  BY <1>2 DEF Fresh
<1>4. \/ link' = link
      \/ link' = Distributed(links, Will)
  BY DEF usleep, Will
<1>5. /\ Linked(links)
      /\ \A s \in Sockets : links[s].subs = link[s].subs /\ links[s].inbox = link[s].inbox
  <2> DEFINE k == links[PUB]
             l == link[PUB]
  <2>1. /\ Linked(link) /\ k = [l EXCEPT !.up = FALSE] /\ LinkShape(l)
        /\ \A x \in Sockets : x # PUB => links[x] = link[x]
        /\ links = [x \in Sockets |-> links[x]]
    BY ThreeSockets DEF Before, SocketsInvariant, Linked
  <2> HIDE DEF k, l, links
  <2>2. k = [open |-> l.open, up |-> FALSE, subs |-> l.subs, inbox |-> l.inbox]
    BY <2>1 DEF LinkShape
  <2>3. LinkShape(k) /\ k.subs = l.subs /\ k.inbox = l.inbox
    BY <2>2 DEF LinkShape
  <2>4. \A x \in Sockets : LinkShape(links[x])
    <3>1. \A x \in Sockets : LinkShape(link[x])
      BY <2>1 DEF Linked
    <3>2. QED
      BY <2>1, <2>3, <3>1 DEF k
  <2>5. QED
    BY <2>1, <2>3, <2>4 DEF Linked, k, l
<1>6. WorldInv'
  <2>1. CASE link' = link
    <3>1. Flow({NoMessage})
      BY <1>1, <2>1, NothingFlows DEF Before
    <3>2. QED
      BY <1>1, <3>1, QuietWorld DEF Before
  <2>2. CASE link' = Distributed(links, Will)
    <3> HIDE DEF links
    <3>1. Flow({Will})
      BY <1>1, <1>5, <2>2, DistributingFlows DEF Before
    <3>2. /\ Will.body = willmes /\ Will.retain = 0 /\ Will.dup = 0
          /\ now \in Nat /\ willmes \in 0..now
      BY DEF Will, Message, Before, WorldInv
    <3>3. \A m \in {Will} : m.body \in 0..now' /\ Proper(m)
      BY <1>1, <3>2 DEF Proper
    <3>4. QED
      BY <1>1, <3>1, <3>3, SameClock, WorldStep DEF Before
  <2>3. QED
    BY <1>4, <2>1, <2>2
<1>7. ASSUME NEW c, Leads(Section.var, Step, Note, c) PROVE Weak(c)'
  <2>1. LastWeak(c)'
    <3>1. LastWeak(Note)
      BY WeakParts DEF Before
    <3>2. QED
      BY <1>1, <1>7, <3>1, LastWeakly DEF Before, Knows
  <2>2. c.told = "none"
    <3>1. ~Stores(Step)
      BY <1>1 DEF Stores
    <3>2. ThenTold(Step, Section.var, Note) = "none"
      BY <1>1, <3>1 DEF ThenTold
    <3>3. QED
      BY <1>7, <3>2 DEF Leads, ToldMore
  <2>3. Tells(c.told)'
    BY <1>3, <2>2, Zenon DEF Tells
  <2>4. QED
    BY <2>1, <2>3, WeakParts
<1>8. Weakly(TRUE)
  BY <1>1, <1>3, <1>6, <1>7 DEF Weakly, Before
<1>9. QED
  BY <1>8, Zenon

(* A loop without a first comparison. *)
LEMMA NoFirst ==
  ASSUME NEW j \in 1..Len(mqtttest_retain[2].steps)
  PROVE  LET st == mqtttest_retain[2].steps[j] IN
         st.op = "compare" => st.what # "first"
<1> DEFINE body == <<Do("reset_last"), Do("random"), P(PUB, "RETAIN", 0, 1),
                     Y(SUB), Cmp("rand", 0, 0)>>
           T == Times(Loop, body)
<1>1. mqtttest_retain[2].steps = T
  BY DEF mqtttest_retain, Sec
<1>2. /\ Len(body) \in Nat \ {0}
      /\ \A i \in 1..Len(body) : body[i].op = "compare" => body[i].what # "first"
  BY DEF Do, P, Y, Cmp
<1> HIDE DEF body
<1>3. \A k \in 1..Len(T) : \E i \in 1..Len(body) : T[k] = body[i]
  BY <1>2, MqttConstants, TimesSteps
<1> HIDE DEF T
<1>4. QED
  BY <1>1, <1>2, <1>3

(* The first comparison of mqtttest_retain ends the test when it fails. *)
LEMMA FirstEnds ==
  ASSUME TestInvariant, main = "test", at # Done, test = "t16",
         Step.op = "compare", Step.what = "first"
  PROVE  Section.fail = "end"
<1>1. Sections = mqtttest_retain
  BY DEF Sections, mqtttest_site
<1>2. at[1] \in 1..Len(Sections) /\ at[2] \in 1..Len(Section.steps)
  BY StepIsGood
<1>3. at[1] # 2
  BY <1>1, <1>2, NoFirst DEF Section, Step
<1>4. Len(mqtttest_retain) = 5 /\ \A i \in {1, 3, 4, 5} : mqtttest_retain[i].fail = "end"
  BY DEF mqtttest_retain, Sec
<1>5. at[1] \in {1, 3, 4, 5}
  BY <1>1, <1>2, <1>3, <1>4
<1>6. QED
  BY <1>1, <1>4, <1>5 DEF Section

(* What is compared. *)
Expected == CASE Step.what = "will" -> willmes
              [] Step.what = "first" -> 0
              [] OTHER -> randmes

(* Its outcome. *)
Compared == ComparedLast(Step.q, Step.r, Expected)

(* A comparison succeeds only on a message with the value that is           *)
(* expected.                                                                *)
LEMMA ComparedIs ==
  /\ Compared \in Int
  /\ Compared = 0 => last.recv # 0 /\ last.msg.body = Expected
BY DEF Compared, ComparedLast, ERROR_COUNT, ERROR_QOS, ERROR_RETAIN, ERROR_DUP,
   ERROR_MESSAGE

(* A comparison is with a message of its own turn, calm or not. *)
LEMMA CompareWeakly ==
  ASSUME Before, mqtt_test_compare_last
  PROVE  \E ok \in BOOLEAN : Weakly(ok)
<1> DEFINE expected == IF Step.what = "will" THEN <<"WILL", willmes>> ELSE sent
<1>1. /\ UNCHANGED <<now, randmes, willmes, sent, passed, link, retained, last>>
      /\ Step.op = "compare"
  BY DEF mqtt_test_compare_last, At
<1>2. NeedsCompare(test, Step, Note)
  BY NeedsOf DEF mqtt_test_compare_last
<1>3. Tells(Note.told) /\ LastWeak(Note)
  BY WeakParts DEF Before
<1>4. ~mistaken'
  <2>1. mistaken' = (mistaken \/ /\ Compared = 0
                                 /\ Step.what \in {"rand", "will"}
                                 /\ expected # <<last.msg.t, last.msg.body>>)
    BY DEF mqtt_test_compare_last, Compared, Expected
  <2>2. ASSUME Compared = 0, Step.what = "rand"
        PROVE  expected = <<last.msg.t, last.msg.body>>
    <3>1. last.msg.body = randmes
      BY <2>2, ComparedIs DEF Expected
    <3>2. Note.told = "passed"
      BY <1>2, <2>2 DEF NeedsCompare
    <3>3. Told
      BY <1>3, <3>2, Zenon DEF Tells
    <3>4. last.msg.body < now \/ <<last.msg.t, last.msg.body>> = sent
      BY <3>3, InWorld DEF Told
    <3>5. randmes = now /\ now \in Nat
      BY <3>3 DEF Told, Before, WorldInv
    <3>6. QED
      BY <2>2, <3>1, <3>4, <3>5
  <2>3. ASSUME Compared = 0, Step.what = "will"
        PROVE  expected = <<last.msg.t, last.msg.body>>
    <3>1. last.msg.body = willmes /\ last.recv # 0
      BY <2>3, ComparedIs DEF Expected
    <3>2. Note.last = "will"
      BY <1>2, <2>3 DEF NeedsCompare
    <3>3. last.recv = 1
      BY <3>1 DEF Before, WorldInv
    <3>4. last.msg.t = "WILL"
      BY <1>3, <3>2, <3>3 DEF LastWeak
    <3>5. QED
      BY <2>3, <3>1, <3>4
  <2>4. ~mistaken
    BY DEF Before
  <2> HIDE DEF expected
  <2>5. QED
    BY <2>1, <2>2, <2>3, <2>4
<1>5. Flow({NoMessage})
  BY <1>1, NothingFlows DEF Before
<1>6. WorldInv' /\ World' \subseteq World \cup {NoMessage}
  BY <1>1, <1>5, QuietWorld DEF Before
<1>7. Stores(Step)
  BY <1>1 DEF Stores
<1>8. CASE Step.what # "first"
  <2>1. PICK v \in {Compared, 0, ERROR_COUNT} : Outcome(v)
    BY <1>8 DEF mqtt_test_compare_last, Compared, Expected
  <2>2. v \in Int
    BY ComparedIs DEF ERROR_COUNT
  <2>3. QED
    BY <1>1, <1>4, <1>6, <1>7, <2>1, <2>2, OutcomeStep
<1>9. CASE Step.what = "first"
  <2>1. Advance(Compared \in FirstAccepted) /\ Store(Compared)
    BY <1>9 DEF mqtt_test_compare_last, Compared, Expected
  <2>2. CASE Compared \in FirstAccepted
    <3>1. Advance(TRUE)
      BY <2>1, <2>2 DEF Advance
    <3>2. Section.var # 1 => result' = result
      BY <2>1 DEF Store
    <3>3. Weakly(TRUE)
      BY <1>1, <1>4, <1>6, <1>7, <3>1, <3>2, QuietStep
    <3>4. QED
      BY <3>3, Zenon
  <2>3. CASE Compared \notin FirstAccepted
    <3>1. Advance(FALSE)
      BY <2>1, <2>3 DEF Advance
    <3>2. Section.fail = "end"
      BY <1>1, <1>2, <1>9, FirstEnds DEF NeedsCompare, Before, Running
    <3>3. Weakly(FALSE)
      BY <1>1, <1>4, <1>6, <1>7, <3>1, <3>2, QuietStep
    <3>4. QED
      BY <3>3, Zenon
  <2>4. QED
    BY <2>2, <2>3
<1>10. QED
  BY <1>8, <1>9

(* Any step of a test, calm or not. *)
LEMMA StepWeakly ==
  ASSUME Before, TestStep
  PROVE  \E ok \in BOOLEAN : Weakly(ok)
BY ConnectWeakly, SubscribeWeakly, UnsubscribeWeakly, PublishWeakly, YieldWeakly,
   DisconnectWeakly, RandomWeakly, ResetWeakly, CompareWeakly, UsleepWeakly, CheckWeakly,
   Zenon DEF TestStep

(* A step that does not connect opens nothing. *)
LEMMA NothingOpened ==
  ASSUME SocketsInvariant, TestStep, Step.op # "connect"
  PROVE  \A s \in Sockets : link'[s].open => link[s].open
<1>1. CASE mqtt_test_disconnect
  <2>1. PICK s : link' = [link EXCEPT ![s] = NoLink]
    BY <1>1 DEF mqtt_test_disconnect
  <2>2. ~NoLink.open /\ Linked(link)
    BY DEF NoLink, SocketsInvariant
  <2>3. QED
    BY <2>1, <2>2 DEF Linked
<1>2. CASE \/ random_message \/ mqtt_test_reset_last \/ mqtt_test_compare_last
           \/ CheckResult
  BY <1>2 DEF random_message, mqtt_test_reset_last, mqtt_test_compare_last, CheckResult
<1>3. CASE \/ mqtt_test_subscribe \/ mqtt_test_unsubscribe \/ mqtt_test_yield
  <2>1. \/ UNCHANGED link
        \/ \E f, i : link' = [link EXCEPT ![Step.s].subs = f, ![Step.s].inbox = i]
        \/ \E i : link' = [link EXCEPT ![Step.s].inbox = i]
    BY <1>3 DEF mqtt_test_subscribe, mqtt_test_unsubscribe, mqtt_test_yield, Arrived
  <2>2. SameOpen(link')
    BY <2>1, SameOpenOne
  <2>3. QED
    BY <2>2 DEF SameOpen
<1>4. CASE mqtt_test_publish
  <2>1. link' = link \/ \E m : link' = Distributed(link, m)
    BY <1>4 DEF mqtt_test_publish
  <2>2. SameOpen(link')
    BY <2>1, LinkUnchanged, DistributedSame
  <2>3. QED
    BY <2>2 DEF SameOpen
<1>5. CASE usleep
  <2> DEFINE l == [link EXCEPT ![PUB].up = FALSE]
  <2>1. link' = link \/ \E m : link' = Distributed(l, m)
    BY <1>5 DEF usleep
  <2>2. SameOpen(l)
    BY SameOpenOne
  <2> HIDE DEF l
  <2>3. SameOpen(link')
    BY <2>1, <2>2, LinkUnchanged, DistributedSame
  <2>4. QED
    BY <2>3 DEF SameOpen
<1>6. ~mqtt_test_connect
  BY DEF mqtt_test_connect, At
<1>7. QED
  BY <1>1, <1>2, <1>3, <1>4, <1>5, <1>6 DEF TestStep

(* The tests without a connection never have one. *)
LEMMA StaysClosed ==
  ASSUME Before, ClosedInv, TestStep
  PROVE  ClosedInv'
<1>1. main = "test" /\ UNCHANGED <<main, test>> /\ at # Done
  BY TestStepFrame DEF mainVars, Before, Running
<1>2. SUFFICES ASSUME test \in Unconnected
               PROVE  \A s \in Sockets : ~link'[s].open
  BY <1>1 DEF ClosedInv, Unconnected
<1>3. \A s \in Sockets : ~link[s].open
  BY <1>1, <1>2 DEF ClosedInv
<1>4. Step.op # "connect"
  BY <1>1, <1>2, NeedsOf DEF NeedsConnect, At
<1>5. QED
  BY <1>3, <1>4, NothingOpened DEF Before

(* What is known after a step, calm or not. *)
LEMMA GoesOnWeakly ==
  ASSUME Before, ClosedInv, NEW ok \in BOOLEAN, Weakly(ok), UNCHANGED <<main, test>>,
         TestInvariant'
  PROVE  FreshInv' /\ WeakInv'
<1>1. Onward(ok)
  BY AdvanceKnown DEF Before, Weakly
<1>2. main' = "test"
  BY DEF Before, Running
<1>3. CASE at' = Done
  <2>1. Fresh'
    <3>1. ASSUME ok, Step.op = "publish", link[Step.s].up PROVE FALSE
      <4>1. Ends(test, Section.var, Step, Note)
        BY <1>1, <1>3, <3>1 DEF Onward
      <4>2. test \in Unconnected
        BY <3>1, <4>1 DEF Ends
      <4>3. Step.s \in Sockets
        BY <3>1, NeedsOf, ThreeSockets DEF NeedsPublish, At, Before, Running
      <4>4. ~link[Step.s].open
        BY <4>2, <4>3 DEF ClosedInv, Before, Running
      <4>5. QED
        BY <3>1, <4>3, <4>4 DEF Before, SocketsInvariant, Linked, LinkShape
    <3>2. QED
      BY <3>1 DEF Weakly
  <2>2. ~Running'
    BY <1>3 DEF Running
  <2>3. QED
    BY <2>1, <2>2, Zenon DEF FreshInv, WeakInv
<1>4. CASE at' # Done
  <2>1. PICK c : c = Note'
    OBVIOUS
  <2>2. Weak(c)'
    <3>1. CASE ok /\ Chain(test, Section.var, Step, Note, c)
      BY <3>1 DEF Chain, Weakly
    <3>2. CASE ok /\ Refused(test, Section.var, Step, Note, c)
      <4>1. c.told = "none" /\ c.last = "any" /\ Step.op # "publish"
        BY <3>2 DEF Refused
      <4>2. Fresh'
        BY <4>1 DEF Weakly
      <4>3. Tells(c.told)'
        BY <4>1, <4>2, Zenon DEF Tells
      <4>4. LastWeak(c)'
        BY <4>1 DEF LastWeak
      <4>5. QED
        BY <4>3, <4>4, WeakParts
    <3>3. CASE ~ok /\ Section.fail = "next" /\ FailNote(Section, c)
      <4>1. c.last = "any" /\ (c.told = "none" \/ (c.told = "if" /\ Section.var = 1))
        BY <3>3 DEF FailNote
      <4>2. Fresh'
        BY <3>3 DEF Weakly
      <4>3. Section.var = 1 => ~(result' >= 0)
        BY <3>3 DEF Weakly, TestInvariant, Values, FAILURE
      <4>4. Tells(c.told)'
        BY <4>1, <4>2, <4>3, Zenon DEF Tells
      <4>5. LastWeak(c)'
        BY <4>1 DEF LastWeak
      <4>6. QED
        BY <4>4, <4>5, WeakParts
    <3>4. QED
      BY <1>1, <1>4, <2>1, <3>1, <3>2, <3>3 DEF Onward
  <2>3. Running'
    BY <1>2, <1>4 DEF Running
  <2>4. Weak(Note)'
    BY <2>1, <2>2 DEF Weak, Tells
  <2>5. QED
    BY <2>3, <2>4, Zenon DEF FreshInv, WeakInv
<1>5. QED
  BY <1>3, <1>4

-----------------------------------------------------------------------------
(* The steps of a test while nothing disturbs it. *)

(* What holds before a step that leaves things calm, ... *)
Careful ==
    /\ Before /\ Strong(Note) /\ (Step.op = "count" => cntc = Step.n)
    /\ Calm' /\ UNCHANGED test

(* ... what is right about the broker and about the results after it, ...   *)
Right(c) == SubIs(c) /\ PubIs(c) /\ WillIs(c) /\ LastIs(c) /\ KeptIs(c)

(* ... about the results, ... *)
Good(res) == /\ res = "good" => result >= 0
             /\ res = "bad" => result < 0
             /\ result2 >= 0

(* A link that a step leaves alone. *)
SameLink(s) ==
    /\ link'[s].open = link[s].open /\ link'[s].up = link[s].up
    /\ link'[s].subs = link[s].subs /\ link'[s].inbox = link[s].inbox

(* ... and what holds after it: it succeeds exactly when it should.         *)
Strongly(ok) ==
    /\ Advance(ok) /\ (ok <=> Succeeds(Step, Note))
    /\ ok => /\ \A res : res = ThenRes(Step, Section.var, Note) => Good(res)'
             /\ \A c : Leads(Section.var, Step, Note, c) => Right(c)'
    /\ ~ok => /\ \A s \in Sockets : SameLink(s)
              /\ UNCHANGED <<retained, sent, willmes>>
              /\ Section.var = 1 => result' < 0
              /\ Section.var # 1 => result' = result
              /\ Section.var # 2 => result2' = result2

(* A part of the world that nothing has happened to. *)
LEMMA SubKept ==
  ASSUME NEW a, NEW c, SubIs(a), c.sub = a.sub, c.topics = a.topics, c.n = a.n,
         c.due = a.due, SameLink(SUB), UNCHANGED <<retained, sent, test>>
  PROVE  SubIs(c)'
<1>1. Published' = Published
  BY DEF Published
<1>2. QED
  BY <1>1 DEF SubIs, SameLink

(* ... the publisher, ... *)
LEMMA PubKept ==
  ASSUME NEW a, NEW c, PubIs(a), c.pub = a.pub,
         link'[PUB].open = link[PUB].open, link'[PUB].up = link[PUB].up
  PROVE  PubIs(c)'
BY DEF PubIs

(* ... the connection of the will, ... *)
LEMMA WillKept ==
  ASSUME NEW a, NEW c, WillIs(a), c.wil = a.wil, SameLink(WILL), UNCHANGED willmes
  PROVE  WillIs(c)'
BY DEF WillIs, SameLink, Will

(* ... the last message, ... *)
LEMMA LastKept ==
  ASSUME NEW a, NEW c, LastIs(a), c.last \in {"any", a.last}, last' = last,
         UNCHANGED <<retained, sent, willmes, test>>
  PROVE  LastIs(c)'
<1>1. Published' = Published /\ Will' = Will
  BY DEF Published, Will
<1>2. QED
  BY <1>1 DEF LastIs

(* ... and what is retained. *)
LEMMA KeptKept ==
  ASSUME NEW a, NEW c, KeptIs(a), c.kept => a.kept, UNCHANGED <<retained, sent>>
  PROVE  KeptIs(c)'
BY DEF KeptIs

(* The results after a step that stores nothing, ... *)
LEMMA NothingStored ==
  ASSUME Careful, UNCHANGED <<result, result2>>, ~Stores(Step)
  PROVE  \A res : res = ThenRes(Step, Section.var, Note) => Good(res)'
<1> SUFFICES ASSUME NEW res, res = ThenRes(Step, Section.var, Note) PROVE Good(res)'
  OBVIOUS
<1>1. res = Note.res
  BY DEF ThenRes
<1>2. QED
  BY <1>1 DEF Careful, Strong, ResultIs, Good

(* ... and after one that stores a success. *)
LEMMA SuccessStored ==
  ASSUME Careful, NEW v \in {0, 1, 2}, Outcome(v), Stores(Step),
         ~(Step.op = "compare" /\ Step.what = "first")
  PROVE  /\ Advance(TRUE)
         /\ \A res : res = ThenRes(Step, Section.var, Note) => Good(res)'
<1>1. Store(v) /\ Advance(TRUE)
  BY DEF Outcome, Advance
<1>2. ASSUME NEW res, res = ThenRes(Step, Section.var, Note) PROVE Good(res)'
  <2>1. res = IF Section.var = 1 THEN "good" ELSE Note.res
    BY <1>2 DEF ThenRes
  <2>2. ResultIs(Note)
    BY DEF Careful, Strong
  <2>3. QED
    BY <1>1, <2>1, <2>2 DEF Store, ResultIs, Good
<1>3. QED
  BY <1>1, <1>2

(* A call that fails although the connection is there disturbs the test. *)
LEMMA FailsClosed ==
  ASSUME Careful, NEW s \in Sockets, LibraryFails(s)
  PROVE  ~link[s].open /\ ~link[s].up
<1>1. disturbed' = (disturbed \/ link[s].open) /\ ~disturbed'
  BY DEF LibraryFails, Careful, Calm
<1>2. QED
  BY <1>1 DEF Careful, Before, SocketsInvariant, Linked, LinkShape

(* What a step with no effect but on the results leaves right. *)
LEMMA NothingHappened ==
  ASSUME Careful, UNCHANGED <<link, retained, sent, last, willmes>>,
         Step.op \notin {"connect", "subscribe", "unsubscribe", "publish", "yield",
                        "disconnect", "drop_pub", "usleep", "reset_last"}
  PROVE  \A c : Leads(Section.var, Step, Note, c) => Right(c)'
<1> SUFFICES ASSUME NEW c, Leads(Section.var, Step, Note, c) PROVE Right(c)'
  OBVIOUS
<1>1. /\ c.sub = Note.sub /\ c.topics = Note.topics /\ c.n = Note.n
      /\ c.due = Note.due /\ c.pub = Note.pub /\ c.wil = Note.wil
      /\ c.last \in {"any", Note.last} /\ (c.kept => Note.kept)
  BY DEF Leads, ThenSub, ThenTopics, ThenN, ThenDue, ThenPub, ThenWil, ThenLast, ThenKept
<1>2. SubIs(Note) /\ PubIs(Note) /\ WillIs(Note) /\ LastIs(Note) /\ KeptIs(Note)
  BY DEF Careful, Strong
<1>3. SameLink(SUB) /\ SameLink(WILL) /\ UNCHANGED test
  BY DEF SameLink, Careful
<1>4. QED
  BY <1>1, <1>2, <1>3, SubKept, PubKept, WillKept, LastKept, KeptKept DEF Right

(* What is right before the step, in parts. *)
LEMMA RightBefore ==
  ASSUME Careful
  PROVE  /\ SubIs(Note) /\ PubIs(Note) /\ WillIs(Note) /\ LastIs(Note) /\ KeptIs(Note)
         /\ ResultIs(Note) /\ Linked(link) /\ Before /\ UNCHANGED test
         /\ \A s \in Sockets : link[s].up => link[s].open
BY DEF Careful, Strong, Before, SocketsInvariant, Linked, LinkShape

(* An empty set of filters. *)
LEMMA NoFilters == IsFiniteSet({}) /\ Cardinality({}) = 0
BY FS_EmptySet

(* The steps of a test while it is calm: mqtt_test_connect, ... *)
LEMMA ConnectStrongly ==
  ASSUME Careful, mqtt_test_connect
  PROVE  Strongly(TRUE)
<1> DEFINE opened == [open |-> TRUE, up |-> TRUE, subs |-> {}, inbox |-> <<>>]
           s == Step.s
<1>1. Outcome(s) /\ link' = [link EXCEPT ![s] = opened]
  BY DEF mqtt_test_connect, Careful, Calm
<1>2. UNCHANGED <<willmes, sent, last, retained>> /\ Step.op = "connect"
  BY DEF mqtt_test_connect, At
<1>3. s \in Sockets /\ s \in {0, 1, 2}
  BY <1>2, StepIsGood DEF Careful, Before, Running, Sockets, SUB, PUB, WILL
<1>4. /\ link'[s].open /\ link'[s].up /\ link'[s].subs = {} /\ link'[s].inbox = <<>>
      /\ \A x \in Sockets : x # s => link'[x] = link[x]
  BY <1>1, <1>3, RightBefore DEF Linked
<1>5. Stores(Step) /\ Succeeds(Step, Note)
  BY <1>2 DEF Stores, Succeeds
<1>6. /\ Advance(TRUE)
      /\ \A res : res = ThenRes(Step, Section.var, Note) => Good(res)'
  <2> HIDE DEF s
  <2> QED BY <1>1, <1>2, <1>3, <1>5, SuccessStored
<1>7. ASSUME NEW c, Leads(Section.var, Step, Note, c) PROVE Right(c)'
  <2>1. /\ IF s = SUB
           THEN c.sub = "on" /\ c.topics = {} /\ c.n = 0 /\ c.due = "none"
           ELSE c.sub = Note.sub /\ c.topics = Note.topics /\ c.n = Note.n /\ c.due = Note.due
        /\ c.pub = IF s = PUB THEN "on" ELSE Note.pub
        /\ c.wil = IF s = WILL THEN "on" ELSE Note.wil
        /\ c.last \in {"any", Note.last} /\ (c.kept => Note.kept)
    BY <1>2, <1>7, ThreeSockets
       DEF Leads, ThenSub, ThenTopics, ThenN, ThenDue, ThenPub, ThenWil, ThenLast, ThenKept
  <2> HIDE DEF s
  <2>2. SubIs(c)'
    <3>1. CASE s = SUB
      <4>1. link'[SUB].up /\ link'[SUB].subs = {} /\ link'[SUB].inbox = <<>>
        BY <1>4, <3>1
      <4>2. c.sub = "on" /\ c.topics = {} /\ c.n = 0 /\ c.due = "none" /\ 0 \in 0..5
        BY <2>1, <3>1
      <4>3. IsFiniteSet(c.topics) /\ Cardinality(c.topics) = c.n
        BY <4>2, NoFilters
      <4>4. QED
        BY <4>1, <4>2, <4>3 DEF SubIs
    <3>2. CASE s # SUB
      <4>1. SameLink(SUB)
        BY <1>4, <3>2, ThreeSockets DEF SameLink
      <4>2. QED
        BY <1>2, <2>1, <3>2, <4>1, RightBefore, SubKept
    <3>3. QED
      BY <3>1, <3>2
  <2>3. PubIs(c)'
    <3>1. CASE s = PUB
      BY <1>4, <2>1, <3>1 DEF PubIs
    <3>2. CASE s # PUB
      <4>1. link'[PUB] = link[PUB]
        BY <1>4, <3>2, ThreeSockets
      <4>2. QED
        BY <2>1, <3>2, <4>1, RightBefore, PubKept
    <3>3. QED
      BY <3>1, <3>2
  <2>4. WillIs(c)'
    <3>1. CASE s = WILL
      BY <1>4, <2>1, <3>1 DEF WillIs
    <3>2. CASE s # WILL
      <4>1. SameLink(WILL)
        BY <1>4, <3>2, ThreeSockets DEF SameLink
      <4>2. QED
        BY <1>2, <2>1, <3>2, <4>1, RightBefore, WillKept
    <3>3. QED
      BY <3>1, <3>2
  <2>5. LastIs(c)' /\ KeptIs(c)'
    BY <1>2, <2>1, RightBefore, LastKept, KeptKept
  <2>6. QED
    BY <2>2, <2>3, <2>4, <2>5 DEF Right
<1>8. QED
  BY <1>5, <1>6, <1>7 DEF Strongly

(* ... mqtt_test_disconnect, ... *)
LEMMA DisconnectStrongly ==
  ASSUME Careful, mqtt_test_disconnect
  PROVE  Strongly(TRUE)
<1> DEFINE s == IF Step.op = "drop_pub" THEN PUB ELSE Step.s
<1>1. link' = [link EXCEPT ![s] = NoLink] /\ Step.op \in {"disconnect", "drop_pub"}
  BY DEF mqtt_test_disconnect, At
<1>2. UNCHANGED <<willmes, sent, last, retained>>
  BY DEF mqtt_test_disconnect
<1>3. s \in Sockets /\ (Step.op = "disconnect" => link[s].up)
  <2>1. CASE Step.op = "drop_pub"
    BY <2>1, ThreeSockets
  <2>2. CASE Step.op = "disconnect"
    <3>1. NeedsDisconnect(Step, Note)
      BY <2>2, NeedsOf, RightBefore DEF At, Before, Running
    <3>2. QED
      BY <2>2, <3>1, RightBefore, ThreeSockets DEF NeedsDisconnect, SubIs, PubIs, WillIs
  <2>3. QED
    BY <1>1, <2>1, <2>2
<1>4. /\ ~link'[s].open /\ ~link'[s].up /\ link'[s].subs = {} /\ link'[s].inbox = <<>>
      /\ \A x \in Sockets : x # s => link'[x] = link[x]
  BY <1>1, <1>3, RightBefore DEF Linked, NoLink
<1>5. Succeeds(Step, Note)
  BY <1>1 DEF Succeeds
<1>6. /\ Advance(TRUE)
      /\ \A res : res = ThenRes(Step, Section.var, Note) => Good(res)'
  <2>1. CASE Step.op = "disconnect"
    <3>1. Stores(Step)
      BY <2>1 DEF Stores
    <3>2. Outcome(0)
      <4>1. ~LibraryFails(Step.s)
        BY <1>3, <2>1, FailsClosed
      <4>2. QED
        BY <2>1, <4>1 DEF mqtt_test_disconnect
    <3>3. QED
      BY <2>1, <3>1, <3>2, SuccessStored
  <2>2. CASE Step.op = "drop_pub"
    <3>1. ~Stores(Step)
      BY <2>2 DEF Stores
    <3>2. Advance(TRUE) /\ UNCHANGED <<result, result2>>
      BY <2>2 DEF mqtt_test_disconnect
    <3>3. QED
      BY <3>1, <3>2, NothingStored
  <2>3. QED
    BY <1>1, <2>1, <2>2
<1>7. ASSUME NEW c, Leads(Section.var, Step, Note, c) PROVE Right(c)'
  <2>1. /\ IF s = SUB
           THEN c.sub = "off"
           ELSE c.sub = Note.sub /\ c.topics = Note.topics /\ c.n = Note.n /\ c.due = Note.due
        /\ c.pub = IF s = PUB THEN "off" ELSE Note.pub
        /\ c.wil = IF s = WILL THEN "off" ELSE Note.wil
        /\ c.last \in {"any", Note.last} /\ (c.kept => Note.kept)
    <3>1. CASE Step.op = "disconnect"
      BY <1>7, <3>1, ThreeSockets
         DEF Leads, ThenSub, ThenTopics, ThenN, ThenDue, ThenPub, ThenWil, ThenLast, ThenKept
    <3>2. CASE Step.op = "drop_pub"
      BY <1>7, <3>2, ThreeSockets
         DEF Leads, ThenSub, ThenTopics, ThenN, ThenDue, ThenPub, ThenWil, ThenLast, ThenKept
    <3>3. QED
      BY <1>1, <3>1, <3>2
  <2> HIDE DEF s
  <2>2. SubIs(c)'
    <3>1. CASE s = SUB
      BY <1>4, <2>1, <3>1 DEF SubIs
    <3>2. CASE s # SUB
      <4>1. SameLink(SUB)
        BY <1>4, <3>2, ThreeSockets DEF SameLink
      <4>2. QED
        BY <1>2, <2>1, <3>2, <4>1, RightBefore, SubKept
    <3>3. QED
      BY <3>1, <3>2
  <2>3. PubIs(c)'
    <3>1. CASE s = PUB
      BY <1>4, <2>1, <3>1 DEF PubIs
    <3>2. CASE s # PUB
      <4>1. link'[PUB] = link[PUB]
        BY <1>4, <3>2, ThreeSockets
      <4>2. QED
        BY <2>1, <3>2, <4>1, RightBefore, PubKept
    <3>3. QED
      BY <3>1, <3>2
  <2>4. WillIs(c)'
    <3>1. CASE s = WILL
      BY <1>4, <2>1, <3>1 DEF WillIs
    <3>2. CASE s # WILL
      <4>1. SameLink(WILL)
        BY <1>4, <3>2, ThreeSockets DEF SameLink
      <4>2. QED
        BY <1>2, <2>1, <3>2, <4>1, RightBefore, WillKept
    <3>3. QED
      BY <3>1, <3>2
  <2>5. LastIs(c)' /\ KeptIs(c)'
    BY <1>2, <2>1, RightBefore, LastKept, KeptKept
  <2>6. QED
    BY <2>2, <2>3, <2>4, <2>5 DEF Right
<1>8. QED
  BY <1>5, <1>6, <1>7 DEF Strongly

(* ... random_message, ... *)
LEMMA RandomStrongly ==
  ASSUME Careful, random_message
  PROVE  Strongly(TRUE)
<1>1. /\ UNCHANGED <<link, retained, sent, last, result, result2>> /\ Advance(TRUE)
      /\ Step.op \in {"random", "random_will"}
      /\ Step.op = "random" => willmes' = willmes
  BY DEF random_message, At
<1>2. Succeeds(Step, Note) /\ ~Stores(Step)
  BY <1>1 DEF Succeeds, Stores
<1>3. \A res : res = ThenRes(Step, Section.var, Note) => Good(res)'
  BY <1>1, <1>2, NothingStored
<1>4. ASSUME NEW c, Leads(Section.var, Step, Note, c) PROVE Right(c)'
  <2>1. CASE Step.op = "random"
    BY <1>1, <1>4, <2>1, NothingHappened
  <2>2. CASE Step.op = "random_will"
    <3>1. /\ c.sub = Note.sub /\ c.topics = Note.topics /\ c.n = Note.n
          /\ c.due = Note.due /\ c.pub = Note.pub /\ c.wil = Note.wil
          /\ c.last \in {"any", Note.last} /\ (c.kept => Note.kept)
      BY <1>4, <2>2
         DEF Leads, ThenSub, ThenTopics, ThenN, ThenDue, ThenPub, ThenWil, ThenLast, ThenKept
    <3>2. Note.wil # "due" /\ Note.last # "will"
      BY <2>2, RightBefore DEF Before, Knows, Needs
    <3>3. SameLink(SUB) /\ Published' = Published
      BY <1>1, RightBefore DEF SameLink, Published
    <3>4. SubIs(c)' /\ PubIs(c)' /\ KeptIs(c)'
      BY <1>1, <3>1, <3>3, RightBefore, SubKept, PubKept, KeptKept
    <3>5. WillIs(c)'
      BY <1>1, <3>1, <3>2, RightBefore DEF WillIs
    <3>6. LastIs(c)'
      BY <1>1, <3>1, <3>2, <3>3, RightBefore DEF LastIs
    <3>7. QED
      BY <3>4, <3>5, <3>6 DEF Right
  <2>3. QED
    BY <1>1, <2>1, <2>2
<1>5. QED
  BY <1>1, <1>2, <1>3, <1>4 DEF Strongly

(* ... mqtt_test_reset_last ... *)
LEMMA ResetStrongly ==
  ASSUME Careful, mqtt_test_reset_last
  PROVE  Strongly(TRUE)
<1>1. /\ UNCHANGED <<link, retained, sent, willmes, result, result2>> /\ Advance(TRUE)
      /\ Step.op = "reset_last" /\ last' = NothingLast
  BY DEF mqtt_test_reset_last, At
<1>2. Succeeds(Step, Note) /\ ~Stores(Step)
  BY <1>1 DEF Succeeds, Stores
<1>3. \A res : res = ThenRes(Step, Section.var, Note) => Good(res)'
  BY <1>1, <1>2, NothingStored
<1>4. ASSUME NEW c, Leads(Section.var, Step, Note, c) PROVE Right(c)'
  <2>1. /\ c.sub = Note.sub /\ c.topics = Note.topics /\ c.n = Note.n
        /\ c.due = Note.due /\ c.pub = Note.pub /\ c.wil = Note.wil
        /\ c.last \in {"any", "none"} /\ (c.kept => Note.kept)
    BY <1>1, <1>4
       DEF Leads, ThenSub, ThenTopics, ThenN, ThenDue, ThenPub, ThenWil, ThenLast, ThenKept
  <2>2. SameLink(SUB) /\ SameLink(WILL)
    BY <1>1 DEF SameLink
  <2>3. SubIs(c)' /\ PubIs(c)' /\ WillIs(c)' /\ KeptIs(c)'
    BY <1>1, <2>1, <2>2, RightBefore, SubKept, PubKept, WillKept, KeptKept
  <2>4. LastIs(c)'
    BY <1>1, <2>1 DEF LastIs, NothingLast
  <2>5. QED
    BY <2>3, <2>4 DEF Right
<1>5. QED
  BY <1>1, <1>2, <1>3, <1>4 DEF Strongly

(* ... and the checks of the result. *)
LEMMA CheckStrongly ==
  ASSUME Careful, CheckResult
  PROVE  Strongly(TRUE)
<1>1. /\ UNCHANGED <<link, retained, sent, willmes, last, result2>>
      /\ Step.op \in {"check", "count"}
  BY DEF CheckResult, At
<1>2. Succeeds(Step, Note) /\ ~Stores(Step)
  BY <1>1 DEF Succeeds, Stores
<1>3. Advance(TRUE) /\ result' = result
  <2>1. CASE Step.op = "check"
    <3>1. Note.res = "good"
      BY <2>1, RightBefore DEF Before, Knows, Needs
    <3>2. result >= 0
      BY <3>1, RightBefore DEF ResultIs
    <3>3. QED
      BY <2>1, <3>2 DEF CheckResult, At, Advance
  <2>2. CASE Step.op = "count"
    BY <2>2 DEF CheckResult, At, Careful
  <2>3. QED
    BY <1>1, <2>1, <2>2
<1>4. \A res : res = ThenRes(Step, Section.var, Note) => Good(res)'
  BY <1>1, <1>2, <1>3, NothingStored
<1>5. \A c : Leads(Section.var, Step, Note, c) => Right(c)'
  BY <1>1, NothingHappened
<1>6. QED
  BY <1>2, <1>3, <1>4, <1>5 DEF Strongly

(* A step that should fail fails and changes nothing. *)
LEMMA FailsStrongly ==
  ASSUME Careful, Outcome(FAILURE), ~Succeeds(Step, Note), \A s \in Sockets : SameLink(s),
         UNCHANGED <<retained, sent, willmes>>
  PROVE  Strongly(FALSE)
<1>1. Advance(FALSE) /\ (Section.var = 1 => result' < 0)
      /\ (Section.var # 1 => result' = result)
  BY OutcomeBad, Zenon
<1>2. Section.var # 2 => result2' = result2
  BY DEF Outcome, Store
<1>3. QED
  BY <1>1, <1>2 DEF Strongly

(* One topic more, one less. *)
LEMMA OneMore ==
  ASSUME NEW ts, IsFiniteSet(ts), NEW n \in 0..5, Cardinality(ts) = n, NEW t
  PROVE  /\ IsFiniteSet(ts \cup {t}) /\ IsFiniteSet(ts \ {t})
         /\ t \notin ts => Cardinality(ts \cup {t}) = n + 1
         /\ t \in ts => Cardinality(ts \ {t}) = n - 1 /\ n # 0
<1>1. IsFiniteSet(ts \cup {t}) /\ (t \notin ts => Cardinality(ts \cup {t}) = n + 1)
  BY FS_AddElement
<1>2. IsFiniteSet(ts \ {t}) /\ (t \in ts => Cardinality(ts \ {t}) = n - 1)
  BY FS_RemoveElement
<1>3. n = 0 => ts = {}
  BY FS_EmptySet
<1>4. QED
  BY <1>1, <1>2, <1>3

(* A subscription while it is calm succeeds exactly when it should. *)
LEMMA SubscribeStrongly ==
  ASSUME Careful, mqtt_test_subscribe
  PROVE  \E ok \in BOOLEAN : Strongly(ok)
<1> DEFINE s == Step.s
           t == Step.t
           refused == t \in link[s].subs
                      \/ Cardinality(link[s].subs) = MQTT_TEST_LIST_MULTI
<1>1. UNCHANGED <<willmes, sent, last, retained>> /\ Step.op = "subscribe"
  BY DEF mqtt_test_subscribe, At
<1>2. NeedsSubscribe(test, Step, Note)
  BY NeedsOf, RightBefore DEF mqtt_test_subscribe
<1>3. s \in {SUB, WILL} /\ s \in Sockets
  BY <1>2, ThreeSockets DEF NeedsSubscribe
<1>4. /\ s = SUB => (Succeeds(Step, Note) <=> Note.sub = "on" /\ t \notin Note.topics /\ Note.n < 5)
      /\ s = WILL => Succeeds(Step, Note)
  BY <1>1, ThreeSockets DEF Succeeds
<1>5. Succeeds(Step, Note) <=> link[s].up /\ ~refused
  <2>1. CASE s = SUB
    <3>1. CASE Note.sub = "on"
      <4>1. link[SUB].up /\ link[SUB].subs = Note.topics /\ Note.n \in 0..5
            /\ Cardinality(Note.topics) = Note.n
        BY <3>1, RightBefore DEF SubIs
      <4>2. QED
        BY <1>4, <2>1, <3>1, <4>1 DEF MQTT_TEST_LIST_MULTI
    <3>2. CASE Note.sub # "on"
      <4>1. ~link[SUB].up
        BY <3>2, RightBefore, ThreeSockets DEF SubIs
      <4>2. QED
        BY <1>4, <2>1, <3>2, <4>1
    <3>3. QED
      BY <3>1, <3>2
  <2>2. CASE s = WILL
    <3>1. Note.wil = "on"
      BY <1>2, <2>2, ThreeSockets DEF NeedsSubscribe
    <3>2. link[WILL].up /\ link[WILL].subs = {}
      BY <3>1, RightBefore DEF WillIs
    <3>3. ~refused
      BY <2>2, <3>2, NoFilters DEF MQTT_TEST_LIST_MULTI
    <3>4. QED
      BY <1>4, <2>2, <3>2, <3>3
  <2>3. QED
    BY <1>3, <2>1, <2>2
<1>6. CASE Succeeds(Step, Note)
  <2>1. /\ link' = [link EXCEPT ![s].subs = @ \cup {t},
                                ![s].inbox = IF retained.t = t
                                             THEN Append(@, retained) ELSE @]
        /\ Outcome(0)
    BY <1>3, <1>5, <1>6, FailsClosed DEF mqtt_test_subscribe
  <2>2. /\ link'[s].subs = link[s].subs \cup {t}
        /\ link'[s].inbox = IF retained.t = t THEN Append(link[s].inbox, retained)
                            ELSE link[s].inbox
        /\ link'[s].up /\ link'[s].open = link[s].open
        /\ \A x \in Sockets : x # s => link'[x] = link[x]
    <3> DEFINE k == link'[s]
               l == link[s]
               f == l.subs \cup {t}
               i == IF retained.t = t THEN Append(l.inbox, retained) ELSE l.inbox
    <3>1. /\ k = [l EXCEPT !.subs = f, !.inbox = i] /\ LinkShape(l) /\ l.up
          /\ \A x \in Sockets : x # s => link'[x] = link[x]
      BY <1>3, <1>5, <1>6, <2>1, RightBefore DEF Linked
    <3> HIDE DEF k, l, f, i
    <3>2. k = [open |-> l.open, up |-> l.up, subs |-> f, inbox |-> i]
      BY <3>1 DEF LinkShape
    <3>3. k.subs = f /\ k.inbox = i /\ k.up = l.up /\ k.open = l.open
      BY <3>2
    <3>4. QED
      BY <3>1, <3>3 DEF k, l, f, i
  <2>3. Stores(Step)
    BY <1>1 DEF Stores
  <2>4. /\ Advance(TRUE)
        /\ \A res : res = ThenRes(Step, Section.var, Note) => Good(res)'
    BY <1>1, <2>1, <2>3, SuccessStored
  <2>5. retained.t = t => /\ s = SUB /\ t = "RETAIN" /\ Note.due = "none"
                          /\ retained.qos = 0
    BY <1>2, ThreeSockets, RightBefore DEF NeedsSubscribe, Before, WorldInv, NoMessage, Message
  <2>6. ASSUME NEW c, Leads(Section.var, Step, Note, c) PROVE Right(c)'
    <3>1. /\ c.sub = Note.sub
          /\ c.topics = IF s = SUB THEN Note.topics \cup {t} ELSE Note.topics
          /\ c.n = IF s = SUB THEN Note.n + 1 ELSE Note.n
          /\ c.due = IF s = SUB /\ t = "RETAIN" THEN IF Note.kept THEN "kept" ELSE "some"
                     ELSE Note.due
          /\ c.pub = Note.pub
          /\ c.wil = IF s = WILL THEN "heard" ELSE Note.wil
          /\ c.last \in {"any", Note.last} /\ (c.kept => Note.kept)
      BY <1>1, <2>6, ThreeSockets
         DEF Leads, ThenSub, ThenTopics, ThenN, ThenDue, ThenPub, ThenWil, ThenLast, ThenKept
    <3>2. PubIs(c)' /\ LastIs(c)' /\ KeptIs(c)'
      <4>1. link'[PUB] = link[PUB]
        BY <1>3, <2>2, ThreeSockets
      <4>2. QED
        BY <1>1, <3>1, <4>1, RightBefore, PubKept, LastKept, KeptKept
    <3>3. CASE s = SUB
      <4>1. Note.sub = "on" /\ t \notin Note.topics /\ Note.n < 5
        BY <1>4, <1>6, <3>3
      <4>2. /\ link[SUB].up /\ link[SUB].subs = Note.topics /\ Note.n \in 0..5
            /\ IsFiniteSet(Note.topics) /\ Cardinality(Note.topics) = Note.n
            /\ Note.due = "none" => link[SUB].inbox = <<>>
            /\ Note.due = "pub" => link[SUB].inbox = <<Published>>
            /\ Note.due = "kept" => link[SUB].inbox = <<retained>>
            /\ Note.due = "some" => \/ link[SUB].inbox = <<>>
                                    \/ link[SUB].inbox = <<retained>> /\ retained.qos = 0
        BY <4>1, RightBefore DEF SubIs
      <4>3. /\ link'[SUB].up /\ link'[SUB].subs = c.topics /\ c.n \in 0..5
            /\ IsFiniteSet(c.topics) /\ Cardinality(c.topics) = c.n /\ c.sub = "on"
        <5>1. c.topics = Note.topics \cup {t} /\ c.n = Note.n + 1 /\ c.n \in 0..5
          BY <3>1, <3>3, <4>1, <4>2
        <5>2. IsFiniteSet(c.topics) /\ Cardinality(c.topics) = c.n
          <6> DEFINE ts == Note.topics
                     n == Note.n
          <6>1. IsFiniteSet(ts) /\ n \in 0..5 /\ Cardinality(ts) = n /\ t \notin ts
            BY <4>1, <4>2
          <6> HIDE DEF ts, n, t
          <6>2. IsFiniteSet(ts \cup {t}) /\ Cardinality(ts \cup {t}) = n + 1
            BY <6>1, OneMore
          <6>3. QED
            BY <5>1, <6>2 DEF ts, n
        <5>3. QED
          BY <2>2, <3>1, <3>3, <4>1, <4>2, <5>1, <5>2
      <4>4. CASE t = "RETAIN"
        <5>1. c.due = IF Note.kept THEN "kept" ELSE "some"
          BY <3>1, <3>3, <4>4
        <5>2. link[SUB].inbox = <<>>
          BY <1>2, <3>3, <4>2, <4>4, ThreeSockets DEF NeedsSubscribe
        <5>3. Note.kept => retained.t = t
          BY <4>4, RightBefore DEF KeptIs, Message
        <5>4. /\ retained.t = t => link'[SUB].inbox = <<retained>> /\ retained.qos = 0
              /\ retained.t # t => link'[SUB].inbox = <<>>
          BY <2>2, <2>5, <3>3, <5>2
        <5>5. QED
          <6>1. SubIs(c)'
            BY <1>1, <4>3, <5>1, <5>3, <5>4 DEF SubIs
          <6>2. WillIs(c)'
            <7>1. SameLink(WILL) /\ c.wil = Note.wil
              BY <2>2, <3>1, <3>3, ThreeSockets DEF SameLink
            <7>2. QED
              BY <1>1, <7>1, RightBefore, WillKept
          <6>3. QED
            BY <3>2, <6>1, <6>2 DEF Right
      <4>5. CASE t # "RETAIN"
        <5>1. c.due = Note.due /\ link'[SUB].inbox = link[SUB].inbox
          BY <2>2, <2>5, <3>1, <3>3, <4>5
        <5>2. Published' = Published
          BY <1>1, RightBefore DEF Published
        <5>3. SubIs(c)'
          BY <1>1, <4>2, <4>3, <5>1, <5>2 DEF SubIs
        <5>4. WillIs(c)'
          <6>1. SameLink(WILL) /\ c.wil = Note.wil
            BY <2>2, <3>1, <3>3, ThreeSockets DEF SameLink
          <6>2. QED
            BY <1>1, <6>1, RightBefore, WillKept
        <5>5. QED
          BY <3>2, <5>3, <5>4 DEF Right
      <4>6. QED
        BY <4>4, <4>5
    <3>4. CASE s = WILL
      <4>1. Note.wil = "on" /\ t = "WILL"
        BY <1>2, <3>4, ThreeSockets DEF NeedsSubscribe
      <4>2. link'[WILL].up /\ link'[WILL].subs = {"WILL"} /\ link'[WILL].inbox = <<>>
        BY <2>2, <2>5, <3>4, <4>1, ThreeSockets, RightBefore DEF WillIs
      <4>3. WillIs(c)'
        BY <3>1, <3>4, <4>2 DEF WillIs
      <4>4. SubIs(c)'
        <5>1. SameLink(SUB)
          BY <2>2, <3>4, ThreeSockets DEF SameLink
        <5>2. QED
          BY <1>1, <3>1, <3>4, <5>1, ThreeSockets, RightBefore, SubKept
      <4>5. QED
        BY <3>2, <4>3, <4>4 DEF Right
    <3>5. QED
      BY <1>3, <3>3, <3>4
  <2>7. Strongly(TRUE)
    BY <1>6, <2>4, <2>6 DEF Strongly
  <2>8. QED
    BY <2>7, Zenon
<1>7. CASE ~Succeeds(Step, Note)
  <2>1. Outcome(FAILURE) /\ UNCHANGED link
    BY <1>5, <1>7 DEF mqtt_test_subscribe
  <2>2. \A x \in Sockets : SameLink(x)
    BY <2>1 DEF SameLink
  <2>3. Strongly(FALSE)
    BY <1>1, <1>7, <2>1, <2>2, FailsStrongly
  <2>4. QED
    BY <2>3, Zenon
<1>8. QED
  BY <1>6, <1>7

(* Nothing arrives where nothing is due. *)
LEMMA NothingLeft ==
  /\ Len(<<>>) = 0
  /\ \A k \in 0..0 : k = 0 /\ SubSeq(<<>>, k + 1, 0) = <<>>
OBVIOUS

(* The end of a subscription while it is calm. *)
LEMMA UnsubscribeStrongly ==
  ASSUME Careful, mqtt_test_unsubscribe
  PROVE  \E ok \in BOOLEAN : Strongly(ok)
<1> DEFINE s == Step.s
           t == Step.t
<1>1. UNCHANGED <<willmes, sent, retained>> /\ Step.op = "unsubscribe"
  BY DEF mqtt_test_unsubscribe, At
<1>2. NeedsUnsubscribe(Step, Note)
  BY NeedsOf, RightBefore DEF mqtt_test_unsubscribe
<1>3. s \in {SUB, WILL} /\ s \in Sockets
  BY <1>2, ThreeSockets DEF NeedsUnsubscribe
<1>4. /\ s = SUB => (Succeeds(Step, Note) <=> Note.sub = "on" /\ t \in Note.topics)
      /\ s = WILL => Succeeds(Step, Note)
  BY <1>1, ThreeSockets DEF Succeeds
<1>5. /\ link[s].up => link[s].inbox = <<>> /\ (Succeeds(Step, Note) <=> t \in link[s].subs)
      /\ ~link[s].up => ~Succeeds(Step, Note)
  <2>1. CASE s = SUB
    <3>1. CASE Note.sub = "on"
      <4>1. link[SUB].up /\ link[SUB].subs = Note.topics /\ link[SUB].inbox = <<>>
        BY <1>2, <2>1, <3>1, RightBefore, ThreeSockets DEF SubIs, NeedsUnsubscribe
      <4>2. QED
        BY <1>4, <2>1, <3>1, <4>1
    <3>2. CASE Note.sub # "on"
      <4>1. ~link[SUB].up
        BY <3>2, RightBefore, ThreeSockets DEF SubIs
      <4>2. QED
        BY <1>4, <2>1, <3>2, <4>1
    <3>3. QED
      BY <3>1, <3>2
  <2>2. CASE s = WILL
    <3>1. Note.wil = "heard" /\ t = "WILL"
      BY <1>2, <2>2, ThreeSockets DEF NeedsUnsubscribe
    <3>2. link[WILL].up /\ link[WILL].subs = {"WILL"} /\ link[WILL].inbox = <<>>
      BY <3>1, RightBefore DEF WillIs
    <3>3. QED
      BY <1>4, <2>2, <3>1, <3>2
  <2>3. QED
    BY <1>3, <2>1, <2>2
<1>6. CASE link[s].up
  <2>1. PICK k \in 0..Len(link[s].inbox) :
                /\ last' = IF k = 0 THEN last
                           ELSE [recv |-> 1, msg |-> link[s].inbox[k]]
                /\ link' = [link EXCEPT ![s].subs = @ \ {t},
                                        ![s].inbox = SubSeq(@, k + 1, Len(@))]
    BY <1>3, <1>6, FailsClosed DEF mqtt_test_unsubscribe
  <2>2. k = 0 /\ SubSeq(link[s].inbox, k + 1, Len(link[s].inbox)) = <<>>
    BY <1>5, <1>6, NothingLeft
  <2>3. /\ link'[s].subs = link[s].subs \ {t} /\ link'[s].inbox = <<>>
        /\ link'[s].up /\ link'[s].up = link[s].up /\ link'[s].open = link[s].open
        /\ \A x \in Sockets : x # s => link'[x] = link[x]
    <3> DEFINE r == link'[s]
               l == link[s]
               f == l.subs \ {t}
               i == SubSeq(l.inbox, k + 1, Len(l.inbox))
    <3>1. /\ r = [l EXCEPT !.subs = f, !.inbox = i] /\ LinkShape(l) /\ l.up /\ i = <<>>
          /\ \A x \in Sockets : x # s => link'[x] = link[x]
      BY <1>3, <1>6, <2>1, <2>2, RightBefore DEF Linked
    <3> HIDE DEF r, l, f, i
    <3>2. r = [open |-> l.open, up |-> l.up, subs |-> f, inbox |-> i]
      BY <3>1 DEF LinkShape
    <3>3. r.subs = f /\ r.inbox = i /\ r.up = l.up /\ r.open = l.open
      BY <3>2
    <3>4. QED
      BY <3>1, <3>3 DEF r, l, f, i
  <2>4. last' = last
    BY <2>1, <2>2
  <2>5. CASE Succeeds(Step, Note)
    <3>1. Outcome(0)
      BY <1>3, <1>5, <1>6, <2>5, FailsClosed DEF mqtt_test_unsubscribe
    <3>2. Stores(Step)
      BY <1>1 DEF Stores
    <3>3. /\ Advance(TRUE)
          /\ \A res : res = ThenRes(Step, Section.var, Note) => Good(res)'
      BY <1>1, <3>1, <3>2, SuccessStored
    <3>4. ASSUME NEW c, Leads(Section.var, Step, Note, c) PROVE Right(c)'
      <4>1. /\ c.sub = Note.sub /\ c.due = Note.due /\ c.pub = Note.pub
            /\ c.topics = IF s = SUB THEN Note.topics \ {t} ELSE Note.topics
            /\ c.n = IF s = SUB THEN Note.n - 1 ELSE Note.n
            /\ c.wil = IF s = WILL THEN "on" ELSE Note.wil
            /\ c.last = "any" /\ (c.kept => Note.kept)
        BY <1>1, <3>4, ThreeSockets
           DEF Leads, ThenSub, ThenTopics, ThenN, ThenDue, ThenPub, ThenWil, ThenLast, ThenKept
      <4>2. PubIs(c)' /\ LastIs(c)' /\ KeptIs(c)'
        <5>1. link'[PUB] = link[PUB]
          BY <1>3, <2>3, ThreeSockets
        <5>2. QED
          BY <1>1, <2>4, <4>1, <5>1, RightBefore, PubKept, LastKept, KeptKept
      <4>3. SubIs(c)' /\ WillIs(c)'
        <5>1. CASE s = SUB
          <6>1. SameLink(WILL) /\ c.wil = Note.wil
            BY <2>3, <4>1, <5>1, ThreeSockets DEF SameLink
          <6>2. WillIs(c)'
            BY <1>1, <6>1, RightBefore, WillKept
          <6>3. Note.sub = "on" /\ t \in Note.topics /\ Note.due = "none"
            BY <1>2, <1>4, <2>5, <5>1, ThreeSockets DEF NeedsUnsubscribe
          <6>4. /\ link[SUB].subs = Note.topics /\ Note.n \in 0..5
                /\ IsFiniteSet(Note.topics) /\ Cardinality(Note.topics) = Note.n
            BY <6>3, RightBefore DEF SubIs
          <6>5. /\ IsFiniteSet(c.topics) /\ Cardinality(c.topics) = c.n /\ c.n \in 0..5
            <7> DEFINE ts == Note.topics
                       n == Note.n
            <7>1. /\ IsFiniteSet(ts) /\ n \in 0..5 /\ Cardinality(ts) = n /\ t \in ts
                  /\ c.topics = ts \ {t} /\ c.n = n - 1
              BY <4>1, <5>1, <6>3, <6>4
            <7> HIDE DEF ts, n, t
            <7>2. IsFiniteSet(ts \ {t}) /\ Cardinality(ts \ {t}) = n - 1 /\ n # 0
              BY <7>1, OneMore
            <7>3. QED
              BY <7>1, <7>2
          <6>6. SubIs(c)'
            BY <2>3, <4>1, <5>1, <6>3, <6>4, <6>5 DEF SubIs
          <6>7. QED
            BY <6>2, <6>6
        <5>2. CASE s = WILL
          <6>1. SameLink(SUB)
            BY <2>3, <5>2, ThreeSockets DEF SameLink
          <6>2. SubIs(c)'
            BY <1>1, <4>1, <5>2, <6>1, ThreeSockets, RightBefore, SubKept
          <6>3. Note.wil = "heard" /\ t = "WILL"
            BY <1>2, <5>2, ThreeSockets DEF NeedsUnsubscribe
          <6>4. link'[WILL].up /\ link'[WILL].subs = {} /\ link'[WILL].inbox = <<>>
            BY <2>3, <5>2, <6>3, RightBefore DEF WillIs
          <6>5. WillIs(c)'
            BY <4>1, <5>2, <6>4 DEF WillIs
          <6>6. QED
            BY <6>2, <6>5
        <5>3. QED
          BY <1>3, <5>1, <5>2
      <4>4. QED
        BY <4>2, <4>3 DEF Right
    <3>5. Strongly(TRUE)
      BY <2>5, <3>3, <3>4 DEF Strongly
    <3>6. QED
      BY <3>5, Zenon
  <2>6. CASE ~Succeeds(Step, Note)
    <3>1. Outcome(FAILURE)
      BY <1>5, <1>6, <2>6 DEF mqtt_test_unsubscribe
    <3>2. link'[s].subs = link[s].subs /\ link'[s].inbox = link[s].inbox
      BY <1>5, <1>6, <2>3, <2>6
    <3>3. \A x \in Sockets : SameLink(x)
      BY <1>6, <2>3, <3>2 DEF SameLink
    <3>4. Strongly(FALSE)
      BY <1>1, <2>6, <3>1, <3>3, FailsStrongly
    <3>5. QED
      BY <3>4, Zenon
  <2>7. QED
    BY <2>5, <2>6
<1>7. CASE ~link[s].up
  <2>1. Outcome(FAILURE) /\ UNCHANGED link
    BY <1>7 DEF mqtt_test_unsubscribe
  <2>2. \A x \in Sockets : SameLink(x)
    BY <2>1 DEF SameLink
  <2>3. Strongly(FALSE)
    BY <1>1, <1>5, <1>7, <2>1, <2>2, FailsStrongly
  <2>4. QED
    BY <2>3, Zenon
<1>8. QED
  BY <1>6, <1>7

(* A publish while it is calm reaches the filters that match its topic,     *)
(* ...                                                                      *)
LEMMA PublishStrongly ==
  ASSUME Careful, mqtt_test_publish
  PROVE  \E ok \in BOOLEAN : Strongly(ok)
<1> DEFINE s == Step.s
           t == Step.t
           m == Message(Step.t, randmes, Step.q, 0)
           k == [m EXCEPT !.retain = 1]
           matched == \E f \in Note.topics : Matches(f, t)
<1>1. UNCHANGED <<willmes, last>> /\ Step.op = "publish"
  BY DEF mqtt_test_publish, At
<1>2. NeedsPublish(test, Step, Note)
  BY NeedsOf, RightBefore DEF mqtt_test_publish
<1>3. s \in {SUB, PUB} /\ s \in Sockets /\ t # "WILL"
  BY <1>2, ThreeSockets DEF NeedsPublish
<1>4. Succeeds(Step, Note) <=> link[s].up
  <2>1. CASE s = SUB
    <3>1. Succeeds(Step, Note) <=> Note.sub = "on"
      BY <1>1, <2>1, ThreeSockets DEF Succeeds
    <3>2. Note.sub = "on" <=> link[SUB].up
      BY RightBefore, ThreeSockets DEF SubIs
    <3>3. QED
      BY <2>1, <3>1, <3>2
  <2>2. CASE s = PUB
    <3>1. Succeeds(Step, Note) <=> Note.pub = "on"
      BY <1>1, <2>2, ThreeSockets DEF Succeeds
    <3>2. Note.pub = "on" <=> link[PUB].up
      BY RightBefore DEF PubIs
    <3>3. QED
      BY <2>2, <3>1, <3>2
  <2>3. QED
    BY <1>3, <2>1, <2>2
<1>5. CASE Succeeds(Step, Note)
  <2>1. /\ link' = Distributed(link, m)
        /\ retained' = IF Step.r = 1 THEN k ELSE retained
        /\ sent' = <<m.t, m.body>>
        /\ Outcome(0)
    BY <1>3, <1>4, <1>5, FailsClosed DEF mqtt_test_publish
  <2>2. Stores(Step)
    BY <1>1 DEF Stores
  <2>3. /\ Advance(TRUE)
        /\ \A res : res = ThenRes(Step, Section.var, Note) => Good(res)'
    BY <1>1, <2>1, <2>2, SuccessStored
  <2>4. Note.due = "none" /\ Note.last \in {"any", "none"} /\ Step.q = QoS(test)
    BY <1>2, <1>5 DEF NeedsPublish
  <2>5. Published' = m /\ m.t = t /\ sent' = <<t, randmes>>
    BY <2>1, <2>4, RightBefore DEF Published, Message
  <2>6. Step.r = 1 => retained' = Message("RETAIN", sent'[2], 0, 1) /\ sent'[1] = "RETAIN"
    <3>1. Step.r = 1 => t = "RETAIN" /\ Step.q = 0
      BY <1>2, <2>4 DEF NeedsPublish, QoS
    <3>2. k = Message(t, randmes, Step.q, 1)
      BY DEF Message
    <3>3. QED
      BY <2>1, <2>5, <3>1, <3>2
  <2>7. /\ link'[SUB].open = link[SUB].open /\ link'[SUB].up = link[SUB].up
        /\ link'[SUB].subs = link[SUB].subs
        /\ link'[SUB].inbox = IF link[SUB].up /\ \E f \in link[SUB].subs : Matches(f, t)
                              THEN Append(link[SUB].inbox, m) ELSE link[SUB].inbox
    <3> HIDE DEF m
    <3>1. LET d == Distributed(link, m) IN
          /\ d[SUB].open = link[SUB].open /\ d[SUB].up = link[SUB].up
          /\ d[SUB].subs = link[SUB].subs
          /\ d[SUB].inbox = IF link[SUB].up /\ \E f \in link[SUB].subs : Matches(f, m.t)
                            THEN Append(link[SUB].inbox, m) ELSE link[SUB].inbox
      BY RightBefore, ThreeSockets, DistributedTo
    <3>2. QED
      BY <2>1, <2>5, <3>1
  <2>8. link'[PUB].open = link[PUB].open /\ link'[PUB].up = link[PUB].up
    <3> HIDE DEF m
    <3> QED BY <2>1, RightBefore, ThreeSockets, DistributedTo
  <2>9. SameLink(WILL)
    <3> HIDE DEF m
    <3>1. ~\E f \in link[WILL].subs : Matches(f, m.t)
      BY <1>3, <2>5, RightBefore DEF Before, WorldInv, Matches
    <3>2. LET d == Distributed(link, m) IN
          /\ d[WILL].open = link[WILL].open /\ d[WILL].up = link[WILL].up
          /\ d[WILL].subs = link[WILL].subs
          /\ d[WILL].inbox = IF link[WILL].up /\ \E f \in link[WILL].subs : Matches(f, m.t)
                             THEN Append(link[WILL].inbox, m) ELSE link[WILL].inbox
      BY RightBefore, ThreeSockets, DistributedTo
    <3>3. QED
      BY <2>1, <3>1, <3>2 DEF SameLink
  <2>10. ASSUME NEW c, Leads(Section.var, Step, Note, c) PROVE Right(c)'
    <3>1. /\ c.sub = Note.sub /\ c.topics = Note.topics /\ c.n = Note.n
          /\ c.due = IF matched THEN "pub" ELSE "none"
          /\ c.pub = Note.pub /\ c.wil = Note.wil
          /\ c.last \in {"any", Note.last} /\ (c.kept => Step.r = 1)
      BY <1>1, <2>4, <2>10
         DEF Leads, ThenSub, ThenTopics, ThenN, ThenDue, ThenPub, ThenWil, ThenLast, ThenKept
    <3> HIDE DEF m, matched
    <3>2. PubIs(c)' /\ WillIs(c)'
      BY <1>1, <2>8, <2>9, <3>1, RightBefore, PubKept, WillKept
    <3>3. LastIs(c)'
      BY <1>1, <2>4, <3>1, RightBefore DEF LastIs
    <3>4. KeptIs(c)'
      BY <2>6, <3>1 DEF KeptIs
    <3>5. SubIs(c)'
      <4>1. CASE Note.sub = "on"
        <5>1. /\ link[SUB].up /\ link[SUB].subs = Note.topics /\ Note.n \in 0..5
              /\ IsFiniteSet(Note.topics) /\ Cardinality(Note.topics) = Note.n
              /\ link[SUB].inbox = <<>>
          BY <2>4, <4>1, RightBefore DEF SubIs
        <5>2. matched <=> link[SUB].up /\ \E f \in link[SUB].subs : Matches(f, t)
          BY <5>1 DEF matched
        <5>3. /\ matched => link'[SUB].inbox = <<m>> /\ c.due = "pub"
              /\ ~matched => link'[SUB].inbox = <<>> /\ c.due = "none"
          BY <2>7, <3>1, <5>1, <5>2
        <5>4. /\ c.sub = "on" /\ link'[SUB].up /\ link'[SUB].subs = c.topics /\ c.n \in 0..5
              /\ IsFiniteSet(c.topics) /\ Cardinality(c.topics) = c.n
          BY <2>7, <3>1, <4>1, <5>1
        <5>5. CASE matched
          <6>1. link'[SUB].inbox = <<Published'>> /\ c.due = "pub"
            BY <2>5, <5>3, <5>5
          <6>2. QED
            BY <5>4, <6>1 DEF SubIs
        <5>6. CASE ~matched
          <6>1. link'[SUB].inbox = <<>> /\ c.due = "none"
            BY <5>3, <5>6
          <6>2. QED
            BY <5>4, <6>1 DEF SubIs
        <5>7. QED
          BY <5>5, <5>6
      <4>2. CASE Note.sub # "on"
        BY <2>7, <3>1, <4>2, RightBefore DEF SubIs
      <4>3. QED
        BY <4>1, <4>2
    <3>6. QED
      BY <3>2, <3>3, <3>4, <3>5 DEF Right
  <2>11. Strongly(TRUE)
    BY <1>5, <2>3, <2>10 DEF Strongly
  <2>12. QED
    BY <2>11, Zenon
<1>6. CASE ~Succeeds(Step, Note)
  <2>1. Outcome(FAILURE) /\ UNCHANGED <<link, retained, sent>>
    BY <1>4, <1>6 DEF mqtt_test_publish
  <2>2. \A x \in Sockets : SameLink(x)
    BY <2>1 DEF SameLink
  <2>3. Strongly(FALSE)
    BY <1>1, <1>6, <2>1, <2>2, FailsStrongly
  <2>4. QED
    BY <2>3, Zenon
<1>7. QED
  BY <1>5, <1>6

(* ... and the wait lets the broker publish the will. *)
LEMMA UsleepStrongly ==
  ASSUME Careful, usleep
  PROVE  Strongly(TRUE)
<1> DEFINE links == [link EXCEPT ![PUB].up = FALSE]
<1>1. /\ UNCHANGED <<sent, retained, last, willmes, result, result2>> /\ Advance(TRUE)
      /\ Step.op = "usleep"
  BY DEF usleep, At
<1>2. /\ Note.pub = "on" /\ Note.wil = "heard" /\ Note.topics = {"DEF"}
      /\ Note.last # "will"
  BY <1>1, RightBefore DEF Before, Knows, Needs
<1>3. link[PUB].up /\ link[WILL].up /\ link[WILL].subs = {"WILL"} /\ link[WILL].inbox = <<>>
  BY <1>2, RightBefore DEF PubIs, WillIs
<1>4. link' = Distributed(links, Will)
  BY <1>3 DEF usleep, Will
<1>5. /\ Linked(links) /\ links[PUB].open = link[PUB].open /\ ~links[PUB].up
      /\ links[SUB] = link[SUB] /\ links[WILL] = link[WILL]
  <2> DEFINE k == links[PUB]
             l == link[PUB]
  <2>1. /\ Linked(link) /\ k = [l EXCEPT !.up = FALSE] /\ LinkShape(l)
        /\ \A x \in Sockets : x # PUB => links[x] = link[x]
        /\ links = [x \in Sockets |-> links[x]]
    BY ThreeSockets, RightBefore DEF Linked
  <2> HIDE DEF k, l, links
  <2>2. k = [open |-> l.open, up |-> FALSE, subs |-> l.subs, inbox |-> l.inbox]
    BY <2>1 DEF LinkShape
  <2>3. LinkShape(k) /\ k.open = l.open /\ ~k.up
    BY <2>2 DEF LinkShape
  <2>4. \A x \in Sockets : LinkShape(links[x])
    <3>1. \A x \in Sockets : LinkShape(link[x])
      BY <2>1 DEF Linked
    <3>2. QED
      BY <2>1, <2>3, <3>1 DEF k
  <2>5. QED
    BY <2>1, <2>3, <2>4, ThreeSockets DEF Linked, k, l
<1> HIDE DEF links
<1>6. Will.t = "WILL"
  BY DEF Will, Message
<1>7. SameLink(SUB) \/ Note.sub # "on"
  <2>1. ASSUME Note.sub = "on" PROVE ~\E f \in links[SUB].subs : Matches(f, Will.t)
    <3>1. links[SUB].subs = {"DEF"}
      BY <1>2, <1>5, <2>1, RightBefore DEF SubIs
    <3>2. ~Matches("DEF", "WILL")
      BY DEF Matches
    <3>3. QED
      BY <1>6, <3>1, <3>2
  <2>2. /\ link'[SUB].open = links[SUB].open /\ link'[SUB].up = links[SUB].up
        /\ link'[SUB].subs = links[SUB].subs
        /\ link'[SUB].inbox =
              IF links[SUB].up /\ \E f \in links[SUB].subs : Matches(f, Will.t)
              THEN Append(links[SUB].inbox, Will) ELSE links[SUB].inbox
    BY <1>4, <1>5, ThreeSockets, DistributedTo
  <2>3. QED
    BY <1>5, <2>1, <2>2 DEF SameLink
<1>8. link'[SUB].open = link[SUB].open
  BY <1>4, <1>5, ThreeSockets, DistributedTo
<1>9. link'[PUB].open = link[PUB].open /\ ~link'[PUB].up
  BY <1>4, <1>5, ThreeSockets, DistributedTo
<1>10. link'[WILL].up /\ link'[WILL].subs = {"WILL"} /\ link'[WILL].inbox = <<Will>>
  <2>1. \E f \in links[WILL].subs : Matches(f, Will.t)
    BY <1>3, <1>5, <1>6 DEF Matches
  <2>2. /\ link'[WILL].up = links[WILL].up /\ link'[WILL].subs = links[WILL].subs
        /\ link'[WILL].inbox =
              IF links[WILL].up /\ \E f \in links[WILL].subs : Matches(f, Will.t)
              THEN Append(links[WILL].inbox, Will) ELSE links[WILL].inbox
    BY <1>4, <1>5, ThreeSockets, DistributedTo
  <2>3. QED
    BY <1>3, <1>5, <2>1, <2>2
<1>11. Succeeds(Step, Note) /\ ~Stores(Step)
  BY <1>1 DEF Succeeds, Stores
<1>12. \A res : res = ThenRes(Step, Section.var, Note) => Good(res)'
  BY <1>1, <1>11, NothingStored
<1>13. ASSUME NEW c, Leads(Section.var, Step, Note, c) PROVE Right(c)'
  <2>1. /\ c.sub = Note.sub /\ c.topics = Note.topics /\ c.n = Note.n
        /\ c.due = Note.due /\ c.pub = "down" /\ c.wil = "due"
        /\ c.last \in {"any", Note.last} /\ (c.kept => Note.kept)
    BY <1>1, <1>13
       DEF Leads, ThenSub, ThenTopics, ThenN, ThenDue, ThenPub, ThenWil, ThenLast, ThenKept
  <2>2. LastIs(c)' /\ KeptIs(c)'
    BY <1>1, <2>1, RightBefore, LastKept, KeptKept
  <2>3. PubIs(c)'
    BY <1>9, <2>1 DEF PubIs
  <2>4. WillIs(c)'
    <3>1. Will' = Will
      BY <1>1 DEF Will
    <3>2. QED
      BY <1>10, <2>1, <3>1 DEF WillIs
  <2>5. SubIs(c)'
    <3>1. CASE Note.sub = "on"
      BY <1>1, <1>7, <2>1, <3>1, RightBefore, SubKept
    <3>2. CASE Note.sub # "on"
      BY <1>8, <2>1, <3>2, RightBefore DEF SubIs
    <3>3. QED
      BY <3>1, <3>2
  <2>6. QED
    BY <2>2, <2>3, <2>4, <2>5 DEF Right
<1>14. QED
  BY <1>1, <1>11, <1>12, <1>13 DEF Strongly

(* A yield while it is calm hands over exactly what is due, ... *)
LEMMA YieldStrongly ==
  ASSUME Careful, mqtt_test_yield
  PROVE  Strongly(TRUE)
<1> DEFINE s == Step.s
           q == link[s].inbox
<1>1. UNCHANGED <<willmes, sent, retained>> /\ Step.op = "yield"
  BY DEF mqtt_test_yield, At
<1>2. NeedsYield(Step, Note)
  BY NeedsOf, RightBefore DEF mqtt_test_yield
<1>3. s \in Sockets /\ link[s].up
  BY <1>2, ThreeSockets, RightBefore DEF NeedsYield, SubIs, PubIs, WillIs
<1>4. PICK k \in 0..Len(q) : Arrived(s, k) /\ disturbed' = (disturbed \/ k < Len(q))
  BY <1>3, FailsClosed DEF mqtt_test_yield
<1>5. Outcome(0)
  BY <1>3, FailsClosed DEF mqtt_test_yield
<1>6. q \in Seq(Items(q)) /\ Len(q) \in Nat
  <2>1. q \in Seq(Items(q))
    BY <1>3, RightBefore DEF Before, WorldInv, Inbox
  <2> HIDE DEF q
  <2>2. QED
    BY <2>1, OwnItems
<1>7. k = Len(q)
  <2>1. ~disturbed'
    BY DEF Careful, Calm
  <2>2. ~(k < Len(q))
    BY <1>4, <2>1, Zenon
  <2> HIDE DEF q
  <2>3. QED
    BY <1>4, <1>6, <2>2
<1>8. SubSeq(q, k + 1, Len(q)) = <<>>
  <2> HIDE DEF q
  <2>1. k \in 0..Len(q)
    BY <1>4
  <2>2. QED
    BY <1>6, <1>7, <2>1, RestItems
<1>9. /\ link'[s].open = link[s].open /\ link'[s].up = link[s].up
      /\ link'[s].subs = link[s].subs /\ link'[s].inbox = <<>>
      /\ \A x \in Sockets : x # s => link'[x] = link[x]
  <2> DEFINE r == link'[s]
             l == link[s]
             i == SubSeq(l.inbox, k + 1, Len(l.inbox))
  <2>1. /\ r = [l EXCEPT !.inbox = i] /\ LinkShape(l) /\ i = <<>>
        /\ \A x \in Sockets : x # s => link'[x] = link[x]
    BY <1>3, <1>4, <1>8, RightBefore DEF Linked, Arrived
  <2> HIDE DEF r, l, i
  <2>2. r = [open |-> l.open, up |-> l.up, subs |-> l.subs, inbox |-> i]
    BY <2>1 DEF LinkShape
  <2>3. r.open = l.open /\ r.up = l.up /\ r.subs = l.subs /\ r.inbox = i
    BY <2>2
  <2>4. QED
    BY <2>1, <2>3 DEF r, l, i
<1>10. /\ q = <<>> => last' = last
       /\ \A x : q = <<x>> => last'.recv = 1 /\ last'.msg = x
  <2>1. last' = IF k = 0 THEN last ELSE [recv |-> 1, msg |-> q[k]]
    BY <1>4 DEF Arrived
  <2> HIDE DEF q
  <2>2. QED
    BY <1>7, <2>1
<1>11. Stores(Step) /\ Succeeds(Step, Note)
  BY <1>1 DEF Stores, Succeeds
<1>12. /\ Advance(TRUE)
       /\ \A res : res = ThenRes(Step, Section.var, Note) => Good(res)'
  BY <1>1, <1>5, <1>11, SuccessStored
<1>13. Published' = Published /\ Will' = Will
  BY <1>1, RightBefore DEF Published, Will
<1>14. ASSUME NEW c, Leads(Section.var, Step, Note, c) PROVE Right(c)'
  <2>1. /\ c.sub = Note.sub /\ c.topics = Note.topics /\ c.n = Note.n
        /\ c.due = IF s = SUB THEN "none" ELSE Note.due
        /\ c.pub = Note.pub
        /\ c.wil = IF s = WILL THEN "heard" ELSE Note.wil
        /\ c.last \in {"any", IF s = WILL THEN "will"
                              ELSE IF s # SUB \/ Note.due = "none" THEN Note.last
                              ELSE IF Note.due = "some" THEN "first" ELSE Note.due}
        /\ (c.kept => Note.kept)
    BY <1>1, <1>14, ThreeSockets
       DEF Leads, ThenSub, ThenTopics, ThenN, ThenDue, ThenPub, ThenWil, ThenLast, ThenKept
  <2> HIDE DEF s
  <2>2. KeptIs(c)'
    BY <1>1, <2>1, RightBefore, KeptKept
  <2>3. PubIs(c)'
    <3>1. link'[PUB].open = link[PUB].open /\ link'[PUB].up = link[PUB].up
      BY <1>9, ThreeSockets
    <3>2. QED
      BY <2>1, <3>1, RightBefore, PubKept
  <2>4. CASE s = SUB
    <3>1. WillIs(c)'
      <4>1. SameLink(WILL) /\ c.wil = Note.wil
        BY <1>9, <2>1, <2>4, ThreeSockets DEF SameLink
      <4>2. QED
        BY <1>1, <4>1, RightBefore, WillKept
    <3>2. Note.sub = "on"
      BY <1>2, <2>4, ThreeSockets DEF NeedsYield, s
    <3>3. /\ link[SUB].up /\ link[SUB].subs = Note.topics /\ Note.n \in 0..5
          /\ IsFiniteSet(Note.topics) /\ Cardinality(Note.topics) = Note.n
          /\ Note.due = "none" => q = <<>>
          /\ Note.due = "pub" => q = <<Published>>
          /\ Note.due = "kept" => q = <<retained>>
          /\ Note.due = "some" => q = <<>> \/ (q = <<retained>> /\ retained.qos = 0)
      BY <2>4, <3>2, RightBefore DEF SubIs
    <3>4. SubIs(c)'
      BY <1>9, <2>1, <2>4, <3>2, <3>3 DEF SubIs
    <3>5. LastIs(c)'
      <4> HIDE DEF q
      <4>1. /\ Note.due \in {"none", "pub", "kept", "some"}
            /\ (Note.last = "none" /\ Note.due # "some") \/ (Note.due = "some" /\ Note.last = "first")
        BY <1>2, <2>4, ThreeSockets DEF NeedsYield, s
      <4>2. CASE Note.due = "none"
        <5>1. last'.recv = 0 /\ c.last \in {"any", "none"}
          BY <1>10, <2>1, <2>4, <3>3, <4>1, <4>2, RightBefore, ThreeSockets DEF LastIs
        <5>2. QED
          BY <5>1 DEF LastIs
      <4>3. CASE Note.due = "pub"
        <5>1. last'.recv = 1 /\ last'.msg = Published' /\ c.last \in {"any", "pub"}
          BY <1>10, <1>13, <2>1, <2>4, <3>3, <4>3, ThreeSockets
        <5>2. QED
          BY <5>1 DEF LastIs
      <4>4. CASE Note.due = "kept"
        <5>1. last'.recv = 1 /\ last'.msg = retained' /\ c.last \in {"any", "kept"}
          BY <1>1, <1>10, <2>1, <2>4, <3>3, <4>4, ThreeSockets
        <5>2. QED
          BY <5>1 DEF LastIs
      <4>5. CASE Note.due = "some"
        <5>1. c.last \in {"any", "first"}
          BY <2>1, <2>4, <4>5, ThreeSockets
        <5>2. last'.recv = 1 => last'.msg.qos = 0
          BY <1>10, <3>3, <4>1, <4>5, RightBefore DEF LastIs
        <5>3. QED
          BY <5>1, <5>2 DEF LastIs
      <4>6. QED
        BY <4>1, <4>2, <4>3, <4>4, <4>5
    <3>6. QED
      BY <2>2, <2>3, <3>1, <3>4, <3>5 DEF Right
  <2>5. CASE s = PUB
    <3>1. SameLink(SUB) /\ SameLink(WILL) /\ q = <<>>
      BY <1>9, <2>5, ThreeSockets, RightBefore DEF SameLink, Before, WorldInv
    <3>2. SubIs(c)' /\ WillIs(c)'
      BY <1>1, <2>1, <2>5, <3>1, ThreeSockets, RightBefore, SubKept, WillKept
    <3>3. last' = last /\ c.last \in {"any", Note.last}
      BY <1>10, <2>1, <2>5, <3>1, ThreeSockets
    <3>4. LastIs(c)'
      BY <1>1, <3>3, RightBefore, LastKept
    <3>5. QED
      BY <2>2, <2>3, <3>2, <3>4 DEF Right
  <2>6. CASE s = WILL
    <3>1. SameLink(SUB)
      BY <1>9, <2>6, ThreeSockets DEF SameLink
    <3>2. SubIs(c)'
      BY <1>1, <2>1, <2>6, <3>1, ThreeSockets, RightBefore, SubKept
    <3>3. Note.wil = "due"
      BY <1>2, <2>6, ThreeSockets DEF NeedsYield, s
    <3>4. link[WILL].up /\ link[WILL].subs = {"WILL"} /\ q = <<Will>>
      BY <2>6, <3>3, RightBefore DEF WillIs
    <3>5. WillIs(c)'
      BY <1>9, <2>1, <2>6, <3>4 DEF WillIs
    <3>6. last'.recv = 1 /\ last'.msg = Will' /\ c.last \in {"any", "will"}
      BY <1>10, <1>13, <2>1, <2>6, <3>4
    <3>7. LastIs(c)'
      BY <3>6 DEF LastIs
    <3>8. QED
      BY <2>2, <2>3, <3>2, <3>5, <3>7 DEF Right
  <2>7. QED
    BY <1>3, <2>4, <2>5, <2>6, ThreeSockets
<1>15. QED
  BY <1>11, <1>12, <1>14 DEF Strongly

(* ... and a comparison succeeds. *)
LEMMA CompareStrongly ==
  ASSUME Careful, mqtt_test_compare_last
  PROVE  Strongly(TRUE)
<1>1. /\ UNCHANGED <<randmes, willmes, sent, passed, link, retained, last>>
      /\ Step.op = "compare"
  BY DEF mqtt_test_compare_last, At
<1>2. NeedsCompare(test, Step, Note)
  BY NeedsOf, RightBefore DEF mqtt_test_compare_last
<1>3. Stores(Step) /\ Succeeds(Step, Note)
  BY <1>1 DEF Stores, Succeeds
<1>4. \A c : Leads(Section.var, Step, Note, c) => Right(c)'
  BY <1>1, NothingHappened
<1>5. CASE Step.what \in {"rand", "will"}
  <2>1. Outcome(Compared)
    BY <1>5 DEF mqtt_test_compare_last, Compared, Expected
  <2>2. Compared = 0
    <3>1. CASE Step.what = "will"
      <4>1. Note.last = "will" /\ Step.q = 0 /\ Step.r = 0
        BY <1>2, <3>1 DEF NeedsCompare
      <4>2. last.recv = 1 /\ last.msg = Will
        BY <4>1, RightBefore DEF LastIs
      <4>3. /\ last.msg.qos = 0 /\ last.msg.retain = 0 /\ last.msg.dup = 0
            /\ last.msg.body = willmes
        BY <4>2 DEF Will, Message
      <4>4. QED
        BY <3>1, <4>1, <4>2, <4>3 DEF Compared, Expected, ComparedLast
    <3>2. CASE Step.what = "rand"
      <4>1. Note.told = "passed" /\ Tells(Note.told)
        BY <1>2, <3>2, RightBefore, WeakParts DEF NeedsCompare, Before
      <4>2. Told
        BY <4>1, Zenon DEF Tells
      <4>3. randmes = sent[2]
        BY <4>2 DEF Told
      <4>4. CASE Note.last = "pub" /\ Step.q = QoS(test) /\ Step.r = 0
        <5>1. last.recv = 1 /\ last.msg = Published
          BY <4>4, RightBefore DEF LastIs
        <5>2. /\ last.msg.qos = Step.q /\ last.msg.retain = Step.r /\ last.msg.dup = 0
              /\ last.msg.body = randmes
          BY <4>3, <4>4, <5>1 DEF Published, Message
        <5>3. QED
          BY <3>2, <5>1, <5>2 DEF Compared, Expected, ComparedLast
      <4>5. CASE Note.last = "kept" /\ Note.kept /\ Step.q = 0 /\ Step.r = 1
        <5>1. last.recv = 1 /\ last.msg = retained
          BY <4>5, RightBefore DEF LastIs
        <5>2. retained = Message("RETAIN", sent[2], 0, 1)
          BY <4>5, RightBefore DEF KeptIs
        <5>3. /\ last.msg.qos = Step.q /\ last.msg.retain = Step.r /\ last.msg.dup = 0
              /\ last.msg.body = randmes
          BY <4>3, <4>5, <5>1, <5>2 DEF Message
        <5>4. QED
          BY <3>2, <5>1, <5>3 DEF Compared, Expected, ComparedLast
      <4>6. QED
        BY <1>2, <3>2, <4>4, <4>5 DEF NeedsCompare
    <3>3. QED
      BY <1>5, <3>1, <3>2
  <2>3. Outcome(0)
    BY <2>1, <2>2
  <2>4. /\ Advance(TRUE)
        /\ \A res : res = ThenRes(Step, Section.var, Note) => Good(res)'
    BY <1>3, <1>5, <2>3, SuccessStored
  <2>5. QED
    BY <1>3, <1>4, <2>4 DEF Strongly
<1>6. CASE Step.what = "none"
  <2>1. last.recv = 0
    BY <1>2, <1>6, RightBefore DEF NeedsCompare, LastIs
  <2>2. Compared = ERROR_COUNT
    BY <2>1 DEF Compared, ComparedLast
  <2>3. Outcome(0)
    BY <1>6, <2>2 DEF mqtt_test_compare_last, Compared, Expected
  <2>4. /\ Advance(TRUE)
        /\ \A res : res = ThenRes(Step, Section.var, Note) => Good(res)'
    BY <1>3, <1>6, <2>3, SuccessStored
  <2>5. QED
    BY <1>3, <1>4, <2>4 DEF Strongly
<1>7. CASE Step.what = "first"
  <2>1. Advance(Compared \in FirstAccepted) /\ Store(Compared)
    BY <1>7 DEF mqtt_test_compare_last, Compared, Expected
  <2>2. Note.last = "first" /\ Step.q = 0 /\ Step.r = 1
    BY <1>2, <1>7 DEF NeedsCompare
  <2>3. last.recv = 1 => last.msg.qos = 0
    BY <2>2, RightBefore DEF LastIs
  <2>4. /\ last.recv \in {0, 1} /\ last.msg.body \in Int
        /\ last.msg.retain = 1 => last.msg.body >= 1
        /\ last.msg.qos = 0 => last.msg.dup = 0
    BY InWorld, RightBefore DEF Before, WorldInv, Proper
  <2>5. Compared \in FirstAccepted
    BY <1>7, <2>2, <2>3, <2>4 DEF Compared, Expected, ComparedLast, FirstAccepted
  <2>6. Advance(TRUE)
    BY <2>1, <2>5 DEF Advance
  <2>7. ASSUME NEW res, res = ThenRes(Step, Section.var, Note) PROVE Good(res)'
    <3>1. res = IF Section.var = 1 THEN "any" ELSE Note.res
      BY <1>1, <1>3, <1>7, <2>7 DEF ThenRes
    <3>2. Section.var # 2
      BY <1>1, RightBefore, StepIsGood DEF Before, Running
    <3>3. result2' = result2 /\ (Section.var # 1 => result' = result)
      BY <2>1, <3>2 DEF Store
    <3>4. QED
      BY <3>1, <3>3, RightBefore DEF ResultIs, Good
  <2>8. QED
    BY <1>3, <1>4, <2>6, <2>7 DEF Strongly
<1>8. QED
  BY <1>2, <1>5, <1>6, <1>7 DEF NeedsCompare

(* Any step of a test while it is calm. *)
LEMMA StepStrongly ==
  ASSUME Careful, TestStep
  PROVE  \E ok \in BOOLEAN : Strongly(ok)
<1>1. Strongly(TRUE) => \E ok \in BOOLEAN : Strongly(ok)
  BY Zenon
<1>2. QED
  BY <1>1, ConnectStrongly, SubscribeStrongly, UnsubscribeStrongly, PublishStrongly,
     YieldStrongly, DisconnectStrongly, RandomStrongly, ResetStrongly, CompareStrongly,
     UsleepStrongly, CheckStrongly, Zenon DEF TestStep

-----------------------------------------------------------------------------
(* The verdict of every test is just. *)

(* What is known after a step that leaves things calm. *)
LEMMA GoesOnStrongly ==
  ASSUME Careful, NEW ok \in BOOLEAN, Strongly(ok), UNCHANGED main
  PROVE  StrongInv' /\ DoneInv'
<1>1. Onward(ok)
  BY AdvanceKnown DEF Careful, Before, Strongly
<1>2. ok <=> Succeeds(Step, Note)
  BY DEF Strongly
<1>3. CASE at' = Done
  <2>1. Ends(test, Section.var, Step, Note)
    BY <1>1, <1>2, <1>3 DEF Onward
  <2>2. CASE test \in NeedToFail
    <3>1. result' < 0
      <4>1. CASE ok
        <5>1. ThenRes(Step, Section.var, Note) = "bad"
          BY <1>2, <2>1, <2>2, <4>1 DEF Ends
        <5>2. QED
          BY <4>1, <5>1 DEF Strongly, Good
      <4>2. CASE ~ok
        BY <1>2, <2>1, <2>2, <4>2 DEF Ends, Strongly
      <4>3. QED
        BY <4>1, <4>2
    <3>2. QED
      BY <1>3, <2>2, <3>1 DEF StrongInv, Running, DoneInv, Careful
  <2>3. CASE test \notin NeedToFail
    <3>1. ok /\ ThenRes(Step, Section.var, Note) = "good"
      BY <1>2, <2>1, <2>3 DEF Ends
    <3>2. result' >= 0 /\ result2' >= 0
      BY <3>1 DEF Strongly, Good
    <3>3. QED
      BY <1>3, <2>3, <3>2 DEF StrongInv, Running, DoneInv, Careful
  <2>4. QED
    BY <2>2, <2>3
<1>4. CASE at' # Done
  <2>1. PICK c : c = Note'
    OBVIOUS
  <2>2. Strong(c)' /\ (Step'.op = "count" => cntc' = Step'.n)
    <3>1. CASE ok
      <4>1. Chain(test, Section.var, Step, Note, c) /\ Step'.op # "count"
        BY <1>1, <1>2, <1>4, <2>1, <3>1 DEF Onward, Refused
      <4>2. Leads(Section.var, Step, Note, c)
        BY <4>1 DEF Chain
      <4>3. Right(c)'
        BY <3>1, <4>2 DEF Strongly
      <4>4. ResultIs(c)'
        <5>1. PICK res : res = ThenRes(Step, Section.var, Note)
          OBVIOUS
        <5>2. Good(res)' /\ c.res \in {"any", res}
          BY <3>1, <4>2, <5>1 DEF Strongly, Leads
        <5>3. QED
          BY <5>2 DEF Good, ResultIs
      <4>5. QED
        BY <4>1, <4>3, <4>4 DEF Strong, Right
    <3>2. CASE ~ok
      <4>1. /\ Refused(test, Section.var, Step, Note, c)
            /\ Step'.op = "count" => cntc' = Step'.n
        BY <1>1, <1>2, <1>4, <2>1, <3>2 DEF Onward
      <4>2. /\ c.sub = Note.sub /\ c.topics = Note.topics /\ c.n = Note.n
            /\ c.due = Note.due /\ c.pub = Note.pub /\ c.wil = Note.wil
            /\ c.last = "any" /\ ~c.kept /\ Section.var # 2
            /\ c.res = IF Section.var = 1 THEN "bad" ELSE Note.res
        BY <4>1 DEF Refused
      <4>3. /\ SameLink(SUB) /\ SameLink(PUB) /\ SameLink(WILL)
            /\ UNCHANGED <<retained, sent, willmes, test>>
            /\ Section.var = 1 => result' < 0
            /\ Section.var # 1 => result' = result
            /\ result2' = result2
        BY <3>2, <4>2, ThreeSockets, RightBefore DEF Strongly
      <4>4. SubIs(c)' /\ WillIs(c)'
        BY <4>2, <4>3, RightBefore, SubKept, WillKept
      <4>5. PubIs(c)'
        BY <4>2, <4>3, RightBefore, PubKept DEF SameLink
      <4>6. LastIs(c)' /\ KeptIs(c)'
        BY <4>2 DEF LastIs, KeptIs
      <4>7. ResultIs(c)'
        BY <4>2, <4>3, RightBefore DEF ResultIs
      <4>8. QED
        BY <4>1, <4>4, <4>5, <4>6, <4>7 DEF Strong
    <3>3. QED
      BY <3>1, <3>2
  <2>3. Strong(Note)'
    BY <2>1, <2>2 DEF Strong, SubIs, PubIs, WillIs, LastIs, ResultIs, KeptIs
  <2>4. QED
    BY <1>4, <2>2, <2>3 DEF StrongInv, DoneInv
<1>5. QED
  BY <1>3, <1>4

(* What has disturbed a test stays. *)
LEMMA DisturbedStays ==
  ASSUME TestStep, disturbed
  PROVE  disturbed'
BY DEF TestStep, mqtt_test_connect, mqtt_test_subscribe, mqtt_test_unsubscribe,
   mqtt_test_publish, mqtt_test_yield, mqtt_test_disconnect, random_message,
   mqtt_test_reset_last, mqtt_test_compare_last, usleep, CheckResult, LibraryFails

(* A step of a test keeps the invariant. *)
LEMMA TestStepJust ==
  ASSUME VInv, TestInvariant, FlagsInvariant, SocketsInvariant, TestStep, TestInvariant'
  PROVE  VInv'
<1>1. main = "test" /\ UNCHANGED <<main, test, verdict, stale>>
  BY TestStepFrame DEF mainVars
<1>2. Running
  BY <1>1 DEF Running, TestStep, At, mqtt_test_connect, mqtt_test_subscribe,
     mqtt_test_unsubscribe, mqtt_test_publish, mqtt_test_yield,
     mqtt_test_disconnect, random_message, mqtt_test_reset_last,
     mqtt_test_compare_last, usleep, CheckResult
<1>3. Knows
  BY <1>2, HereIsKnown
<1>4. WorldInv /\ ClosedInv /\ WeakInv /\ StrongInv /\ VerdictInv /\ VerdictIsJust
  BY DEF VInv
<1>5. Before
  <2>1. Weak(Note)
    BY <1>2, <1>4, Zenon DEF WeakInv
  <2>2. ~mistaken
    BY <1>4 DEF VerdictIsJust, ComparedWithItsOwn
  <2>3. QED
    BY <1>2, <1>3, <1>4, <2>1, <2>2 DEF Before
<1>6. PICK ok \in BOOLEAN : Weakly(ok)
  BY <1>5, StepWeakly
<1>7. WorldInv' /\ ~mistaken'
  BY <1>6 DEF Weakly
<1>8. FreshInv' /\ WeakInv'
  BY <1>1, <1>4, <1>5, <1>6, GoesOnWeakly
<1>9. ClosedInv'
  BY <1>4, <1>5, StaysClosed
<1>10. VerdictInv' /\ ErrorHasCause'
  BY <1>1, <1>4 DEF VerdictInv, ErrorHasCause
<1>11. StrongInv' /\ DoneInv'
  <2>1. CASE Calm'
    <3>1. Calm
      BY <1>1, <2>1, DisturbedStays DEF Calm
    <3>2. Careful
      <4>1. Strong(Note) /\ (Step.op = "count" => cntc = Step.n)
        BY <1>2, <1>4, <3>1, Zenon DEF StrongInv
      <4>2. QED
        BY <1>1, <1>5, <2>1, <4>1 DEF Careful
    <3>3. PICK good \in BOOLEAN : Strongly(good)
      BY <3>2, StepStrongly
    <3>4. QED
      BY <1>1, <3>2, <3>3, GoesOnStrongly
  <2>2. CASE ~Calm'
    BY <2>2, Zenon DEF StrongInv, DoneInv
  <2>3. QED
    BY <2>1, <2>2
<1>12. QED
  BY <1>7, <1>8, <1>9, <1>10, <1>11, Zenon DEF VInv, VerdictIsJust, ComparedWithItsOwn

(* The invariant holds initially. *)
LEMMA InitJust == Init => VInv
<1> SUFFICES ASSUME Init PROVE VInv
  OBVIOUS
<1>1. \A s \in Sockets : Inbox(s) = {} /\ link[s].inbox \in Seq(Inbox(s))
  BY NoItems DEF Init, NoLink, Inbox
<1>2. /\ World = {NoMessage} /\ NoMessage.body = 0 /\ NoMessage.retain = -1
      /\ NoMessage.dup = 0
  BY <1>1, ThreeSockets DEF Init, World, NothingLast, NoMessage, Message
<1>3. WorldInv
  <2>1. link[WILL].subs = {} /\ link[PUB].subs = {} /\ link[PUB].inbox = <<>>
    BY ThreeSockets DEF Init, NoLink
  <2>2. now = 1 /\ randmes = 0 /\ willmes = 0 /\ last.recv = 0 /\ retained = NoMessage
    BY DEF Init, NothingLast
  <2>3. now \in Nat /\ now >= 1 /\ randmes \in 0..now /\ willmes \in 0..now
    BY <2>2
  <2>4. \A m \in World : m.body \in 0..now /\ Proper(m)
    BY <1>2, <2>2 DEF Proper
  <2>5. QED
    BY <1>1, <2>1, <2>2, <2>3, <2>4, ThreeSockets DEF WorldInv
<1>4. Fresh
  BY <1>2 DEF Init, Fresh, Older
<1>5. main = "shell" /\ verdict = "none" /\ ~mistaken
  BY DEF Init
<1>6. QED
  BY <1>3, <1>4, <1>5 DEF VInv, FreshInv, ClosedInv, WeakInv, StrongInv, DoneInv, Running,
     VerdictInv, VerdictIsJust, ComparedWithItsOwn, ErrorHasCause

(* Nothing happens to the messages. *)
LEMMA SameWorld ==
  ASSUME WorldInv, UNCHANGED <<now, passed, randmes, willmes, link, retained, last>>
  PROVE  WorldInv' /\ (Fresh => Fresh')
<1>1. Flow({NoMessage})
  BY NothingFlows
<1>2. WorldInv' /\ World' \subseteq World \cup {NoMessage}
  BY <1>1, QuietWorld
<1>3. QED
  BY <1>2, FreshKept

(* A command that is read, and a connection that is made or given up, keep  *)
(* it.                                                                      *)
LEMMA CommandJust ==
  ASSUME VInv, (\E arg \in Tests \cup {"off"} : mqtt_main(arg)) \/ Connected \/ Disconnected
  PROVE  VInv'
<1>1. /\ UNCHANGED testVars /\ main # "test" /\ main' # "test" /\ verdict' = "none"
  BY DEF mqtt_main, Connected, Disconnected, VInv, VerdictInv
<1>2. WorldInv' /\ Fresh'
  BY <1>1, SameWorld DEF testVars, VInv, FreshInv, Running
<1>3. ~mistaken'
  BY <1>1 DEF testVars, VInv, VerdictIsJust, ComparedWithItsOwn
<1>4. QED
  BY <1>1, <1>2, <1>3 DEF VInv, FreshInv, ClosedInv, WeakInv, StrongInv, DoneInv, Running,
     VerdictInv, VerdictIsJust, ComparedWithItsOwn, ErrorHasCause

(* The start of a test keeps it: what is known is what the outline starts   *)
(* from.                                                                    *)
LEMMA RunTestJust ==
  ASSUME VInv, TestInvariant, TestInvariant', SocketsInvariant, RunTest
  PROVE  VInv'
<1>1. /\ main = "run" /\ main' = "test" /\ at' = <<1, 1>> /\ result' = 0 /\ result2' = 0
      /\ UNCHANGED <<test, verdict, randmes, willmes, last, now, passed, link, retained,
                     sent, mistaken>>
      /\ stale' = (last.recv = 1 /\ last.msg.qos # 0)
  BY DEF RunTest
<1>2. WorldInv' /\ Fresh'
  BY <1>1, SameWorld DEF VInv, FreshInv, Running
<1>3. \A s \in Sockets : ~link'[s].open /\ ~link'[s].up
  BY <1>1 DEF SocketsInvariant, SocketInv, Linked, LinkShape
<1>4. Running' /\ at' # Done
  BY <1>1 DEF Running, Done
<1>5. test \in DOMAIN mqtttest_site /\ SoundTest(test, Sections, Outline[test])
  <2>1. test \in DOMAIN mqtttest_site
    BY <1>1, TestsAssumption DEF TestInvariant
  <2>2. QED
    BY <2>1, EverySound DEF Sections
<1>6. Outline[test][1][1] = Start(test) /\ Sections[1].steps[1].op # "count"
  BY <1>5 DEF SoundTest
<1>7. Note' = Start(test) /\ Step'.op # "count"
  BY <1>1, <1>6 DEF Note, Step, Section, Sections
<1> PICK c : c = Start(test)
  OBVIOUS
<1>8. /\ c.sub = "off" /\ c.pub = "off" /\ c.wil = "off" /\ c.told = "none"
      /\ c.last = IF test = "t16" THEN "first" ELSE "any"
      /\ c.kept = FALSE /\ c.res = "good"
  BY DEF Start, Known, Off
<1>9. Weak(c)'
  <2>1. Tells(c.told)'
    BY <1>2, <1>8, Zenon DEF Tells
  <2>2. LastWeak(c)'
    BY <1>8 DEF LastWeak
  <2>3. QED
    BY <2>1, <2>2, WeakParts
<1>10. ASSUME Calm' PROVE Strong(c)'
  <2>1. SubIs(c)' /\ PubIs(c)' /\ WillIs(c)'
    BY <1>3, <1>8, ThreeSockets DEF SubIs, PubIs, WillIs
  <2>2. LastIs(c)'
    BY <1>1, <1>8, <1>10 DEF LastIs, Calm
  <2>3. ResultIs(c)' /\ KeptIs(c)'
    BY <1>1, <1>8 DEF ResultIs, KeptIs
  <2>4. QED
    BY <2>1, <2>2, <2>3 DEF Strong
<1>11. Weak(Note)' /\ (Calm' => Strong(Note)')
  BY <1>7, <1>9, <1>10
     DEF Weak, Tells, Strong, SubIs, PubIs, WillIs, LastIs, ResultIs, KeptIs
<1>12. WeakInv' /\ StrongInv'
  BY <1>7, <1>11 DEF WeakInv, StrongInv
<1>13. verdict' = "none" /\ ~mistaken'
  BY <1>1 DEF VInv, VerdictInv, VerdictIsJust, ComparedWithItsOwn
<1>14. QED
  BY <1>1, <1>2, <1>3, <1>4, <1>12, <1>13 DEF VInv, FreshInv, ClosedInv, DoneInv,
     VerdictInv, VerdictIsJust, ComparedWithItsOwn, ErrorHasCause

(* The end of a test keeps it: the verdict is just. *)
LEMMA TestDoneJust ==
  ASSUME VInv, TestInvariant, SocketsInvariant, TestDone
  PROVE  VInv'
<1>1. /\ main = "test" /\ at = Done /\ main' = "shell"
      /\ UNCHANGED <<test, stale, disturbed, result, randmes, willmes, last, now, passed,
                     retained, sent, mistaken>>
      /\ verdict' = Verdict(IF result = 0 /\ result2 < 0 THEN result2 ELSE result)
  BY DEF TestDone
<1>2. WorldInv /\ Fresh /\ DoneInv /\ ~mistaken
  BY <1>1 DEF VInv, FreshInv, Running, VerdictIsJust, ComparedWithItsOwn
<1>3. ASSUME NEW s \in Sockets
      PROVE  /\ link'[s] = link[s] \/ (link'[s].inbox = <<>> /\ link'[s].subs = {})
  BY DEF TestDone, Finalize, NoLink
<1>4. Flow({NoMessage})
  <2>1. \A s \in Sockets : /\ link'[s].inbox \in Seq(Items(link'[s].inbox))
                           /\ \A m \in Items(link'[s].inbox) : m \in Items(link[s].inbox)
    BY <1>2, <1>3, LinksFlow
  <2>2. last'.recv \in {0, 1} /\ last'.msg \in World \cup {NoMessage}
    BY <1>1, <1>2, InWorld DEF WorldInv
  <2>3. link'[WILL].subs \subseteq {"WILL"} /\ link'[PUB].subs = {}
    BY <1>2, <1>3, ThreeSockets DEF WorldInv
  <2>4. QED
    BY <1>1, <2>1, <2>2, <2>3 DEF Flow
<1>5. WorldInv' /\ World' \subseteq World \cup {NoMessage}
  BY <1>1, <1>2, <1>4, QuietWorld
<1>6. Fresh'
  BY <1>1, <1>2, <1>5, FreshKept
<1>7. ErrorHasCause'
  <2>1. CASE Calm
    <3>1. IF test \in NeedToFail THEN result < 0 ELSE result >= 0 /\ result2 >= 0
      BY <1>1, <1>2, <2>1 DEF DoneInv
    <3>2. result \in Int /\ result2 \in Int
      BY DEF TestInvariant, Values, FAILURE
    <3>3. verdict' # "ERR"
      BY <1>1, <3>1, <3>2 DEF Verdict
    <3>4. QED
      BY <3>3 DEF ErrorHasCause
  <2>2. CASE ~Calm
    BY <1>1, <2>2 DEF Calm, ErrorHasCause
  <2>3. QED
    BY <2>1, <2>2
<1>8. QED
  BY <1>1, <1>2, <1>5, <1>6, <1>7 DEF VInv, FreshInv, ClosedInv, WeakInv, StrongInv, DoneInv,
     Running, VerdictInv, VerdictIsJust, ComparedWithItsOwn

(* A restart of the modem keeps it: it disturbs the test. *)
LEMMA RestartJust ==
  ASSUME VInv, SocketsInvariant, Restart
  PROVE  VInv'
<1>1. /\ disturbed'
      /\ UNCHANGED <<main, test, verdict, at, result, randmes, willmes, last, now, passed,
                     retained, sent, mistaken>>
  BY DEF Restart
<1>2. ASSUME NEW s \in Sockets
      PROVE  /\ link'[s].open = link[s].open /\ link'[s].subs = link[s].subs
             /\ link'[s].inbox = link[s].inbox
  <2> DEFINE k == link'[s]
             l == link[s]
  <2>1. k = [l EXCEPT !.up = FALSE] /\ LinkShape(l)
    BY DEF Restart, SocketsInvariant, Linked
  <2> HIDE DEF k, l
  <2>2. k = [open |-> l.open, up |-> FALSE, subs |-> l.subs, inbox |-> l.inbox]
    BY <2>1 DEF LinkShape
  <2>3. k.open = l.open /\ k.subs = l.subs /\ k.inbox = l.inbox
    BY <2>2
  <2>4. QED
    BY <2>3 DEF k, l
<1>3. WorldInv
  BY DEF VInv
<1>4. Flow({NoMessage})
  <2>1. \A s \in Sockets : /\ link'[s].inbox \in Seq(Items(link'[s].inbox))
                           /\ \A m \in Items(link'[s].inbox) : m \in Items(link[s].inbox)
    BY <1>2, <1>3, LinksFlow
  <2>2. last'.recv \in {0, 1} /\ last'.msg \in World \cup {NoMessage}
    BY <1>1, <1>3, InWorld DEF WorldInv
  <2>3. link'[WILL].subs \subseteq {"WILL"} /\ link'[PUB].subs = {}
    BY <1>2, <1>3, ThreeSockets DEF WorldInv
  <2>4. QED
    BY <1>1, <2>1, <2>2, <2>3 DEF Flow
<1>5. WorldInv' /\ World' \subseteq World \cup {NoMessage}
  BY <1>1, <1>3, <1>4, QuietWorld
<1>6. FreshInv'
  BY <1>1, <1>3, <1>5, FreshKept DEF VInv, FreshInv, Running
<1>7. ClosedInv'
  BY <1>1, <1>2 DEF VInv, ClosedInv
<1>8. WeakInv'
  <2>1. SUFFICES ASSUME Running' PROVE Weak(Note)'
    BY DEF WeakInv
  <2>2. PICK c : c = Note
    OBVIOUS
  <2>3. Weak(c)
    BY <1>1, <2>1, <2>2 DEF VInv, WeakInv, Running, Weak, Tells
  <2>4. Tells(c.told)'
    <3>1. Tells(c.told)
      BY <2>3, WeakParts
    <3>2. QED
      BY <1>1, <1>3, <1>5, <3>1, TellsKept
  <2>5. LastWeak(c)'
    <3>1. LastWeak(c)
      BY <2>3, WeakParts
    <3>2. QED
      BY <1>1, <3>1 DEF LastWeak
  <2>6. Weak(c)'
    BY <2>4, <2>5, WeakParts
  <2>7. c = Note'
    BY <1>1, <2>2 DEF Note
  <2>8. QED
    BY <2>6, <2>7 DEF Weak, Tells
<1>9. ~Calm'
  BY <1>1 DEF Calm
<1>10. VerdictInv' /\ ~mistaken'
  BY <1>1 DEF VInv, VerdictInv, VerdictIsJust, ComparedWithItsOwn
<1>11. QED
  BY <1>1, <1>5, <1>6, <1>7, <1>8, <1>9, <1>10 DEF VInv, StrongInv, DoneInv,
     VerdictIsJust, ComparedWithItsOwn, ErrorHasCause

(* A repeat of a message keeps it: the broker disturbs the test, and the    *)
(* repeat is of the same topic and value.                                   *)
LEMMA RedeliverJust ==
  ASSUME VInv, SocketsInvariant, Redeliver
  PROVE  VInv'
<1>1. /\ disturbed'
      /\ UNCHANGED <<main, test, verdict, at, result, randmes, willmes, last, now, passed,
                     retained, sent, mistaken>>
  BY DEF Redeliver
<1>2. WorldInv
  BY DEF VInv
<1> PICK s \in Sockets : \E i \in 1..Len(link[s].inbox) :
              /\ link[s].inbox[i].qos > 0
              /\ link' = [link EXCEPT ![s].inbox = Append(@, Repeat(link[s].inbox[i]))]
  BY DEF Redeliver
<1> PICK i \in 1..Len(link[s].inbox) :
              /\ link[s].inbox[i].qos > 0
              /\ link' = [link EXCEPT ![s].inbox = Append(@, Repeat(link[s].inbox[i]))]
  OBVIOUS
<1> DEFINE q == link[s].inbox
           m == q[i]
           r == Repeat(m)
           due == Append(q, r)
<1>3. m \in Items(q) /\ m \in World
  BY InWorld DEF Items
<1>4. r.t = m.t /\ r.body = m.body /\ r.qos = m.qos /\ r.retain = m.retain
  BY DEF Repeat, Message
<1>5. /\ link'[s].open = link[s].open /\ link'[s].subs = link[s].subs
      /\ link'[s].inbox = due
      /\ \A x \in Sockets : x # s => link'[x] = link[x]
  <2> DEFINE k == link'[s]
             l == link[s]
  <2>1. LinkShape(l) /\ k = [l EXCEPT !.inbox = due]
    BY DEF SocketsInvariant, Linked
  <2>2. \A x \in Sockets : x # s => link'[x] = link[x]
    BY DEF SocketsInvariant, Linked
  <2> HIDE DEF k, l, due
  <2>3. k = [open |-> l.open, up |-> l.up, subs |-> l.subs, inbox |-> due]
    BY <2>1 DEF LinkShape
  <2>4. k.open = l.open /\ k.subs = l.subs /\ k.inbox = due
    BY <2>3
  <2>5. QED
    BY <2>2, <2>4 DEF k, l
<1>6. due \in Seq(Items(due)) /\ Items(due) \subseteq Items(q) \cup {r}
  <2>1. q \in Seq(Items(q))
    BY <1>2 DEF WorldInv, Inbox
  <2> HIDE DEF q, r
  <2>2. QED
    BY <2>1, MoreItems
<1>7. s # PUB /\ (s = WILL => r.t = "WILL")
  <2>1. s # PUB
    BY <1>2, <1>3, NoItems DEF WorldInv
  <2>2. s = WILL => m.t = "WILL"
    BY <1>2, <1>3 DEF WorldInv, Inbox
  <2>3. QED
    BY <1>4, <2>1, <2>2
<1>8. Flow({r})
  <2>1. ASSUME NEW x \in Sockets
        PROVE  /\ link'[x].inbox \in Seq(Items(link'[x].inbox))
               /\ \A y \in Items(link'[x].inbox) :
                     \/ y \in Items(link[x].inbox)
                     \/ y \in {r} /\ x # PUB /\ (x = WILL => y.t = "WILL")
    <3>1. CASE x = s
      <4> HIDE DEF r, due
      <4> QED BY <1>5, <1>6, <1>7, <3>1 DEF q
    <3>2. CASE x # s
      BY <1>2, <1>5, <3>2, LinksFlow
    <3>3. QED
      BY <3>1, <3>2
  <2>2. last'.recv \in {0, 1} /\ last'.msg \in World \cup {r}
    BY <1>1, <1>2, InWorld DEF WorldInv
  <2>3. link'[WILL].subs \subseteq {"WILL"} /\ link'[PUB].subs = {}
    BY <1>2, <1>5, ThreeSockets DEF WorldInv
  <2> HIDE DEF r
  <2>4. QED
    BY <1>1, <2>1, <2>2, <2>3 DEF Flow
<1>9. r.body \in 0..now' /\ Proper(r)
  BY <1>1, <1>2, <1>3, <1>4 DEF WorldInv, Proper
<1>10. WorldInv' /\ World' \subseteq World \cup {r}
  <2>1. Clock
    BY <1>1, <1>2, SameClock
  <2> HIDE DEF r
  <2>2. QED
    BY <1>2, <1>8, <1>9, <2>1, WorldStep
<1>11. \A x \in World' : \E y \in World : x.t = y.t /\ x.body = y.body
  <2> HIDE DEF r, m
  <2> QED BY <1>3, <1>4, <1>10
<1>12. (Older => Older') /\ (Told => Told')
  BY <1>1, <1>11 DEF Older, Told
<1>13. FreshInv'
  BY <1>1, <1>12 DEF VInv, FreshInv, Fresh, Running
<1>14. ClosedInv'
  BY <1>1, <1>5 DEF VInv, ClosedInv
<1>15. WeakInv'
  <2>1. SUFFICES ASSUME Running' PROVE Weak(Note)'
    BY DEF WeakInv
  <2>2. PICK c : c = Note
    OBVIOUS
  <2>3. Weak(c)
    BY <1>1, <2>1, <2>2 DEF VInv, WeakInv, Running, Weak, Tells
  <2>4. Tells(c.told)'
    <3>1. Tells(c.told)
      BY <2>3, WeakParts
    <3>2. QED
      BY <1>1, <1>12, <3>1 DEF Tells, Fresh
  <2>5. LastWeak(c)'
    <3>1. LastWeak(c)
      BY <2>3, WeakParts
    <3>2. QED
      BY <1>1, <3>1 DEF LastWeak
  <2>6. Weak(c)'
    BY <2>4, <2>5, WeakParts
  <2>7. c = Note'
    BY <1>1, <2>2 DEF Note
  <2>8. QED
    BY <2>6, <2>7 DEF Weak, Tells
<1>16. ~Calm'
  BY <1>1 DEF Calm
<1>17. VerdictInv' /\ ~mistaken'
  BY <1>1 DEF VInv, VerdictInv, VerdictIsJust, ComparedWithItsOwn
<1>18. QED
  BY <1>1, <1>10, <1>13, <1>14, <1>15, <1>16, <1>17 DEF VInv, StrongInv, DoneInv,
     VerdictIsJust, ComparedWithItsOwn, ErrorHasCause

(* Every step keeps the invariant. *)
LEMMA NextJust ==
  ASSUME VInv, TestInvariant, FlagsInvariant, SocketsInvariant, [Next]_vars, TestInvariant'
  PROVE  VInv'
<1>1. CASE (\E arg \in Tests \cup {"off"} : mqtt_main(arg)) \/ Connected \/ Disconnected
  BY <1>1, CommandJust
<1>2. CASE RunTest
  BY <1>2, RunTestJust
<1>3. CASE TestStep
  BY <1>3, TestStepJust
<1>4. CASE TestDone
  BY <1>4, TestDoneJust
<1>5. CASE Restart \/ Redeliver
  BY <1>5, RestartJust, RedeliverJust
<1>6. CASE (AppStep /\ UNCHANGED mqttVars) \/ Library \/ Modem \/ UNCHANGED vars
  <2>1. UNCHANGED mqttVars
    BY <1>6 DEF Library, Modem, vars
  <2>2. UNCHANGED <<main, test, at, cntc, result, result2, verdict, randmes, willmes, last,
                    now, passed, link, retained, sent, mistaken, disturbed, stale>>
    BY <2>1 DEF mqttVars
  <2>3. WorldInv' /\ FreshInv'
    BY <2>2, SameWorld DEF VInv, FreshInv, Running
  <2>4. WeakInv' /\ StrongInv'
    <3>1. PICK c : c = Note
      OBVIOUS
    <3>2. Note' = Note /\ Step' = Step
      BY <2>2 DEF Note, Step, Section, Sections
    <3>3. c = Note'
      BY <3>1, <3>2
    <3>4. ASSUME Weak(c) PROVE Weak(c)'
      <4>1. World' = World
        BY <2>2 DEF World, Inbox
      <4>2. Tells(c.told)'
        BY <2>2, <3>4, <4>1 DEF Weak, Tells, Fresh, Older, Told
      <4>3. LastWeak(c)'
        BY <2>2, <3>4 DEF Weak, LastWeak
      <4>4. QED
        BY <4>2, <4>3, WeakParts
    <3>5. ASSUME Strong(c) PROVE Strong(c)'
      <4>1. SameLink(SUB) /\ SameLink(PUB) /\ SameLink(WILL)
        BY <2>2 DEF SameLink
      <4>2. /\ SubIs(c) /\ PubIs(c) /\ WillIs(c) /\ LastIs(c) /\ ResultIs(c) /\ KeptIs(c)
        BY <3>5 DEF Strong
      <4>3. SubIs(c)'
        BY <2>2, <4>1, <4>2, SubKept
      <4>4. PubIs(c)' /\ WillIs(c)'
        BY <2>2, <4>1, <4>2, PubKept, WillKept
      <4>5. LastIs(c)' /\ KeptIs(c)'
        BY <2>2, <4>2, LastKept, KeptKept
      <4>6. ResultIs(c)'
        BY <2>2, <4>2 DEF ResultIs
      <4>7. QED
        BY <4>3, <4>4, <4>5, <4>6 DEF Strong
    <3>6. Weak(Note) => Weak(Note)'
      BY <3>1, <3>3, <3>4 DEF Weak, Tells
    <3>7. Strong(Note) => Strong(Note)'
      BY <3>1, <3>3, <3>5 DEF Strong, SubIs, PubIs, WillIs, LastIs, ResultIs, KeptIs
    <3>8. (Running' => Running) /\ (Calm' => Calm)
      BY <2>2 DEF Running, Calm
    <3>9. WeakInv'
      BY <3>6, <3>8 DEF VInv, WeakInv
    <3>10. (Step.op = "count" => cntc = Step.n)' <=> (Step.op = "count" => cntc = Step.n)
      BY <2>2, <3>2
    <3>11. StrongInv'
      BY <3>7, <3>8, <3>10 DEF VInv, StrongInv
    <3>12. QED
      BY <3>9, <3>11
  <2>5. ClosedInv' /\ DoneInv' /\ VerdictInv' /\ VerdictIsJust'
    BY <2>2 DEF VInv, ClosedInv, DoneInv, Calm, VerdictInv, VerdictIsJust,
       ComparedWithItsOwn, ErrorHasCause
  <2>6. QED
    BY <2>3, <2>4, <2>5 DEF VInv
<1>7. QED
  BY <1>1, <1>2, <1>3, <1>4, <1>5, <1>6 DEF Next, Application

(* A comparison succeeds only on the message the test has published in this *)
(* turn (or the will it has left), never on one of an earlier turn, of an   *)
(* earlier test or that the broker has retained; and a test is reported as  *)
(* [ERR] only if a call failed, the network was lost, a message came late   *)
(* or was sent again by the broker, or mqtttest_retain has found what       *)
(* another test has left.  For any number of turns, commands, restarts of   *)
(* the modem, repeats and failing calls.                                    *)
THEOREM VerdictJust == Spec => []VerdictIsJust
<1> DEFINE IInv == SocketsInvariant /\ TestInvariant /\ FlagsInvariant /\ VInv
<1>1. Init => IInv
  BY InitSockets, InitTest, InitJust
<1>2. IInv /\ [Next]_vars => IInv'
  BY NextSockets, NextTest, NextFlags, NextJust
<1>3. IInv => VerdictIsJust
  BY DEF VInv
<1>4. QED
  BY <1>1, <1>2, <1>3, PTL DEF Spec
=============================================================================

--------------------------- MODULE LteConnection ----------------------------
(***************************************************************************)
(* lte_connection.c of the MQTT test program (the AWS IoT, LwM2M and       *)
(* WebSocket programs carry the same file).  The application task makes    *)
(* calls to the LTE library that are answered by callbacks; the callbacks  *)
(* run in a thread of the library and hand their results over through one  *)
(* named message queue that holds a single message.  Every callback sends  *)
(* an int, except that of lte_activate_pdn, which sends a pointer.         *)
(* The library and the modem are external.                                 *)
(***************************************************************************)
EXTENDS Integers, Sequences

CONSTANTS MaxRestarts,      \* bound: restarts of the modem by itself
          MaxFaults,        \* bound: calls that fail
          SessionIds,       \* the PDN sessions the modem may open
          Invalid,          \* LTE_PDN_SESSIONID_INVALID_ID
          Garbage           \* what is read through a pointer that is none

APP_MAX_MQUEUE_MSG == 1

ASSUME LteConstants == /\ MaxRestarts \in Nat
                       /\ MaxFaults \in Nat
                       /\ Invalid \notin SessionIds
                       /\ Garbage \notin SessionIds \cup {Invalid}

VARIABLES pc,            \* where the application task is
          ret,           \* what the last call returned
          data_pdn_sid,
          mq,            \* the named queue
          cb,            \* the callback that runs, if any
          initialized,   \* the library
          modem,         \* power, radio, the open session
          requests,      \* asynchronous calls the modem has not answered
          events,        \* callbacks that are due, in order
          restarts, faults, dropped,
          \* Histories that end when the library is finalized:
          taken,         \* <<awaited, taken>> for every wait
          restarted,     \* the modem has restarted by itself
          orphaned,      \* lte_finalize has failed after an error, and the
                         \* library went on without the program
          leaked         \* a label was taken that does not finalize the library

lteVars == <<pc, ret, data_pdn_sid, mq, cb, initialized, modem, requests,
             events, restarts, faults, dropped, taken, restarted, orphaned, leaked>>

Callbacks == {"restart", "radio_on", "activate", "deactivate", "radio_off"}
Results == {0, 1}                                \* LTE_RESULT_OK, _ERROR
Events == [from : Callbacks, result : Results, sid : SessionIds \cup {Invalid}]
NoCallback == [phase |-> "none"]

(* Where a wait stands, and the callback it waits for. *)
Awaited == [wait_restart    |-> "restart",
            wait_radio_on   |-> "radio_on",
            wait_activate   |-> "activate",
            wait_deactivate |-> "deactivate",
            wait_radio_off  |-> "radio_off"]

Waits == DOMAIN Awaited

Places == {"idle", "mq_create", "initialize", "set_report_restart",
           "power_on", "set_report_localtime", "radio_on", "activate_pdn",
           "deactivate_pdn", "radio_off", "power_off", "finalize",
           "mq_delete", "err_lte_fin", "err_fin", "crashed"} \cup Waits

Down == [power |-> FALSE, radio |-> FALSE, pdn |-> Invalid]

LteInit ==
    /\ pc = "idle"
    /\ ret = -1
    /\ data_pdn_sid = Invalid
    /\ mq = [up |-> FALSE, msgs |-> <<>>]
    /\ cb = NoCallback
    /\ initialized = FALSE
    /\ modem = Down
    /\ requests = {}
    /\ events = <<>>
    /\ taken = {}
    /\ restarts = 0
    /\ faults = 0
    /\ dropped = FALSE
    /\ restarted = FALSE /\ orphaned = FALSE /\ leaked = FALSE

-----------------------------------------------------------------------------
(* The application task. *)

Goto(p) == pc' = p

(* History: since the library was last finalized something has come between *)
(* the calls of the program and their answers.                              *)
Disturbed == restarted \/ orphaned

(* A call that returns a negative value; the label may leave the library    *)
(* initialized.                                                             *)
FailsWith(label, leaks) ==
    /\ faults < MaxFaults
    /\ faults' = faults + 1
    /\ Goto(label)
    /\ leaked' = (leaked \/ leaks)
    /\ UNCHANGED <<ret, data_pdn_sid, mq, cb, initialized, modem, requests,
                   events, taken, restarts, dropped, restarted, orphaned>>

Fails(label) == FailsWith(label, FALSE)

Returns(value) ==
    /\ Goto("idle")
    /\ ret' = value

app_connect_to_lte ==
    /\ pc = "idle"
    /\ Goto("mq_create")
    /\ UNCHANGED <<ret, data_pdn_sid, mq, cb, initialized, modem, requests,
                   events, taken, restarts, faults, dropped, restarted, orphaned, leaked>>

app_disconnect_from_lte ==
    /\ pc = "idle"
    /\ Goto("deactivate_pdn")
    /\ UNCHANGED <<ret, data_pdn_sid, mq, cb, initialized, modem, requests,
                   events, taken, restarts, faults, dropped, restarted, orphaned, leaked>>

(* mq_open with O_CREAT opens the queue that is there already, if any. *)
app_mq_create ==
    /\ pc = "mq_create"
    /\ \/ /\ mq' = IF mq.up THEN mq ELSE [up |-> TRUE, msgs |-> <<>>]
          /\ Goto("initialize")
          /\ UNCHANGED <<ret, faults>>
       \/ /\ faults < MaxFaults
          /\ faults' = faults + 1
          /\ Returns(-1)
          /\ UNCHANGED mq
    /\ UNCHANGED <<data_pdn_sid, cb, initialized, modem, requests, events,
                   taken, restarts, dropped, restarted, orphaned, leaked>>

lte_initialize ==
    /\ pc = "initialize"
    /\ \/ /\ initialized' = TRUE
          /\ Goto("set_report_restart")
          /\ UNCHANGED <<ret, data_pdn_sid, mq, cb, modem, requests, events,
                         taken, restarts, faults, dropped, restarted, orphaned, leaked>>
       \/ Fails("err_fin")

(* A failure here goes to errout_with_fin: the library stays initialized. *)
lte_set_report_restart ==
    /\ pc = "set_report_restart"
    /\ \/ /\ Goto("power_on")
          /\ UNCHANGED <<ret, data_pdn_sid, mq, cb, initialized, modem,
                         requests, events, taken, restarts, faults, dropped,
                         restarted, orphaned, leaked>>
       \/ FailsWith("err_fin", TRUE)

lte_set_report_localtime ==
    /\ pc = "set_report_localtime"
    /\ \/ /\ Goto("radio_on")
          /\ UNCHANGED <<ret, data_pdn_sid, mq, cb, initialized, modem,
                         requests, events, taken, restarts, faults, dropped,
                         restarted, orphaned, leaked>>
       \/ Fails("err_lte_fin")

(* The asynchronous calls: the answer comes by a callback, later. *)
CallStep(from, request, to) ==
    /\ pc = from
    /\ \/ /\ requests' = requests \cup {request}
          /\ Goto(to)
          /\ UNCHANGED <<ret, data_pdn_sid, mq, cb, initialized, modem, events,
                         taken, restarts, faults, dropped, restarted, orphaned, leaked>>
       \/ Fails("err_lte_fin")

MutantPowerOnUnawaited == CallStep("power_on", "restart", "set_report_localtime")

lte_power_on == CallStep("power_on", "restart", "wait_restart")
lte_radio_on == CallStep("radio_on", "radio_on", "wait_radio_on")
lte_activate_pdn == CallStep("activate_pdn", "activate", "wait_activate")
lte_deactivate_pdn == CallStep("deactivate_pdn", "deactivate", "wait_deactivate")
lte_radio_off == CallStep("radio_off", "radio_off", "wait_radio_off")

MutantAfterWait == [wait_restart    |-> "set_report_localtime",
                    wait_radio_on   |-> "wait_activate",
                    wait_activate   |-> "idle",
                    wait_deactivate |-> "radio_off",
                    wait_radio_off  |-> "power_off"]

AfterWait == [wait_restart    |-> "set_report_localtime",
              wait_radio_on   |-> "activate_pdn",
              wait_activate   |-> "idle",
              wait_deactivate |-> "radio_off",
              wait_radio_off  |-> "power_off"]

(* The outcome of a wait: an error result ends the call, except that the    *)
(* reason of a restart is not looked at.                                    *)
AfterResult(at, result) ==
    IF result = 1 /\ at # "wait_restart" THEN "err_lte_fin" ELSE AfterWait[at]

(* app_wait_lte_callback.  A pointer taken for a result is not an error. *)
app_wait_lte_callback(at) ==
    /\ pc = at
    /\ \/ /\ mq.msgs # <<>>
          /\ LET m == Head(mq.msgs) IN
             /\ taken' = taken \cup {<<Awaited[at], m.from>>}
             /\ Goto(AfterResult(at, IF m.from = "activate" THEN 0 ELSE m.result))
          /\ mq' = [mq EXCEPT !.msgs = Tail(@)]
          /\ UNCHANGED <<ret, data_pdn_sid, cb, initialized, modem, requests,
                         events, restarts, faults, dropped, restarted, orphaned, leaked>>
       \/ Fails("err_lte_fin")

(* The parameter of the message is copied, also that of an error. *)
ReceivedSid(m) == m.sid

(* app_wait_lte_callback_with_parameter.  An int taken for a pointer is     *)
(* read through and freed: any result may come of it, or a crash.           *)
app_wait_lte_callback_with_parameter ==
    /\ pc = "wait_activate"
    /\ \/ /\ mq.msgs # <<>>
          /\ LET m == Head(mq.msgs) IN
             /\ taken' = taken \cup {<<"activate", m.from>>}
             /\ \/ /\ m.from = "activate"
                   /\ data_pdn_sid' = ReceivedSid(m)
                   /\ Goto(AfterResult(pc, m.result))
                   /\ ret' = IF m.result = 1 THEN ret ELSE 0
                \/ /\ m.from # "activate"
                   /\ \/ \E r \in Results :
                            /\ data_pdn_sid' = Garbage
                            /\ Goto(AfterResult(pc, r))
                            /\ ret' = IF r = 1 THEN ret ELSE 0
                      \/ Goto("crashed") /\ UNCHANGED <<ret, data_pdn_sid>>
          /\ mq' = [mq EXCEPT !.msgs = Tail(@)]
          /\ UNCHANGED <<cb, initialized, modem, requests, events, restarts,
                         faults, dropped, restarted, orphaned, leaked>>
       \/ Fails("err_lte_fin")

(* Power off: what has not been answered is cancelled. *)
lte_power_off ==
    /\ pc = "power_off"
    /\ \/ /\ modem' = Down
          /\ requests' = {}
          /\ events' = <<>>
          /\ Goto("finalize")
          /\ UNCHANGED <<ret, data_pdn_sid, mq, cb, initialized, taken,
                         restarts, faults, dropped, restarted, orphaned, leaked>>
       \/ Fails("err_lte_fin")

(* The library's thread ends, and the callback in it. *)
Finalized ==
    /\ initialized' = FALSE
    /\ modem' = Down
    /\ requests' = {}
    /\ events' = <<>>
    /\ cb' = NoCallback
    /\ taken' = {}
    /\ restarted' = FALSE /\ orphaned' = FALSE /\ leaked' = FALSE

lte_finalize ==
    /\ pc = "finalize"
    /\ \/ /\ Finalized
          /\ Goto("mq_delete")
          /\ UNCHANGED <<ret, data_pdn_sid, mq, restarts, faults, dropped>>
       \/ FailsWith("err_fin", TRUE)

(* errout_with_lte_fin: what lte_finalize returns is not looked at. *)
errout_with_lte_fin ==
    /\ pc = "err_lte_fin"
    /\ \/ Finalized /\ UNCHANGED faults
       \/ /\ faults < MaxFaults
          /\ faults' = faults + 1
          /\ orphaned' = TRUE
          /\ UNCHANGED <<initialized, modem, requests, events, cb, taken,
                         restarted, leaked>>
    /\ Goto("err_fin")
    /\ UNCHANGED <<ret, data_pdn_sid, mq, restarts, dropped>>

(* mq_unlink: a callback that has the queue open keeps it, unreachable. *)
app_mq_delete ==
    /\ pc \in {"mq_delete", "err_fin"}
    /\ mq' = [up |-> FALSE, msgs |-> <<>>]
    /\ cb' = IF cb.phase # "send" THEN cb
             ELSE IF Len(mq.msgs) = APP_MAX_MQUEUE_MSG THEN [phase |-> "stuck"]
             ELSE [phase |-> "vain"]
    /\ Returns(IF pc = "mq_delete" THEN 0 ELSE -1)
    /\ UNCHANGED <<data_pdn_sid, initialized, modem, requests, events, taken,
                   restarts, faults, dropped, restarted, orphaned, leaked>>

-----------------------------------------------------------------------------
(* The library's thread: app_restart_cb, app_radio_on_cb, app_radio_off_cb, *)
(* app_deactivate_pdn_cb (app_mq_notify_result) and app_activate_pdn_cb     *)
(* (app_mq_notify_parameter).                                               *)

(* The queue is opened by its name; when there is none, or when there is no *)
(* memory for the parameter, the callback ends without a message.           *)
CallbackOpens ==
    /\ cb.phase = "none"
    /\ events # <<>>
    /\ events' = Tail(events)
    /\ \/ /\ mq.up
          /\ cb' = [phase |-> "send", event |-> Head(events)]
          /\ UNCHANGED <<faults, dropped>>
       \/ /\ ~mq.up
          /\ dropped' = TRUE
          /\ UNCHANGED <<cb, faults>>
       \/ /\ faults < MaxFaults
          /\ faults' = faults + 1
          /\ dropped' = TRUE
          /\ UNCHANGED cb
    /\ UNCHANGED <<pc, ret, data_pdn_sid, mq, initialized, modem, requests,
                   taken, restarts, restarted, orphaned, leaked>>

MutantSendsAnyway ==
    /\ cb.phase = "send"
    /\ mq' = [mq EXCEPT !.msgs = Append(@, cb.event)]
    /\ cb' = NoCallback
    /\ UNCHANGED <<pc, ret, data_pdn_sid, initialized, modem, requests, events,
                   taken, restarts, faults, dropped, restarted, orphaned, leaked>>

(* mq_send blocks while the queue is full. *)
app_mq_notify ==
    /\ cb.phase = "send"
    /\ Len(mq.msgs) < APP_MAX_MQUEUE_MSG
    /\ mq' = [mq EXCEPT !.msgs = Append(@, cb.event)]
    /\ cb' = NoCallback
    /\ UNCHANGED <<pc, ret, data_pdn_sid, initialized, modem, requests, events,
                   taken, restarts, faults, dropped, restarted, orphaned, leaked>>

(* The send reaches a queue that nobody can open any more. *)
SendInVain ==
    /\ cb.phase = "vain"
    /\ cb' = NoCallback
    /\ dropped' = TRUE
    /\ UNCHANGED <<pc, ret, data_pdn_sid, mq, initialized, modem, requests,
                   events, taken, restarts, faults, restarted, orphaned, leaked>>

-----------------------------------------------------------------------------
(* The modem. *)

Event(from, result, sid) == [from |-> from, result |-> result, sid |-> sid]

Raise(from, result, sid) == events' = Append(events, Event(from, result, sid))

ModemAnswers ==
    \E q \in requests :
      /\ requests' = requests \ {q}
      /\ \/ /\ q = "restart"
            /\ modem' = [Down EXCEPT !.power = TRUE]
            /\ Raise("restart", 0, Invalid)
         \/ /\ q = "radio_on"
            /\ modem' = [modem EXCEPT !.radio = TRUE]
            /\ Raise("radio_on", 0, Invalid)
         \/ /\ q = "activate" /\ modem.radio
            /\ \E s \in SessionIds :
                  /\ modem' = [modem EXCEPT !.pdn = s]
                  /\ Raise("activate", 0, s)
         \/ /\ q = "deactivate" /\ modem.pdn = data_pdn_sid
            /\ modem' = [modem EXCEPT !.pdn = Invalid]
            /\ Raise("deactivate", 0, Invalid)
         \/ /\ q = "radio_off"
            /\ modem' = [modem EXCEPT !.radio = FALSE, !.pdn = Invalid]
            /\ Raise("radio_off", 0, Invalid)
         \/ /\ q # "restart"
            /\ Raise(q, 1, Invalid)
            /\ UNCHANGED modem
      /\ UNCHANGED <<pc, ret, data_pdn_sid, mq, cb, initialized, taken,
                     restarts, faults, dropped, restarted, orphaned, leaked>>

(* "Modem restart by self.": what it had been asked is forgotten. *)
ModemRestartsBySelf ==
    /\ modem.power
    /\ restarts < MaxRestarts
    /\ restarts' = restarts + 1
    /\ restarted' = TRUE
    /\ modem' = [Down EXCEPT !.power = TRUE]
    /\ requests' = {}
    /\ Raise("restart", 1, Invalid)
    /\ UNCHANGED <<pc, ret, data_pdn_sid, mq, cb, initialized, taken, faults,
                   dropped, orphaned, leaked>>

-----------------------------------------------------------------------------
AppStep ==
    \/ app_mq_create
    \/ lte_initialize
    \/ lte_set_report_restart
    \/ lte_power_on
    \/ lte_set_report_localtime
    \/ lte_radio_on
    \/ lte_activate_pdn
    \/ lte_deactivate_pdn
    \/ lte_radio_off
    \/ \E at \in Waits \ {"wait_activate"} : app_wait_lte_callback(at)
    \/ app_wait_lte_callback_with_parameter
    \/ lte_power_off
    \/ lte_finalize
    \/ errout_with_lte_fin
    \/ app_mq_delete

CallbackStep == CallbackOpens \/ app_mq_notify \/ SendInVain

LteNext == AppStep \/ CallbackStep \/ ModemAnswers \/ ModemRestartsBySelf

-----------------------------------------------------------------------------
LteTypeOK ==
    /\ pc \in Places
    /\ ret \in {0, -1}
    /\ data_pdn_sid \in SessionIds \cup {Invalid, Garbage}
    /\ mq.up \in BOOLEAN
    /\ mq.msgs \in Seq(Events)
    /\ Len(mq.msgs) <= APP_MAX_MQUEUE_MSG
    /\ \/ cb \in [phase : {"none", "vain", "stuck"}]
       \/ cb \in [phase : {"send"}, event : Events]
    /\ initialized \in BOOLEAN
    /\ modem \in [power : BOOLEAN, radio : BOOLEAN, pdn : SessionIds \cup {Invalid}]
    /\ requests \subseteq Callbacks
    /\ events \in Seq(Events)
    /\ taken \subseteq Callbacks \X Callbacks
    /\ restarts \in 0..MaxRestarts
    /\ faults \in 0..MaxFaults
    /\ dropped \in BOOLEAN
    /\ restarted \in BOOLEAN /\ orphaned \in BOOLEAN /\ leaked \in BOOLEAN
=============================================================================

------------------------------ MODULE MqttTest ------------------------------
(***************************************************************************)
(* The MQTT test program (lte/mqtt/mqtt_main.c and mqtt_sub.c) on top of   *)
(* the LTE connection.  Every command of the shell is one run of           *)
(* mqtt_main; what the program remembers from one run to the next is in    *)
(* static variables: g_status, and the last message received.              *)
(*                                                                         *)
(* A test is a list of sections; a step that fails ends its section, and   *)
(* then the test ("end") or goes on with the next section ("next").        *)
(* Broker and MQTT library are external.  The broker answers at its own    *)
(* pace: a message may arrive after the yield that was to receive it, and  *)
(* one of QoS 1 or 2 may be repeated.                                      *)
(***************************************************************************)
EXTENDS LteConnection, FiniteSets

CONSTANTS Tests,            \* the tests that may be run
          Loop,             \* turns of a loop (3, 5 or 10 in mqtttest_site)
          MaxCommands       \* bound: runs of the program

ASSUME MqttConstants == Loop \in Nat \ {0} /\ MaxCommands \in Nat

VARIABLES main,             \* where mqtt_main is
          g_status,
          test, at, cntc,   \* the test that runs, its place in it, a count
          result, result2, verdict,
          randmes, willmes,
          mqtt_state,
          last,             \* last_recv, and of the message: last_qos,
                            \* last_retain, last_dup, last_message
          now, passed,      \* the clock, in the seconds that messages were
                            \* drawn in; whether it has moved on since
          link,             \* broker: subscriptions, undelivered messages
          retained,         \* broker: the retained message
          sent, mistaken,   \* history: what was published; a comparison has
                            \* succeeded on something else
          disturbed, stale, \* history: see RunTest and ErrorHasCause
          commands

mqttVars == <<main, g_status, test, at, cntc, result, result2, verdict,
              randmes, willmes, mqtt_state, last, now, passed, link, retained,
              sent, mistaken, disturbed, stale, commands>>
vars == <<lteVars, mqttVars>>

SUB == 0
PUB == 1
WILL == 2
Sockets == {SUB, PUB, WILL}

MQTT_TEST_LIST_MULTI == 5
ERROR_COUNT == -1
ERROR_QOS == -2
ERROR_RETAIN == -3
ERROR_DUP == -4
ERROR_MESSAGE == -5
FAILURE == -9                           \* what a library call returns

topiclist == <<"number/1", "number/2", "number/3", "test/1", "test/2",
               "DUMMY/number/2">>

(* The broker's matching of a filter and a topic. *)
Matches(filter, topic) ==
    \/ filter = topic
    \/ filter = "number/+" /\ topic \in {"number/1", "number/2", "number/3"}
    \/ filter = "+/2" /\ topic \in {"number/2", "test/2"}
    \/ filter = "DATA/#" /\ topic \in {topiclist[i] : i \in 1..5}

mqtttest_wild ==
    [w0 |-> [answer |-> <<1, 1, 1, 0, 0, 0>>, topic |-> "number/+"],
     w1 |-> [answer |-> <<0, 1, 0, 0, 1, 0>>, topic |-> "+/2"],
     w2 |-> [answer |-> <<1, 1, 1, 1, 1, 0>>, topic |-> "DATA/#"]]

Message(t, m, q, r) ==
    [t |-> t, body |-> m, qos |-> q, retain |-> r, dup |-> 0]
NoMessage == Message("none", 0, -1, -1)
Repeat(m) == [Message(m.t, m.body, m.qos, m.retain) EXCEPT !.dup = 1]

(* A connection: open here, up at the broker, its filters, what is due. *)
NoLink == [open |-> FALSE, up |-> FALSE, subs |-> {}, inbox |-> <<>>]

-----------------------------------------------------------------------------
(* The steps of a test. *)

C(s) == [op |-> "connect", s |-> s, will |-> FALSE]
CW(s) == [op |-> "connect", s |-> s, will |-> TRUE]
S(s, t, q) == [op |-> "subscribe", s |-> s, t |-> t, q |-> q]
U(s, t) == [op |-> "unsubscribe", s |-> s, t |-> t]
P(s, t, q, r) == [op |-> "publish", s |-> s, t |-> t, q |-> q, r |-> r]
Y(s) == [op |-> "yield", s |-> s]
D(s) == [op |-> "disconnect", s |-> s]
Cmp(what, q, r) == [op |-> "compare", what |-> what, q |-> q, r |-> r]
Do(op) == [op |-> op]

(* var: where the section keeps its results; 0: nowhere. *)
Sec(steps, var, fail) == [steps |-> steps, var |-> var, fail |-> fail]

Times(n, body) ==
    [i \in 1..n * Len(body) |-> body[((i - 1) % Len(body)) + 1]]
Each(f(_), n) ==
    [i \in 1..n * Len(f(1)) |->
        f(((i - 1) \div Len(f(1))) + 1)[((i - 1) % Len(f(1))) + 1]]

mqtttest_connect == <<Sec(Times(Loop, <<C(0), D(0)>>), 1, "end")>>

mqtttest_qos(q) ==
    << Sec(<<C(SUB), S(SUB, "QOS", q), C(PUB)>>, 1, "end"),
       Sec(Times(Loop, <<Do("reset_last"), Do("random"), P(PUB, "QOS", q, 0),
                         Y(SUB), Cmp("rand", q, 0)>>), 1, "next"),
       Sec(<<D(PUB), U(SUB, "QOS"), D(SUB)>>, 2, "end") >>

mqtttest_retain ==
    << Sec(<<C(SUB), S(SUB, "RETAIN", 0), C(PUB), Y(SUB),
             Cmp("first", 0, 1)>>, 1, "end"),
       Sec(Times(Loop, <<Do("reset_last"), Do("random"), P(PUB, "RETAIN", 0, 1),
                         Y(SUB), Cmp("rand", 0, 0)>>), 1, "next"),
       Sec(<<D(PUB), U(SUB, "RETAIN"), D(SUB)>>, 2, "end"),
       Sec(<<Do("check")>>, 0, "end"),
       Sec(Times(Loop, <<Do("reset_last"), C(SUB), S(SUB, "RETAIN", 0), Y(SUB),
                         Cmp("rand", 0, 1), U(SUB, "RETAIN"), D(SUB)>>), 1, "end") >>

mqtttest_will ==
    << Sec(<<C(SUB), S(SUB, "DEF", 0), C(WILL), S(WILL, "WILL", 0)>>, 1, "end"),
       Sec(Times(Loop, <<Do("random_will"), CW(PUB), Do("reset_last"),
                         Do("random"), P(PUB, "DEF", 0, 0), Y(SUB),
                         Cmp("rand", 0, 0), Do("reset_last"), Do("usleep"),
                         Y(WILL), Cmp("will", 0, 0), Do("drop_pub")>>), 1, "next"),
       Sec(<<U(WILL, "WILL"), D(WILL), U(SUB, "DEF"), D(SUB)>>, 2, "end") >>

mqtttest_wildcard(w) ==
    LET expects(d) == IF mqtttest_wild[w].answer[d] = 1 THEN "rand" ELSE "none"
        Turn(d) == <<Do("reset_last"), Do("random"), P(PUB, topiclist[d], 0, 0),
                     Y(SUB), Cmp(expects(d), 0, 0), Y(PUB)>>
        topic == mqtttest_wild[w].topic
    IN << Sec(<<C(SUB), S(SUB, topic, 0), C(PUB)>>, 1, "end"),
          Sec(Each(Turn, 6), 1, "next"),
          Sec(<<D(PUB), U(SUB, topic), D(SUB)>>, 2, "end") >>

mqtttest_multi(same) ==
    LET Subscribe(d) == <<S(SUB, topiclist[d], 0)>>
        Unsubscribe(d) == <<U(SUB, topiclist[d])>>
        Turn(d) == SubSeq(<<Do("reset_last"), Do("random"),
                            P(IF same THEN SUB ELSE PUB, topiclist[d], 0, 0),
                            Y(SUB), Cmp("rand", 0, 0), Y(PUB)>>,
                          1, IF same THEN 5 ELSE 6)
        first == Sec(<<C(SUB)>>, 1, "end")
        subscribed == Sec(Each(Subscribe, MQTT_TEST_LIST_MULTI), 1, "next")
        turns == Sec(Each(Turn, MQTT_TEST_LIST_MULTI), 1, "next")
        ended == Sec(Each(Unsubscribe, MQTT_TEST_LIST_MULTI), 2, "next")
        final == Sec(<<D(SUB)>>, 2, "end")
    IN IF same THEN <<first, subscribed, turns, ended, final>>
       ELSE <<first, subscribed, Sec(<<C(PUB)>>, 1, "end"), turns,
              Sec(<<D(PUB)>>, 2, "end"), ended, final>>

(* The calls that are expected to fail. *)
mqtttest_error_connect(case) ==
    LET Subscribe(d) == <<S(SUB, topiclist[IF case = 0 THEN d ELSE 1], 0)>>
        Unsubscribe(d) == <<U(SUB, topiclist[IF case = 0 THEN d ELSE 1])>>
        turns == IF case = 0 THEN 6 ELSE 2
        good == IF case = 0 THEN MQTT_TEST_LIST_MULTI ELSE 1
    IN IF case = 1
       THEN << Sec(<<C(SUB)>>, 0, "end"),
               Sec(<<U(SUB, topiclist[1])>>, 1, "next"),
               Sec(<<D(SUB)>>, 0, "end") >>
       ELSE << Sec(<<C(SUB)>>, 0, "end"),
               Sec(Each(Subscribe, turns), 1, "next"),
               Sec(<<[op |-> "count", n |-> good]>>, 0, "end"),
               Sec(Each(Unsubscribe, turns), 0, "next"),
               Sec(<<D(SUB)>>, 0, "end") >>

mqtttest_error_disconnect(case) ==
    << Sec(<<Do("random"), CASE case = 0 -> P(PUB, topiclist[1], 0, 0)
                             [] case = 1 -> S(SUB, topiclist[1], 0)
                             [] case = 2 -> U(SUB, topiclist[1])>>, 1, "end") >>

mqtttest_site ==
    [t03 |-> mqtttest_connect,
     t10 |-> mqtttest_qos(0), t12 |-> mqtttest_qos(1), t14 |-> mqtttest_qos(2),
     t16 |-> mqtttest_retain, t18 |-> mqtttest_will,
     t20 |-> mqtttest_multi(FALSE), t22 |-> mqtttest_multi(TRUE),
     t30 |-> mqtttest_wildcard("w0"), t32 |-> mqtttest_wildcard("w1"),
     t34 |-> mqtttest_wildcard("w2"),
     t40 |-> mqtttest_error_connect(0), t41 |-> mqtttest_error_connect(1),
     t42 |-> mqtttest_error_connect(2),
     t43 |-> mqtttest_error_disconnect(0), t44 |-> mqtttest_error_disconnect(1),
     t45 |-> mqtttest_error_disconnect(2)]

ASSUME TestsAssumption == Tests \subseteq DOMAIN mqtttest_site

NeedToFail == {"t40", "t41", "t42", "t43", "t44", "t45"}

-----------------------------------------------------------------------------
(* Progress of a test. *)

Done == <<0, 0>>
Sections == mqtttest_site[test]
Section == Sections[at[1]]
Step == Section.steps[at[2]]

At(op) == main = "test" /\ at # Done /\ Step.op = op

(* A step is over; ok tells whether the section goes on. *)
Advance(ok) ==
    LET over == ~ok \/ at[2] = Len(Section.steps) IN
    /\ at' = IF ~over THEN <<at[1], at[2] + 1>>
             ELSE IF (ok \/ Section.fail = "next") /\ at[1] < Len(Sections)
                  THEN <<at[1] + 1, 1>>
             ELSE Done
    /\ cntc' = IF ~over THEN cntc ELSE IF ok THEN at[2] ELSE at[2] - 1

Store(v) ==
    /\ result' = IF Section.var = 1 THEN v ELSE result
    /\ result2' = IF Section.var = 2 THEN v ELSE result2

Outcome(v) == Advance(v >= 0) /\ Store(v)

(* A library call fails when its connection is gone, or for any reason. *)
LibraryFails(s) ==
    /\ \/ ~link[s].up /\ UNCHANGED faults
       \/ link[s].up /\ faults < MaxFaults /\ faults' = faults + 1
    /\ disturbed' = (disturbed \/ link[s].open)

lteButFaults == <<pc, ret, data_pdn_sid, mq, cb, initialized, modem, requests,
                  events, taken, restarts, dropped, restarted, orphaned, leaked>>
mainVars == <<main, g_status, test, verdict, stale, commands>>

(* mqtt_test_arrived, for the first k messages that are due on s. *)
Arrived(s, k) ==
    /\ link' = [link EXCEPT ![s].inbox = SubSeq(@, k + 1, Len(@))]
    /\ last' = IF k = 0 THEN last
               ELSE [recv |-> 1, msg |-> link[s].inbox[k]]

mqtt_test_connect ==
    /\ At("connect")
    /\ LET s == Step.s
           opened == [open |-> TRUE, up |-> TRUE, subs |-> {}, inbox |-> <<>>]
       IN \/ /\ modem.pdn # Invalid
             /\ mqtt_state' = [mqtt_state EXCEPT ![s] = 3]
             /\ link' = [link EXCEPT ![s] = opened]
             /\ Outcome(s)
             /\ UNCHANGED <<faults, disturbed>>
          \/ \E reached \in {1, 2} :
                /\ \/ modem.pdn = Invalid /\ reached = 1 /\ UNCHANGED faults
                   \/ /\ modem.pdn # Invalid /\ faults < MaxFaults
                      /\ faults' = faults + 1
                /\ mqtt_state' = [mqtt_state EXCEPT ![s] = reached]
                /\ link' = [link EXCEPT ![s] = IF reached = 2 THEN opened ELSE NoLink]
                /\ disturbed' = TRUE
                /\ Outcome(FAILURE)
    /\ UNCHANGED <<lteButFaults, mainVars, randmes, willmes, last, now, passed,
                   retained, sent, mistaken>>

(* A client has MQTT_TEST_LIST_MULTI handlers, and one per topic.  The      *)
(* broker sends what it retains on the topic.                               *)
mqtt_test_subscribe ==
    /\ At("subscribe")
    /\ LET s == Step.s
           t == Step.t
           refused == t \in link[s].subs
                      \/ Cardinality(link[s].subs) = MQTT_TEST_LIST_MULTI
       IN \/ /\ link[s].up /\ ~refused
             /\ link' = [link EXCEPT ![s].subs = @ \cup {t},
                                     ![s].inbox = IF retained.t = t
                                                  THEN Append(@, retained) ELSE @]
             /\ Outcome(0)
             /\ UNCHANGED <<faults, disturbed>>
          \/ /\ link[s].up /\ refused
             /\ Outcome(FAILURE)
             /\ UNCHANGED <<link, faults, disturbed>>
          \/ /\ LibraryFails(s)
             /\ Outcome(FAILURE)
             /\ UNCHANGED link
    /\ UNCHANGED <<lteButFaults, mainVars, randmes, willmes, mqtt_state, last,
                   now, passed, retained, sent, mistaken>>

(* While the library waits for the answer, messages may arrive. *)
mqtt_test_unsubscribe ==
    /\ At("unsubscribe")
    /\ LET s == Step.s
           t == Step.t
       IN \/ /\ link[s].up
             /\ \E k \in 0..Len(link[s].inbox) :
                   /\ last' = IF k = 0 THEN last
                              ELSE [recv |-> 1, msg |-> link[s].inbox[k]]
                   /\ link' = [link EXCEPT ![s].subs = @ \ {t},
                                           ![s].inbox = SubSeq(@, k + 1, Len(@))]
             /\ Outcome(IF t \in link[s].subs THEN 0 ELSE FAILURE)
             /\ UNCHANGED <<faults, disturbed>>
          \/ /\ LibraryFails(s)
             /\ Outcome(FAILURE)
             /\ UNCHANGED <<link, last>>
    /\ UNCHANGED <<lteButFaults, mainVars, randmes, willmes, mqtt_state, now, passed,
                   retained, sent, mistaken>>

(* The broker: message m goes to every connection with a filter for it. *)
Distributed(links, m) ==
    [s \in Sockets |->
        IF links[s].up /\ \E f \in links[s].subs : Matches(f, m.t)
        THEN [links[s] EXCEPT !.inbox = Append(@, m)] ELSE links[s]]

mqtt_test_publish ==
    /\ At("publish")
    /\ LET m == Message(Step.t, randmes, Step.q, 0)
       IN \/ /\ link[Step.s].up
             /\ link' = Distributed(link, m)
             /\ retained' = IF Step.r = 1 THEN [m EXCEPT !.retain = 1] ELSE retained
             /\ sent' = <<m.t, m.body>>
             /\ Outcome(0)
             /\ UNCHANGED <<faults, disturbed>>
          \/ /\ LibraryFails(Step.s)
             /\ Outcome(FAILURE)
             /\ UNCHANGED <<link, retained, sent>>
    /\ UNCHANGED <<lteButFaults, mainVars, randmes, willmes, mqtt_state, last,
                   now, passed, mistaken>>

(* A yield lasts two seconds; not all that is due need arrive in it. *)
mqtt_test_yield ==
    /\ At("yield")
    /\ LET s == Step.s
       IN \/ /\ link[s].up
             /\ \E k \in 0..Len(link[s].inbox) :
                   /\ Arrived(s, k)
                   /\ disturbed' = (disturbed \/ k < Len(link[s].inbox))
             /\ Outcome(0)
             /\ UNCHANGED faults
          \/ /\ LibraryFails(s)
             /\ Outcome(FAILURE)
             /\ UNCHANGED <<link, last>>
    /\ passed' = TRUE
    /\ UNCHANGED <<lteButFaults, mainVars, randmes, willmes, mqtt_state, now,
                   retained, sent, mistaken>>

(* The connection is closed whatever MQTTDisconnect returns.  drop_pub: the *)
(* loop of mqtttest_will does not look at the result.                       *)
mqtt_test_disconnect ==
    /\ At("disconnect") \/ At("drop_pub")
    /\ LET s == IF Step.op = "drop_pub" THEN PUB ELSE Step.s
       IN /\ mqtt_state' = [mqtt_state EXCEPT ![s] = 0]
          /\ link' = [link EXCEPT ![s] = NoLink]
          /\ \/ /\ link[s].up \/ mqtt_state[s] < 2
                /\ IF Step.op = "drop_pub"
                   THEN Advance(TRUE) /\ UNCHANGED <<result, result2>>
                   ELSE Outcome(0)
                /\ UNCHANGED <<faults, disturbed>>
             \/ /\ mqtt_state[s] >= 2
                /\ IF Step.op = "drop_pub"
                   THEN /\ ~link[s].up
                        /\ Advance(TRUE)
                        /\ UNCHANGED <<result, result2, faults, disturbed>>
                   ELSE LibraryFails(s) /\ Outcome(FAILURE)
    /\ UNCHANGED <<lteButFaults, mainVars, randmes, willmes, last, now, passed,
                   retained, sent, mistaken>>

(* random_message is seeded with the time in seconds: two calls in the same *)
(* second give the same message.                                            *)
random_message ==
    /\ At("random") \/ At("random_will")
    /\ \E n \in (IF passed THEN {1} ELSE {0, 1}) : now' = now + n
    /\ passed' = FALSE
    /\ randmes' = IF Step.op = "random" THEN now' ELSE randmes
    /\ willmes' = IF Step.op = "random_will" THEN now' ELSE willmes
    /\ Advance(TRUE)
    /\ UNCHANGED <<lteVars, mainVars, result, result2, mqtt_state, last, link,
                   retained, sent, mistaken, disturbed>>

NothingLast == [recv |-> 0, msg |-> NoMessage]

mqtt_test_reset_last ==
    /\ At("reset_last")
    /\ last' = NothingLast
    /\ Advance(TRUE)
    /\ UNCHANGED <<lteVars, mainVars, result, result2, randmes, willmes,
                   mqtt_state, now, passed, link, retained, sent, mistaken, disturbed>>

MutantCompareReceived(q, r, m) ==
    IF last.recv = 0 THEN ERROR_COUNT
    ELSE IF q # last.msg.qos THEN ERROR_QOS
    ELSE 0

(* mqtt_test_compare_last; every call expects a message that is no repeat. *)
ComparedLast(q, r, m) ==
    IF last.recv = 0 THEN ERROR_COUNT
    ELSE IF q # last.msg.qos THEN ERROR_QOS
    ELSE IF r # last.msg.retain THEN ERROR_RETAIN
    ELSE IF last.msg.dup # 0 THEN ERROR_DUP
    ELSE IF m # last.msg.body THEN ERROR_MESSAGE
    ELSE 0

(* What mqtttest_retain accepts before it has published anything: no repeat. *)
FirstAccepted == {ERROR_COUNT, ERROR_RETAIN, ERROR_MESSAGE}

(* "first": the check before anything was published in mqtttest_retain.     *)
(* "none": a topic whose message must not have come (mqtttest_wildcard).    *)
mqtt_test_compare_last ==
    /\ At("compare")
    /\ LET m == CASE Step.what = "will" -> willmes
                  [] Step.what = "first" -> 0
                  [] OTHER -> randmes
           v == ComparedLast(Step.q, Step.r, m)
           expected == IF Step.what = "will" THEN <<"WILL", willmes>> ELSE sent
       IN /\ CASE Step.what = "first" ->
                    /\ Advance(v \in FirstAccepted)
                    /\ Store(v)
               [] Step.what = "none" -> Outcome(IF v = ERROR_COUNT THEN 0
                                                ELSE ERROR_COUNT)
               [] OTHER -> Outcome(v)
          /\ mistaken' = (mistaken \/ /\ v = 0
                                      /\ Step.what \in {"rand", "will"}
                                      /\ expected # <<last.msg.t, last.msg.body>>)
    /\ UNCHANGED <<lteVars, mainVars, randmes, willmes, mqtt_state, last, now, passed,
                   link, retained, sent, disturbed>>

(* The publisher is silent for longer than its keep-alive time: the broker  *)
(* closes its connection and publishes its will.                            *)
usleep ==
    /\ At("usleep")
    /\ link' = IF link[PUB].up
               THEN Distributed([link EXCEPT ![PUB].up = FALSE],
                                Message("WILL", willmes, 0, 0))
               ELSE link
    /\ passed' = TRUE
    /\ Advance(TRUE)
    /\ UNCHANGED <<lteVars, mainVars, result, result2, randmes, willmes,
                   mqtt_state, last, now, retained, sent, mistaken, disturbed>>

(* if (result < 0) break; and if (cntc != ...) result = 0; *)
CheckResult ==
    /\ \/ At("check") /\ Advance(result >= 0) /\ UNCHANGED result
       \/ /\ At("count")
          /\ result' = IF cntc # Step.n THEN 0 ELSE result
          /\ Advance(TRUE)
    /\ UNCHANGED <<lteVars, mainVars, result2, randmes, willmes, mqtt_state,
                   last, now, passed, link, retained, sent, mistaken, disturbed>>

TestStep ==
    \/ mqtt_test_connect \/ mqtt_test_subscribe \/ mqtt_test_unsubscribe
    \/ mqtt_test_publish \/ mqtt_test_yield \/ mqtt_test_disconnect
    \/ random_message \/ mqtt_test_reset_last \/ mqtt_test_compare_last
    \/ usleep \/ CheckResult

-----------------------------------------------------------------------------
(* mqtt_main. *)

testVars == <<at, cntc, result, result2, randmes, willmes, mqtt_state, last,
              now, passed, link, retained, sent, mistaken>>

(* The first run connects, whatever its argument; "off" disconnects, and   *)
(* g_status is 0 from then on, whatever comes of it.                        *)
mqtt_main(arg) ==
    /\ main = "shell" /\ pc = "idle"
    /\ commands < MaxCommands
    /\ commands' = commands + 1
    /\ test' = arg
    /\ verdict' = "none"
    /\ \/ /\ g_status = 1 /\ arg = "off"
          /\ g_status' = 0
          /\ main' = "disconnect"
          /\ app_disconnect_from_lte
       \/ /\ g_status = 0
          /\ main' = "connect"
          /\ app_connect_to_lte
          /\ UNCHANGED g_status
       \/ /\ g_status = 1 /\ arg # "off"
          /\ main' = "run"
          /\ UNCHANGED <<g_status, lteVars>>
    /\ UNCHANGED <<testVars, disturbed, stale>>

(* app_connect_to_lte has returned.  No test is called "off". *)
Connected ==
    /\ main = "connect" /\ pc = "idle"
    /\ IF ret < 0
       THEN main' = "shell" /\ UNCHANGED g_status
       ELSE g_status' = 1 /\ main' = IF test = "off" THEN "shell" ELSE "run"
    /\ UNCHANGED <<lteVars, test, verdict, stale, commands, testVars, disturbed>>

Disconnected ==
    /\ main = "disconnect" /\ pc = "idle"
    /\ main' = "shell"
    /\ UNCHANGED <<lteVars, g_status, test, verdict, stale, commands, testVars,
                   disturbed>>

(* The test function is called: mqtt_test_initialize.  History: whether the *)
(* network is down already, and whether the last message of an earlier      *)
(* test, which is not forgotten here, has another quality of service.       *)
RunTest ==
    /\ main = "run"
    /\ main' = "test"
    /\ at' = <<1, 1>>
    /\ cntc' = 0
    /\ result' = 0
    /\ result2' = 0
    /\ mqtt_state' = [s \in Sockets |-> 0]
    /\ disturbed' = (modem.pdn = Invalid)
    /\ stale' = (last.recv = 1 /\ last.msg.qos # 0)
    /\ UNCHANGED <<lteVars, g_status, test, verdict, commands, randmes, willmes,
                   last, now, passed, link, retained, sent, mistaken>>

(* mqtt_test_finalize: sockets in use are disconnected. *)
Finalize ==
    /\ mqtt_state' = [s \in Sockets |-> 0]
    /\ link' = [s \in Sockets |-> IF mqtt_state[s] > 0 THEN NoLink ELSE link[s]]

Verdict(value) ==
    IF test \in NeedToFail THEN (IF value = 0 THEN "ERR" ELSE "OK")
    ELSE IF value < 0 THEN "ERR" ELSE "OK"

TestDone ==
    /\ main = "test" /\ at = Done
    /\ Finalize
    /\ verdict' = Verdict(IF result = 0 /\ result2 < 0 THEN result2 ELSE result)
    /\ main' = "shell"
    /\ UNCHANGED <<lteVars, g_status, test, stale, commands, at, cntc, result,
                   result2, randmes, willmes, last, now, passed, retained, sent,
                   mistaken, disturbed>>

(* The connections do not survive a restart of the modem. *)
Restart ==
    /\ ModemRestartsBySelf
    /\ link' = [s \in Sockets |-> [link[s] EXCEPT !.up = FALSE]]
    /\ disturbed' = TRUE
    /\ UNCHANGED <<main, g_status, test, verdict, stale, commands, at, cntc,
                   result, result2, randmes, willmes, mqtt_state, last, now, passed,
                   retained, sent, mistaken>>

(* The broker has not had the acknowledgement of a message of QoS 1 or 2    *)
(* that it has sent, and sends it again (once, the bound).                  *)
Redeliver ==
    /\ \E s \in Sockets : \E i \in 1..Len(link[s].inbox) :
          LET m == link[s].inbox[i]
          IN /\ link[s].up
             /\ m.qos > 0
             /\ \A j \in 1..Len(link[s].inbox) : link[s].inbox[j] # Repeat(m)
             /\ link' = [link EXCEPT ![s].inbox = Append(@, Repeat(m))]
    /\ disturbed' = TRUE
    /\ UNCHANGED <<lteVars, main, g_status, test, verdict, stale, commands, at,
                   cntc, result, result2, randmes, willmes, mqtt_state, last,
                   now, passed, retained, sent, mistaken>>

Init ==
    /\ LteInit
    /\ main = "shell"
    /\ g_status = 0
    /\ test = "off"
    /\ at = Done
    /\ cntc = 0
    /\ result = 0
    /\ result2 = 0
    /\ verdict = "none"
    /\ randmes = 0
    /\ willmes = 0
    /\ mqtt_state = [s \in Sockets |-> 0]
    /\ last = NothingLast
    /\ now = 1
    /\ passed = FALSE
    /\ link = [s \in Sockets |-> NoLink]
    /\ retained = NoMessage
    /\ sent = <<"none", 0>>
    /\ mistaken = FALSE
    /\ disturbed = FALSE
    /\ stale = FALSE
    /\ commands = 0

Application == \/ AppStep /\ UNCHANGED mqttVars
               \/ Connected \/ Disconnected \/ RunTest \/ TestStep \/ TestDone
Library == CallbackStep /\ UNCHANGED mqttVars
Modem == ModemAnswers /\ UNCHANGED mqttVars

Next ==
    \/ \E arg \in Tests \cup {"off"} : mqtt_main(arg)
    \/ Application
    \/ Library
    \/ Modem
    \/ Restart
    \/ Redeliver

Spec == Init /\ [][Next]_vars

(* The tasks of the program and of the library are scheduled, and the modem
   answers what it has not forgotten.  No call is obliged to fail. *)
FairSpec == /\ Spec /\ WF_vars(Application /\ faults' = faults)
            /\ WF_vars(Library /\ faults' = faults)
            /\ WF_vars(Modem /\ faults' = faults)

-----------------------------------------------------------------------------
(* Properties. *)

(* Every variable of the program, the library, the modem and the broker has *)
(* its type; there are at most APP_MAX_MQUEUE_MSG messages in the queue.    *)
TypeOK ==
    /\ LteTypeOK
    /\ main \in {"shell", "connect", "disconnect", "run", "test"}
    /\ g_status \in {0, 1}
    /\ test \in Tests \cup {"off"}
    /\ verdict \in {"none", "OK", "ERR"}
    /\ result \in {FAILURE} \cup -5..2
    /\ result2 \in {FAILURE, 0}
    /\ mqtt_state \in [Sockets -> 0..3]
    /\ \A s \in Sockets : link[s].up => link[s].open
    /\ passed \in BOOLEAN /\ mistaken \in BOOLEAN /\ disturbed \in BOOLEAN

(* Every wait in app_connect_to_lte and app_disconnect_from_lte is ended by *)
(* the callback it is meant for; in particular the int of another callback  *)
(* is never taken for the pointer of app_activate_pdn_cb.  Excepted are     *)
(* waits after the modem has restarted by itself, or lte_finalize has       *)
(* failed behind an error (lines 658 and 737, where what it returns is not  *)
(* looked at), and before the library is finalized.                         *)
OwnAnswers == ~Disturbed => \A t \in taken : t[1] = t[2]

(* At the prompt g_status tells whether the queue exists, and the library   *)
(* is in use exactly as long.  Excepted is a library left initialized by a  *)
(* lte_set_report_restart (line 576) or a lte_finalize (lines 723, 658 and  *)
(* 737) that has failed, until it is finalized.                             *)
StatusIsTrue ==
    main = "shell" => /\ g_status = 1 <=> mq.up
                      /\ g_status = 1 => initialized
                      /\ g_status = 0 => ~initialized \/ leaked \/ orphaned

(* While the program takes itself for connected, data_pdn_sid is the        *)
(* session the modem has open, with the exceptions of OwnAnswers.           *)
SessionIsOurs ==
    g_status = 1 /\ main # "disconnect" /\ ~Disturbed =>
        data_pdn_sid = modem.pdn /\ modem.pdn # Invalid

(* At the prompt no socket is left open, whatever failed in the tests and   *)
(* however they ended.                                                      *)
SocketsClosed ==
    main = "shell" => \A s \in Sockets : ~link[s].open /\ mqtt_state[s] = 0

(* The program's idea of its connections is the true one: answers are those *)
(* of its own calls, status and session agree with library and modem, but   *)
(* for the exceptions named, and no socket is forgotten.                    *)
ConnectionIsTrue == OwnAnswers /\ StatusIsTrue /\ SessionIsOurs /\ SocketsClosed

(* A comparison succeeds only on the message the test has just published    *)
(* (or the will it has just left), never on a late or a retained message    *)
(* of an earlier turn or test.                                              *)
ComparedWithItsOwn == ~mistaken

(* A test is reported as [ERR] only when something went wrong: a call       *)
(* failed, the network was lost, a message came late or the broker sent it  *)
(* again (mqtt_sub.c:256-260) - or mqtttest_retain ran after a test with    *)
(* another quality of service, whose last message is still there when it    *)
(* makes its first comparison.                                              *)
ErrorHasCause ==
    verdict = "ERR" => disturbed \/ (test = "t16" /\ stale)

(* A verdict is just: a success is about the message just published, and an *)
(* error has a cause.                                                       *)
VerdictIsJust == ComparedWithItsOwn /\ ErrorHasCause

(* Every command ends, although the waits have no time limit: also when the *)
(* modem restarts by itself and forgets what it was asked, for then the     *)
(* message of app_restart_cb ends the wait.  Excepted are a callback that   *)
(* could not send, a callback left blocked by mq_unlink, and a crash on an  *)
(* int taken for a pointer.                                                 *)
CommandsEnd ==
    (main # "shell") ~>
        (main = "shell" \/ dropped \/ cb.phase = "stuck" \/ pc = "crashed")

(* The one place in the queue holds up the library's thread for a while     *)
(* only, as long as the modem has restarted by itself at most once.         *)
(* Excepted is a library that was left running: mq_unlink takes from its    *)
(* callback the queue it waits for.                                         *)
CallbackEnds ==
    (cb.phase = "send" /\ restarts <= 1) ~>
        (cb.phase = "none" \/ restarts > 1 \/ pc = "crashed" \/ orphaned)

(* Neither the task nor the library's thread waits for ever, but for the    *)
(* cases named: the one place in the queue comes free again.                *)
NobodyWaitsForEver == CommandsEnd /\ CallbackEnds
=============================================================================

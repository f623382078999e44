----------------------------- MODULE MCTestCase -----------------------------
(***************************************************************************)
(* Small instances of TestCase.  Every step is on the device "dev1".       *)
(***************************************************************************)
EXTENDS TestCase

Step(a, k, d, c) ==
    [action |-> a, source |-> "dev1", kind |-> k, data |-> d, callback |-> c]

MCLines == {"ok", "err"}

MCInfo ==
    [write    |-> Step("WRITE", "str", <<{}>>, FALSE),
     post     |-> Step("WRITE", "str", <<{}>>, FALSE),
     nothing  |-> Step("EXECUTE", "str", <<{}>>, FALSE),
     exec     |-> Step("EXECUTE", "str", <<{}>>, TRUE),
     waitOk   |-> Step("WAIT_FOR", "str", <<{"ok"}>>, FALSE),
     waitMore |-> Step("WAIT_FOR", "str", <<{"ok"}>>, FALSE),
     waitErr  |-> Step("WAIT_FOR", "str", <<{"err"}>>, TRUE),
     waitList |-> Step("WAIT_FOR", "list", <<{"ok"}>>, FALSE),
     checkList |-> Step("WAIT_FOR", "list", <<{"ok"}, {"err"}>>, TRUE),
     waitMsg  |-> Step("WAIT_FOR", "msg", <<>>, FALSE),
     checkMsg |-> Step("WAIT_FOR", "msg", <<>>, TRUE)]

MCSteps == DOMAIN MCInfo

Script(a, b, c) == [SETUP |-> a, TEST |-> b, TEARDOWN |-> c]

(* Steps of every kind, in every phase; phases without steps. *)
MCScripts == {Script(<<"exec">>, <<"write", "waitErr", "waitOk">>, <<"post">>),
              Script(<<"waitErr">>, <<"write", "nothing">>, <<"exec", "waitOk">>),
              Script(<<>>, <<"checkMsg", "waitOk">>, <<>>),
              Script(<<"waitMsg">>, <<"checkList">>, <<"exec">>)}

MCShortScripts == {Script(<<"exec">>, <<"waitErr", "waitOk">>, <<"post">>),
                   Script(<<>>, <<"waitOk">>, <<"exec">>)}

MCRepeatScripts == {Script(<<"write">>, <<"waitErr">>, <<"post">>),
                    Script(<<>>, <<"waitOk">>, <<"exec">>),
                    Script(<<>>, <<"waitList", "waitErr">>, <<>>)}

(* For the disagreement between code and comments. *)
MCPhaseScript == {Script(<<"write">>, <<"waitOk">>, <<"post", "waitMore">>)}
=============================================================================

----------------------------- MODULE TestPhases -----------------------------
(***************************************************************************)
(* What a test case promises to its author and to the runner, without      *)
(* queue, threads and timers: the three phases come in order, the test     *)
(* phase only follows a setup that did not fail, a failure sends the test  *)
(* on and is its verdict until the runner resets it for another attempt    *)
(* (the class comment of Test, TestFramework/src/api/test.py).             *)
(***************************************************************************)
EXTENDS Integers, Sequences

VARIABLES script, stage, verdict

vars == <<script, stage, verdict>>

Order == [NONE |-> 0, SETUP |-> 1, TEST |-> 2, TEARDOWN |-> 3, DONE |-> 4]

Empty(ph) == ph \in {"SETUP", "TEST", "TEARDOWN"} /\ script[ph] = <<>>

(* The phases strictly between two stages. *)
Between(a, b) ==
    {ph \in {"SETUP", "TEST", "TEARDOWN"} : Order[a] < Order[ph] /\ Order[ph] < Order[b]}

Init == stage = "NONE" /\ verdict = "NOT_RUN"

(* The first phase that has steps begins, with a verdict of PASS ... *)
Start ==
    /\ stage = "NONE" /\ verdict' = "PASS"
    /\ stage' \in DOMAIN Order /\ Order[stage] < Order[stage'] /\ ~Empty(stage')
    /\ \A ph \in Between(stage, stage') : Empty(ph)

(* ... or cannot begin, because a device could not be opened. *)
CannotStart == stage = "NONE" /\ verdict' = "FAIL" /\ stage' = stage

(* A phase is complete: the next one that has steps begins. *)
PhaseDone ==
    /\ stage # "NONE" /\ verdict' = verdict
    /\ stage' \in DOMAIN Order /\ Order[stage] < Order[stage'] /\ ~Empty(stage')
    /\ \A ph \in Between(stage, stage') : Empty(ph)

(* A failure skips what is left of the phase and all of the test phase. *)
PhaseFails ==
    /\ stage # "NONE" /\ verdict' = "FAIL"
    /\ stage' \in {"TEARDOWN", "DONE"} /\ ~Empty(stage')
    /\ Order[stage] < Order[stage'] \/ stage = "DONE"
    /\ \A ph \in Between(stage, stage') \ {"TEST"} : Empty(ph)

(* The runner tries a failed test again. *)
Reset == verdict = "FAIL" /\ verdict' = verdict /\ stage' = "NONE"

Next == /\ Start \/ CannotStart \/ PhaseDone \/ PhaseFails \/ Reset
        /\ UNCHANGED script

Spec == Init /\ [][Next]_vars
=============================================================================

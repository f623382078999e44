------------------------------- MODULE Runner -------------------------------
(***************************************************************************)
(* TestRunner.run of TestFramework/src/api/runner.py: it sets the devices  *)
(* up, selects the tests of every group by their tags, prepares the group, *)
(* runs each test as often as the repeat count allows, counts the results  *)
(* and tears down, whatever has gone wrong in between.                     *)
(*                                                                         *)
(* One run of a test is one step here; module TestCase is about what       *)
(* happens in it.                                                          *)
(***************************************************************************)
EXTENDS Naturals, Sequences, FiniteSets, SequencesExt

CONSTANTS
    Tests,       \* the cloned tests of all groups
    Tags,
    Groups,      \* the groups: their tests, and whether a device is missing
    TagsOf,      \* the tags of a test and of its group
    IncludeTags, ExcludeTags,
    Repeat,      \* the argument repeat_count
    Troubles     \* what may go wrong

TroubleKinds == {"setup", "prepare", "name", "raise", "skip", "teardown"}

ASSUME RunnerAssumption ==
    /\ Groups \in Seq([tests: Seq(Tests), missing: BOOLEAN,
                       prepare: BOOLEAN])
    /\ \A g \in 1..Len(Groups) : IsInjective(Groups[g].tests)
    /\ \A g, h \in 1..Len(Groups) :
           g # h => Range(Groups[g].tests) \cap Range(Groups[h].tests) = {}
    /\ TagsOf \in [Tests -> SUBSET Tags]
    /\ IncludeTags \subseteq Tags /\ ExcludeTags \subseteq Tags
    /\ Repeat \in Nat
    /\ Troubles \subseteq TroubleKinds

Verdicts == {"NOT_RUN", "PASS", "FAIL"}

VARIABLES
    pc,
    g, i, j,      \* the loop variables: group, index of the test, repeat
    tests,        \* group.tests of every group
    dropped,      \* test_indexes_to_remove
    verdict, reason, run_count,
    logs,         \* the tests whose log is open
    counts,       \* what print_runner_results has counted
    raised,       \* an exception is on its way out of run
    last,         \* history: how the last run of each test ended
    turns         \* history: how often Test.run of each test has returned

loop == <<g, i, j, dropped>>
result == <<verdict, reason, run_count, last>>
vars == <<pc, loop, tests, result, logs, counts, raised, turns>>

NoCounts == [passed |-> 0, failed |-> 0, not_run |-> 0]

Init ==
    /\ pc = "setup" /\ g = 1 /\ i = 1 /\ j = 0 /\ dropped = <<>>
    /\ tests = [h \in 1..Len(Groups) |-> Groups[h].tests]
    /\ verdict = [t \in Tests |-> "NOT_RUN"]
    /\ reason = [t \in Tests |-> "none"]
    /\ run_count = [t \in Tests |-> 0]
    /\ logs = {} /\ counts = NoCounts /\ raised = FALSE
    /\ last = [t \in Tests |-> "none"]
    /\ turns = [t \in Tests |-> 0]

(* The finally clause follows. *)
Raise(what) ==
    /\ what \in Troubles
    /\ raised' = TRUE /\ pc' = "teardown"

(***************************************************************************)
(* The selection.                                                          *)
(***************************************************************************)
(* _check_tags_to_run_test *)
CheckTags(it, et, tt) ==
    \/ tt = {}
    \/ /\ it # {} => (it \ et) \cap tt # {}
       /\ et \cap tt = {}

Selected(t) == CheckTags(IncludeTags, ExcludeTags, TagsOf[t])

(* The indexes are collected last first, so that removing one does not     *)
(* shift the ones still to be removed.  Mutant: first first.               *)
MutantDropLater(k) == Append(dropped, k)
DropLater(k) == <<k>> \o dropped

(* group.tests.pop for every index.  An index past the end would raise. *)
Without(s, ks) ==
    FoldLeft(LAMBDA r, k : IF k <= Len(r) THEN RemoveAt(r, k) ELSE r, s, ks)

(***************************************************************************)
(* The steps.                                                              *)
(***************************************************************************)
Setup ==
    /\ pc = "setup"
    /\ \/ pc' = "group" /\ UNCHANGED raised
       \/ Raise("setup")
    /\ UNCHANGED <<loop, tests, result, logs, counts, turns>>

EnterGroup ==
    /\ pc = "group" /\ g <= Len(Groups) /\ ~Groups[g].missing
    /\ pc' = "test" /\ i' = 1 /\ dropped' = <<>>
    /\ UNCHANGED <<g, j, tests, result, logs, counts, raised, turns>>

(* The reason is all a test without its devices gets. *)
DevicesMissing ==
    /\ pc = "group" /\ g <= Len(Groups) /\ Groups[g].missing
    /\ reason' = [t \in Tests |-> IF t \in Range(tests[g])
                                  THEN "devices" ELSE reason[t]]
    /\ dropped' = <<>>
    /\ pc' = "report"
    /\ UNCHANGED <<g, i, j, tests, verdict, run_count, last, logs, counts,
                   raised, turns>>

This == tests[g][i]

AtTest == pc = "test" /\ i <= Len(tests[g])

Deselect ==
    /\ AtTest /\ ~Selected(This)
    /\ dropped' = DropLater(i) /\ i' = i + 1
    /\ UNCHANGED <<pc, g, j, tests, result, logs, counts, raised, turns>>

(* group.prepare is called before every test.  When it fails, every test   *)
(* of the group fails with it, and the loop goes on.                       *)
PrepareFails ==
    /\ AtTest /\ Selected(This) /\ Groups[g].prepare /\ "prepare" \in Troubles
    /\ verdict' = [t \in Tests |-> IF t \in Range(tests[g])
                                   THEN "FAIL" ELSE verdict[t]]
    /\ reason' = [t \in Tests |-> IF t \in Range(tests[g])
                                  THEN "prepare" ELSE reason[t]]
    /\ i' = i + 1
    /\ UNCHANGED <<pc, g, j, dropped, tests, run_count, last, logs, counts,
                   raised, turns>>

(* The group is prepared and the test's log opened, unless its name cannot *)
(* be made a file name: normalize_string raises a TypeError for a name     *)
(* with a character it would replace.                                      *)
OpenLog ==
    /\ AtTest /\ Selected(This)
    /\ \/ /\ logs' = logs \cup {This} /\ j' = 0 /\ pc' = "attempt"
          /\ UNCHANGED raised
       \/ Raise("name") /\ UNCHANGED <<logs, j>>
    /\ UNCHANGED <<g, i, dropped, tests, result, counts, turns>>

(* After a run: again, if the test has failed and may be repeated. *)
Again(v) == v = "FAIL" /\ j < Repeat

AfterRun ==
    /\ turns' = [turns EXCEPT ![This] = @ + 1]
    /\ \/ Again(verdict'[This]) /\ j' = j + 1 /\ UNCHANGED pc
       \/ ~Again(verdict'[This]) /\ pc' = "close" /\ UNCHANGED j

(* reason is cleared before every repeat, not before the first run *)
ReasonBefore == IF j > 0 THEN "none" ELSE reason[This]

(* What a test that has passed leaves.  Mutant: its verdict is forgotten.  *)
MutantPassed(t) == [verdict EXCEPT ![t] = "NOT_RUN"]
Passed(t) == [verdict EXCEPT ![t] = "PASS"]

(* What the main loop of a run leaves in the test. *)
Outcome ==
    /\ \/ /\ verdict' = Passed(This)
          /\ reason' = [reason EXCEPT ![This] = ReasonBefore]
          /\ last' = [last EXCEPT ![This] = "passed"]
       \/ /\ verdict' = [verdict EXCEPT ![This] = "FAIL"]
          /\ reason' = [reason EXCEPT ![This] = "failed"]
          /\ last' = [last EXCEPT ![This] = "failed"]
    /\ run_count' = [run_count EXCEPT ![This] = @ + 1]

RunTest ==
    /\ pc = "attempt"
    /\ Outcome /\ AfterRun
    /\ UNCHANGED <<g, i, dropped, tests, logs, counts, raised>>

(* start_condition says no: the verdict stays what it was. *)
SkipTest ==
    /\ pc = "attempt" /\ "skip" \in Troubles
    /\ reason' = [reason EXCEPT ![This] = "skipped"]
    /\ last' = [last EXCEPT ![This] = "skipped"]
    /\ UNCHANGED <<verdict, run_count>>
    /\ AfterRun
    /\ UNCHANGED <<g, i, dropped, tests, logs, counts, raised>>

(* Test.run itself raises, from its start_condition or, the test having an *)
(* outcome, from its clean-up.                                             *)
RunRaises ==
    /\ pc = "attempt" /\ Raise("raise")
    /\ UNCHANGED result \/ Outcome
    /\ UNCHANGED <<loop, tests, logs, counts, turns>>

CloseLog ==
    /\ pc = "close"
    /\ logs' = logs \ {This}
    /\ i' = i + 1 /\ pc' = "test"
    /\ UNCHANGED <<g, j, dropped, tests, result, counts, raised, turns>>

GroupDone ==
    /\ pc = "test" /\ i > Len(tests[g])
    /\ pc' = "report"
    /\ UNCHANGED <<loop, tests, result, logs, counts, raised, turns>>

ReportGroup ==
    /\ pc = "report"
    /\ tests' = [tests EXCEPT ![g] = Without(@, dropped)]
    /\ g' = g + 1 /\ pc' = "group"
    /\ UNCHANGED <<i, j, dropped, result, logs, counts, raised, turns>>

(* The tests left in the groups, and how many of them have a verdict. *)
Reported == UNION {Range(tests[h]) : h \in 1..Len(Groups)}
Count(v) == Cardinality({t \in Reported : verdict[t] = v})

Summary ==
    /\ pc = "group" /\ g > Len(Groups)
    /\ counts' = [passed |-> Count("PASS"), failed |-> Count("FAIL"),
                  not_run |-> Count("NOT_RUN")]
    /\ pc' = "teardown"
    /\ UNCHANGED <<loop, tests, result, logs, raised, turns>>

Teardown ==
    /\ pc = "teardown"
    /\ pc' = "ended"
    /\ raised' \in {raised} \cup (IF "teardown" \in Troubles THEN {TRUE}
                                  ELSE {})
    /\ UNCHANGED <<loop, tests, result, logs, counts, turns>>

Ended == pc = "ended" /\ UNCHANGED vars

Next ==
    \/ Setup \/ EnterGroup \/ DevicesMissing \/ Deselect \/ PrepareFails
    \/ OpenLog \/ RunTest \/ SkipTest \/ RunRaises \/ CloseLog \/ GroupDone
    \/ ReportGroup \/ Summary \/ Teardown \/ Ended

Spec == Init /\ [][Next]_vars

(* The runner is one thread, and TestCase's liveness is that a test ends. *)

(***************************************************************************)
(* Properties.                                                             *)
(***************************************************************************)
(* The tests of s that the tags select, in their order. *)
SelectedOf(s) ==
    FoldLeft(LAMBDA r, t : IF Selected(t) THEN Append(r, t) ELSE r, <<>>, s)

(* A group that has been reported holds exactly the tests the tags select, *)
(* in their order, however many are removed while the loop goes over them  *)
(* by index (test_indexes_to_remove).                                      *)
RightTestsRemoved ==
    \A h \in 1..Len(Groups) :
        h < g /\ ~Groups[h].missing =>
            tests[h] = SelectedOf(Groups[h].tests)

(* A verdict has a run behind it: a test that counts as passed did pass    *)
(* when it last ran, and one that failed had its own run or the setup of   *)
(* its group fail; a test with a run behind it counts as run.              *)
VerdictHasCause ==
    \A t \in Tests :
        /\ verdict[t] = "PASS" => last[t] = "passed"
        /\ last[t] = "passed" => verdict[t] = "PASS" \/ reason[t] = "prepare"
        /\ last[t] = "failed" => verdict[t] = "FAIL"

(* When run returns, the summary has counted every test that is left in a  *)
(* group (print_runner_results).                                           *)
CountsAddUp ==
    pc = "ended" /\ ~raised =>
        counts.passed + counts.failed + counts.not_run = Cardinality(Reported)

(* When run returns, a selected test that counts as not run was skipped or *)
(* had no device: none is forgotten on the way (the loops of run).         *)
NoneLeftOut ==
    pc = "ended" /\ ~raised =>
        \A h \in 1..Len(Groups) : \A t \in Range(Groups[h].tests) :
            Selected(t) /\ verdict[t] = "NOT_RUN" =>
                Groups[h].missing \/ last[t] = "skipped"

(* A test fails for good only after it has been given all the turns the    *)
(* user has asked for, skipped ones included, unless the failure is that   *)
(* of its group's setup (the loop over run_count in run).                  *)
RepeatedEnough ==
    \A t \in Tests :
        verdict[t] = "FAIL" /\ reason[t] # "prepare" /\ t \notin logs
            => turns[t] = Repeat + 1


(* The report is about the tests the tags select, all of them and no       *)
(* others, although tests are removed by index and anything may raise      *)
(* (run and print_runner_results).                                         *)
TestsReported == RightTestsRemoved /\ CountsAddUp /\ NoneLeftOut

(* A verdict is the one of the last of the runs that were asked for (the   *)
(* repeat loop of run).                                                    *)
VerdictsAreEarned == VerdictHasCause /\ RepeatedEnough
=============================================================================

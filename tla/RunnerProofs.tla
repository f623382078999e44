---------------------------- MODULE RunnerProofs ----------------------------
(***************************************************************************)
(* What is proved of a session of the runner, for any groups, tests, tags  *)
(* and repetitions, and whatever goes wrong:                               *)
(*   SessionTypeCorrect  SessionTypeOK                                     *)
(*   VerdictsEarned      VerdictsAreEarned                                 *)
(*   ReportIsRight       TestsReported                                     *)
(*                                                                         *)
(* The first two rest on where the loops are and what they have not come   *)
(* to yet.  The third needs what the folds compute that remove tests by    *)
(* index and that select them: they are taken apart step by step, and what *)
(* holds of every step is shown by looking at the first one where it fails.*)
(***************************************************************************)
EXTENDS Runner, TLAPS, SequenceTheorems, FiniteSetTheorems,
        WellFoundedInduction

-----------------------------------------------------------------------------
Places == {"setup", "group", "test", "attempt", "close", "report", "teardown",
           "ended"}

InGroup == {"test", "attempt", "close", "report"}
Over == {"teardown", "ended"}

(* The tests of a group, by their places before any is removed. *)
Members(h) == 1..Len(Groups[h].tests)
Member(h, k) == Groups[h].tests[k]

SessionTypeOK ==
    /\ pc \in Places
    /\ g \in Nat \ {0} /\ i \in Nat \ {0} /\ j \in Nat
    /\ pc \in InGroup => g \in 1..Len(Groups)
    /\ pc \in {"attempt", "close"} => i \in Members(g)
    /\ pc \in {"test", "attempt", "close"} => ~Groups[g].missing
    /\ DOMAIN tests = 1..Len(Groups)
    /\ verdict \in [Tests -> Verdicts]
    /\ DOMAIN reason = Tests /\ DOMAIN last = Tests
    /\ turns \in [Tests -> Nat]
    /\ logs \subseteq Tests

(* Tests are removed from a group when it is reported, not before. *)
NotYetRemoved ==
    pc \notin Over =>
        \A h \in 1..Len(Groups) : h >= g => tests[h] = Groups[h].tests

(* What is ahead of the loops: groups, and tests of the group they are in. *)
GroupAhead(h) == h > g \/ (h = g /\ pc \in {"setup", "group"})
Ahead(h, k) ==
    \/ GroupAhead(h)
    \/ h = g /\ pc = "test" /\ k >= i
    \/ h = g /\ pc \in {"attempt", "close"} /\ k > i

(* Nothing has happened to a test that is ahead, except that the setup of   *)
(* its group may have failed for another one.                               *)
Untouched(t) ==
    /\ last[t] = "none" /\ turns[t] = 0 /\ t \notin logs
    /\ verdict[t] = "NOT_RUN" \/ (verdict[t] = "FAIL" /\ reason[t] = "prepare")

AheadUntouched ==
    pc \notin Over =>
        \A h \in 1..Len(Groups) : \A k \in Members(h) :
            /\ Ahead(h, k) => Untouched(Member(h, k))
            /\ GroupAhead(h) => verdict[Member(h, k)] = "NOT_RUN"

(* A selected test that is behind has a verdict, was skipped or had no      *)
(* device.                                                                  *)
BehindSettled ==
    ~raised =>
        \A h \in 1..Len(Groups) : \A k \in Members(h) :
            \/ pc \notin Over /\ Ahead(h, k)
            \/ pc = "attempt" /\ h = g /\ k = i
            \/ Groups[h].missing
            \/ ~Selected(Member(h, k))
            \/ verdict[Member(h, k)] # "NOT_RUN"
            \/ last[Member(h, k)] = "skipped"

(* The test that has its turn. *)
InTurn ==
    /\ pc \in {"attempt", "close"} => Member(g, i) \in logs
    /\ pc = "attempt" =>
          LET t == Member(g, i) IN
          /\ turns[t] = j /\ j <= Repeat
          /\ verdict[t] # "PASS" /\ last[t] # "passed"
          /\ j > 0 => verdict[t] = "FAIL"
          /\ j = 0 => last[t] = "none"
    /\ pc = "close" =>
          LET t == Member(g, i) IN
          verdict[t] = "FAIL" => turns[t] = Repeat + 1

-----------------------------------------------------------------------------
(* The groups and their tests. *)
LEMMA GroupsTyped ==
  /\ Len(Groups) \in Nat
  /\ \A h \in 1..Len(Groups) :
        /\ Groups[h].missing \in BOOLEAN
        /\ Len(Groups[h].tests) \in Nat
        /\ DOMAIN Groups[h].tests = Members(h)
        /\ \A k \in Members(h) : Member(h, k) \in Tests
        /\ Range(Groups[h].tests) = {Member(h, k) : k \in Members(h)}
<1> DEFINE G == [tests: Seq(Tests), missing: BOOLEAN, prepare: BOOLEAN]
<1>0. Groups \in Seq(G)
  BY RunnerAssumption
<1>1. /\ Len(Groups) \in Nat
      /\ \A h \in 1..Len(Groups) : Groups[h] \in G
  <2> HIDE DEF G
  <2> QED
    BY <1>0
<1>2. ASSUME NEW h \in 1..Len(Groups)
      PROVE  Groups[h] \in [tests: Seq(Tests), missing: BOOLEAN,
                            prepare: BOOLEAN]
  BY <1>1
<1>3. ASSUME NEW h \in 1..Len(Groups)
      PROVE  Groups[h].tests \in Seq(Tests) /\ Groups[h].missing \in BOOLEAN
  BY <1>2
<1>4. ASSUME NEW h \in 1..Len(Groups)
      PROVE  /\ Len(Groups[h].tests) \in Nat
             /\ DOMAIN Groups[h].tests = 1..Len(Groups[h].tests)
             /\ \A k \in 1..Len(Groups[h].tests) : Groups[h].tests[k] \in Tests
  BY <1>3
<1>5. ASSUME NEW h \in 1..Len(Groups)
      PROVE  Range(Groups[h].tests) = {Member(h, k) : k \in Members(h)}
  BY <1>4, Zenon DEF Range, Member, Members
<1> QED
  BY <1>1, <1>3, <1>4, <1>5 DEF Member, Members

(* No test is at two places: the places of a test are compared, not the    *)
(* test.                                                                    *)
LEMMA OnePlace ==
  ASSUME NEW h1 \in 1..Len(Groups), NEW k1 \in Members(h1),
         NEW h2 \in 1..Len(Groups), NEW k2 \in Members(h2),
         Member(h1, k1) = Member(h2, k2)
  PROVE  h1 = h2 /\ k1 = k2
<1>1. Member(h1, k1) \in Range(Groups[h1].tests)
  BY GroupsTyped
<1>2. Member(h2, k2) \in Range(Groups[h2].tests)
  BY GroupsTyped
<1>3. h1 = h2
  <2>1. CASE h1 # h2
    <3>1. Range(Groups[h1].tests) \cap Range(Groups[h2].tests) = {}
      BY <2>1, RunnerAssumption
    <3> QED
      BY <1>1, <1>2, <3>1
  <2> QED
    BY <2>1
<1>4. IsInjective(Groups[h1].tests)
  BY RunnerAssumption
<1>5. k1 \in DOMAIN Groups[h1].tests /\ k2 \in DOMAIN Groups[h1].tests
  BY <1>3, GroupsTyped
<1>6. k1 = k2
  BY <1>3, <1>4, <1>5 DEF IsInjective, Member
<1> QED
  BY <1>3, <1>6

-----------------------------------------------------------------------------
(* Where the loops are, in terms of the groups. *)
LEMMA Here ==
  ASSUME SessionTypeOK, NotYetRemoved
  PROVE  /\ pc \in {"attempt", "close"} \/ AtTest =>
               /\ g \in 1..Len(Groups) /\ i \in Members(g)
               /\ This = Member(g, i) /\ This \in Tests
         /\ pc \notin Over /\ g <= Len(Groups) =>
               /\ g \in 1..Len(Groups)
               /\ tests[g] = Groups[g].tests
               /\ Range(tests[g]) = {Member(g, k) : k \in Members(g)}
<1>1. ASSUME pc \notin Over, g <= Len(Groups)
      PROVE  g \in 1..Len(Groups) /\ tests[g] = Groups[g].tests
  BY <1>1, GroupsTyped DEF SessionTypeOK, NotYetRemoved
<1>2. ASSUME pc \in {"attempt", "close"} \/ AtTest
      PROVE  g \in 1..Len(Groups) /\ i \in Members(g) /\ pc \notin Over
  <2>1. pc \in InGroup /\ pc \notin Over /\ g \in 1..Len(Groups)
    BY <1>2 DEF SessionTypeOK, InGroup, Over, AtTest
  <2>2. CASE AtTest
    <3>1. tests[g] = Groups[g].tests
      BY <1>1, <2>1, GroupsTyped
    <3> QED
      BY <2>1, <2>2, <3>1, GroupsTyped DEF AtTest, Members, SessionTypeOK
  <2> QED
    BY <1>2, <2>1, <2>2 DEF SessionTypeOK
<1>3. ASSUME pc \in {"attempt", "close"} \/ AtTest
      PROVE  This = Member(g, i) /\ This \in Tests
  <2>1. tests[g] = Groups[g].tests
    BY <1>1, <1>2, <1>3, GroupsTyped DEF SessionTypeOK
  <2>2. This = Member(g, i)
    BY <2>1 DEF This, Member
  <2> QED
    BY <1>2, <1>3, <2>2, GroupsTyped
<1>4. ASSUME pc \notin Over, g <= Len(Groups)
      PROVE  Range(tests[g]) = {Member(g, k) : k \in Members(g)}
  BY <1>1, <1>4, GroupsTyped
<1> QED
  BY <1>1, <1>2, <1>3, <1>4

(* The types of a session. *)
LEMMA TypeInit == Init => SessionTypeOK
  BY GroupsTyped DEF Init, SessionTypeOK, Places, InGroup, Verdicts

(* Every step keeps the types. *)
LEMMA TypeStep ==
  ASSUME SessionTypeOK, NotYetRemoved, Next
  PROVE  SessionTypeOK'
<1> USE GroupsTyped, Here, RunnerAssumption
    DEF SessionTypeOK, Places, InGroup, Verdicts, loop, result
<1>1. CASE Setup
  BY <1>1 DEF Setup, Raise
<1>2. CASE EnterGroup
  BY <1>2 DEF EnterGroup, Over
<1>3. CASE DevicesMissing
  BY <1>3 DEF DevicesMissing, Over
<1>4. CASE Deselect
  BY <1>4 DEF Deselect, AtTest
<1>5. CASE PrepareFails
  BY <1>5 DEF PrepareFails, AtTest
<1>6. CASE OpenLog
  BY <1>6 DEF OpenLog, Raise, AtTest
<1>7. CASE RunTest
  <2>1. This \in Tests
    BY <1>7 DEF RunTest
  <2>2. verdict' \in [Tests -> Verdicts] /\ DOMAIN reason' = Tests
        /\ DOMAIN last' = Tests
    <3>1. CASE verdict' = Passed(This)
      BY <1>7, <2>1, <3>1 DEF RunTest, Outcome, Passed
    <3>2. CASE verdict' = [verdict EXCEPT ![This] = "FAIL"]
      BY <1>7, <2>1, <3>2 DEF RunTest, Outcome
    <3> QED
      BY <1>7, <3>1, <3>2 DEF RunTest, Outcome
  <2>3. turns' \in [Tests -> Nat]
    BY <1>7, <2>1, SMTT(60) DEF RunTest, AfterRun
  <2>4. pc' \in {"attempt", "close"} /\ j' \in Nat
    BY <1>7 DEF RunTest, AfterRun
  <2> QED
    BY <1>7, <2>2, <2>3, <2>4 DEF RunTest
<1>8. CASE SkipTest
  <2>1. turns' \in [Tests -> Nat]
    BY <1>8, SMTT(60) DEF SkipTest, AfterRun
  <2>2. pc' \in {"attempt", "close"} /\ j' \in Nat
    BY <1>8 DEF SkipTest, AfterRun
  <2> QED
    BY <1>8, <2>1, <2>2 DEF SkipTest
<1>9. CASE RunRaises
  <2>1. CASE UNCHANGED result
    BY <1>9, <2>1 DEF RunRaises, Raise
  <2>2. CASE Outcome
    <3>1. This \in Tests
      BY <1>9 DEF RunRaises
    <3>2. DOMAIN reason' = Tests /\ DOMAIN last' = Tests
      BY <2>2 DEF Outcome
    <3>3. verdict' \in [Tests -> Verdicts]
      <4>1. CASE verdict' = Passed(This)
        BY <3>1, <4>1 DEF Passed
      <4>2. CASE verdict' = [verdict EXCEPT ![This] = "FAIL"]
        BY <3>1, <4>2
      <4> QED
        BY <2>2, <4>1, <4>2 DEF Outcome
    <3> QED
      BY <1>9, <3>2, <3>3 DEF RunRaises, Raise
  <2> QED
    BY <1>9, <2>1, <2>2 DEF RunRaises
<1>10. CASE CloseLog
  BY <1>10 DEF CloseLog
<1>11. CASE GroupDone
  BY <1>11 DEF GroupDone
<1>12. CASE ReportGroup
  BY <1>12 DEF ReportGroup
<1>13. CASE Summary \/ Teardown \/ Ended
  BY <1>13 DEF Summary, Teardown, Ended, vars
<1> QED
  BY <1>1, <1>2, <1>3, <1>4, <1>5, <1>6, <1>7, <1>8, <1>9, <1>10, <1>11, <1>12,
     <1>13
  DEF Next

(* Only ReportGroup removes tests, and it leaves the group for good. *)
LEMMA RemovedStep ==
  ASSUME SessionTypeOK, NotYetRemoved, Next
  PROVE  NotYetRemoved'
<1>1. CASE ReportGroup
  BY <1>1, GroupsTyped
  DEF ReportGroup, SessionTypeOK, NotYetRemoved, InGroup, Over
<1>2. CASE ~ReportGroup
  <2>1. pc' \notin Over => pc \notin Over
    BY <1>2 DEF Next, Setup, EnterGroup, DevicesMissing, Deselect,
      PrepareFails, OpenLog, RunTest, SkipTest, RunRaises, CloseLog,
      GroupDone, Summary, Teardown, Ended, Raise, AfterRun, AtTest, Over, vars
  <2>2. tests' = tests /\ g' = g
    BY <1>2 DEF Next, Setup, EnterGroup, DevicesMissing, Deselect,
      PrepareFails, OpenLog, RunTest, SkipTest, RunRaises, CloseLog,
      GroupDone, Summary, Teardown, Ended, vars, loop
  <2> QED
    BY <2>1, <2>2 DEF NotYetRemoved
<1> QED
  BY <1>1, <1>2

-----------------------------------------------------------------------------
(* The loops only go forward: what is ahead after a step was ahead before. *)
LEMMA AheadShrinks ==
  ASSUME SessionTypeOK, Next, pc' \notin Over,
         NEW h \in 1..Len(Groups), NEW k \in Members(h)
  PROVE  /\ pc \notin Over
         /\ Ahead(h, k)' => Ahead(h, k)
         /\ GroupAhead(h)' => GroupAhead(h)
<1> USE DEF SessionTypeOK, Ahead, GroupAhead, Over, loop
<1>0. h \in Nat /\ k \in Nat /\ k >= 1
  BY GroupsTyped DEF Members
<1>1. CASE Setup
  BY <1>1 DEF Setup, Raise
<1>2. CASE EnterGroup
  BY <1>0, <1>2 DEF EnterGroup
<1>3. CASE DevicesMissing
  BY <1>3 DEF DevicesMissing
<1>4. CASE Deselect
  BY <1>0, <1>4 DEF Deselect, AtTest
<1>5. CASE PrepareFails
  BY <1>0, <1>5 DEF PrepareFails, AtTest
<1>6. CASE OpenLog
  BY <1>0, <1>6 DEF OpenLog, Raise, AtTest
<1>7. CASE RunTest
  <2>1. pc = "attempt" /\ pc' \in {"attempt", "close"} /\ g' = g /\ i' = i
    BY <1>7 DEF RunTest, AfterRun
  <2> QED
    BY <2>1
<1>8. CASE SkipTest
  <2>1. pc = "attempt" /\ pc' \in {"attempt", "close"} /\ g' = g /\ i' = i
    BY <1>8 DEF SkipTest, AfterRun
  <2> QED
    BY <2>1
<1>9. CASE RunRaises
  BY <1>9 DEF RunRaises, Raise
<1>10. CASE CloseLog
  BY <1>0, <1>10 DEF CloseLog
<1>11. CASE GroupDone
  BY <1>11 DEF GroupDone
<1>12. CASE ReportGroup
  BY <1>0, <1>12 DEF ReportGroup
<1>13. CASE Summary \/ Teardown \/ Ended
  BY <1>13 DEF Summary, Teardown, Ended, vars
<1> QED
  BY <1>1, <1>2, <1>3, <1>4, <1>5, <1>6, <1>7, <1>8, <1>9, <1>10, <1>11, <1>12,
     <1>13
  DEF Next

(* What a step does to a test.  A test that none of these is about keeps    *)
(* its results.                                                             *)
Same(t) ==
    /\ verdict'[t] = verdict[t] /\ reason'[t] = reason[t]
    /\ last'[t] = last[t] /\ turns'[t] = turns[t]
    /\ t \in logs' <=> t \in logs

(* A step changes what is known of one test, or of its whole group. *)
LEMMA Touched ==
  ASSUME SessionTypeOK, NotYetRemoved, Next, NEW t \in Tests
  PROVE  \/ Same(t)
         \/ /\ RunTest \/ RunRaises \/ SkipTest \/ CloseLog \/ OpenLog
            /\ t = This
         \/ (DevicesMissing \/ PrepareFails) /\ t \in Range(tests[g])
<1> USE DEF Same, SessionTypeOK, result
<1>1. CASE DevicesMissing
  <2>1. verdict' = verdict /\ last' = last /\ turns' = turns /\ logs' = logs
    BY <1>1 DEF DevicesMissing
  <2>2. t \notin Range(tests[g]) => reason'[t] = reason[t]
    BY <1>1 DEF DevicesMissing
  <2> QED
    BY <1>1, <2>1, <2>2
<1>2. CASE PrepareFails
  <2>1. last' = last /\ turns' = turns /\ logs' = logs
    BY <1>2 DEF PrepareFails
  <2>2. t \notin Range(tests[g]) =>
          verdict'[t] = verdict[t] /\ reason'[t] = reason[t]
    BY <1>2 DEF PrepareFails
  <2> QED
    BY <1>2, <2>1, <2>2
<1>3. CASE RunTest
  BY <1>3 DEF RunTest, Outcome, AfterRun, Passed
<1>4. CASE SkipTest
  BY <1>4 DEF SkipTest, AfterRun
<1>5. CASE OpenLog
  BY <1>5 DEF OpenLog
<1>6. CASE CloseLog
  BY <1>6 DEF CloseLog
<1>7. CASE Setup \/ EnterGroup \/ Deselect
  BY <1>7 DEF Setup, EnterGroup, Deselect
<1>8. CASE GroupDone \/ ReportGroup \/ Summary \/ Teardown \/ Ended
  BY <1>8 DEF GroupDone, ReportGroup, Summary, Teardown, Ended, vars
<1>9. CASE RunRaises
  BY <1>9 DEF RunRaises, Outcome, Passed
<1> QED
  BY <1>1, <1>2, <1>3, <1>4, <1>5, <1>6, <1>7, <1>8, <1>9 DEF Next

(* A test that is ahead is not the one in turn. *)
LEMMA AheadStep ==
  ASSUME SessionTypeOK, NotYetRemoved, AheadUntouched, Next
  PROVE  AheadUntouched'
<1> SUFFICES ASSUME pc' \notin Over,
                    NEW h \in 1..Len(Groups), NEW k \in Members(h)
             PROVE  /\ Ahead(h, k)' => Untouched(Member(h, k))'
                    /\ GroupAhead(h)' => verdict'[Member(h, k)] = "NOT_RUN"
  BY DEF AheadUntouched
<1> DEFINE t == Member(h, k)
<1>1. t \in Tests
  BY GroupsTyped
<1>2. /\ pc \notin Over
      /\ Ahead(h, k)' => Ahead(h, k)
      /\ GroupAhead(h)' => GroupAhead(h)
  BY AheadShrinks
<1>3. /\ Ahead(h, k) => Untouched(t)
      /\ GroupAhead(h) => verdict[t] = "NOT_RUN"
  BY <1>2 DEF AheadUntouched
<1>4. CASE Same(t)
  BY <1>2, <1>3, <1>4 DEF Same, Untouched
<1>5. CASE /\ RunTest \/ RunRaises \/ SkipTest \/ CloseLog \/ OpenLog
           /\ t = This
  <2>1. g \in 1..Len(Groups) /\ i \in Members(g) /\ t = Member(g, i)
    BY <1>5, Here DEF RunTest, RunRaises, SkipTest, CloseLog, OpenLog
  <2>2. h = g /\ k = i
    BY <2>1, OnePlace
  <2>3. /\ g' = g
        /\ \/ i' = i /\ pc' \in {"attempt", "close"}
           \/ i' = i + 1 /\ pc' = "test"
    <3>1. CASE RunTest \/ SkipTest
      BY <3>1 DEF RunTest, SkipTest, AfterRun
    <3>2. CASE CloseLog
      BY <3>2 DEF CloseLog
    <3>3. CASE OpenLog
      BY <3>3 DEF OpenLog, Raise, Over
    <3>4. ~RunRaises
      BY DEF RunRaises, Raise, Over
    <3> QED
      BY <1>5, <3>1, <3>2, <3>3, <3>4
  <2>4. ~Ahead(h, k)' /\ ~GroupAhead(h)'
    BY <2>2, <2>3 DEF Ahead, GroupAhead, SessionTypeOK
  <2> QED
    BY <2>4
<1>6. CASE DevicesMissing /\ t \in Range(tests[g])
  <2>1. PICK kk \in Members(g) : t = Member(g, kk)
    BY <1>2, <1>6, Here DEF DevicesMissing
  <2>2. h = g
    BY <1>6, <2>1, OnePlace, Here, <1>2 DEF DevicesMissing
  <2>3. g' = g /\ pc' = "report"
    BY <1>6 DEF DevicesMissing
  <2>4. ~Ahead(h, k)' /\ ~GroupAhead(h)'
    BY <2>2, <2>3 DEF Ahead, GroupAhead, SessionTypeOK
  <2> QED
    BY <2>4
<1>7. CASE PrepareFails /\ t \in Range(tests[g])
  <2>0. g \in 1..Len(Groups)
    BY <1>7, Here DEF PrepareFails
  <2>1. PICK kk \in Members(g) : t = Member(g, kk)
    BY <1>2, <1>7, <2>0, Here DEF PrepareFails
  <2>2. h = g
    BY <2>0, <2>1, OnePlace
  <2>3. g' = g /\ pc' = "test" /\ last' = last /\ turns' = turns /\ logs' = logs
    BY <1>7 DEF PrepareFails, AtTest
  <2>4. ~GroupAhead(h)'
    BY <2>2, <2>3 DEF GroupAhead, SessionTypeOK
  <2>5. verdict'[t] = "FAIL" /\ reason'[t] = "prepare"
    BY <1>1, <1>7 DEF PrepareFails
  <2>6. Ahead(h, k)' => Untouched(t)'
    BY <1>2, <1>3, <2>3, <2>5 DEF Untouched
  <2> QED
    BY <2>4, <2>6
<1> HIDE DEF t
<1> QED
  BY <1>1, <1>4, <1>5, <1>6, <1>7, Touched DEF t

(* The test in turn has as many runs behind it as the loop has counted. *)
LEMMA InTurnStep ==
  ASSUME SessionTypeOK, NotYetRemoved, AheadUntouched, InTurn, Next
  PROVE  InTurn'
<1> DEFINE t == Member(g, i)
<1>1. CASE OpenLog
  <2>1. /\ g \in 1..Len(Groups) /\ i \in Members(g) /\ This = t /\ t \in Tests
        /\ pc = "test"
    BY <1>1, Here DEF OpenLog, AtTest
  <2>2. Untouched(t)
    BY <2>1 DEF AheadUntouched, Ahead, Over, SessionTypeOK
  <2>3. CASE pc' = "teardown"
    BY <2>3 DEF InTurn
  <2>4. CASE pc' # "teardown"
    <3>1. /\ logs' = logs \cup {t} /\ j' = 0 /\ pc' = "attempt"
          /\ g' = g /\ i' = i /\ verdict' = verdict /\ last' = last
          /\ turns' = turns
      BY <1>1, <2>1, <2>4 DEF OpenLog, Raise, result
    <3> QED
      BY <2>2, <3>1, RunnerAssumption DEF InTurn, Untouched
  <2> QED
    BY <2>3, <2>4
<1>2. CASE RunTest \/ SkipTest
  <2>1. /\ g \in 1..Len(Groups) /\ i \in Members(g) /\ This = t /\ t \in Tests
        /\ pc = "attempt"
    BY <1>2, Here DEF RunTest, SkipTest
  <2>2. g' = g /\ i' = i /\ logs' = logs
    BY <1>2 DEF RunTest, SkipTest
  <2>3. turns'[t] = turns[t] + 1
    BY <1>2, <2>1 DEF RunTest, SkipTest, AfterRun, SessionTypeOK
  <2>4. /\ last'[t] = "passed" => verdict'[t] = "PASS"
        /\ verdict'[t] = "PASS" => last'[t] = "passed"
        /\ last'[t] # "none"
    <3>1. CASE RunTest
      BY <2>1, <3>1 DEF RunTest, Outcome, Passed, SessionTypeOK
    <3>2. CASE SkipTest
      BY <2>1, <3>2 DEF SkipTest, SessionTypeOK, InTurn
    <3> QED
      BY <1>2, <3>1, <3>2
  <2>5. turns[t] = j /\ j <= Repeat /\ j \in Nat /\ Repeat \in Nat /\ t \in logs
    BY <2>1, RunnerAssumption DEF InTurn, SessionTypeOK
  <2>6. \/ /\ verdict'[t] = "FAIL" /\ j < Repeat
           /\ j' = j + 1 /\ pc' = "attempt"
        \/ ~(verdict'[t] = "FAIL" /\ j < Repeat) /\ pc' = "close"
    BY <1>2, <2>1 DEF RunTest, SkipTest, AfterRun, Again
  <2> HIDE DEF t
  <2>7. CASE pc' = "attempt"
    <3>1. /\ turns'[t] = j' /\ j' <= Repeat /\ j' > 0
          /\ verdict'[t] = "FAIL" /\ last'[t] # "passed"
      BY <2>3, <2>4, <2>5, <2>6, <2>7
    <3>2. j' # 0
      BY <3>1
    <3> QED
      BY <2>2, <2>5, <2>7, <3>1, <3>2 DEF InTurn, t
  <2>8. CASE pc' = "close"
    <3>1. verdict'[t] = "FAIL" => turns'[t] = Repeat + 1
      BY <2>3, <2>5, <2>6, <2>8
    <3> QED
      BY <2>2, <2>5, <2>8, <3>1 DEF InTurn, t
  <2> QED
    BY <2>6, <2>7, <2>8
<1>3. CASE ~(OpenLog \/ RunTest \/ SkipTest)
  <2>1. pc' \notin {"attempt", "close"} \/ UNCHANGED vars
    BY <1>3 DEF Next, Setup, EnterGroup, DevicesMissing, Deselect,
      PrepareFails, RunRaises, CloseLog, GroupDone, ReportGroup, Summary,
      Teardown, Ended, Raise, AtTest
  <2> QED
    BY <2>1 DEF InTurn, vars, loop, result
<1> QED
  BY <1>1, <1>2, <1>3

-----------------------------------------------------------------------------
(* Verdicts are settled once the loops have gone by. *)
LEMMA BehindStep ==
  ASSUME SessionTypeOK, NotYetRemoved, BehindSettled, InTurn, Next
  PROVE  BehindSettled'
<1> SUFFICES ASSUME ~raised',
                    NEW h \in 1..Len(Groups), NEW k \in Members(h)
             PROVE  \/ pc' \notin Over /\ Ahead(h, k)'
                    \/ pc' = "attempt" /\ h = g' /\ k = i'
                    \/ Groups[h].missing
                    \/ ~Selected(Member(h, k))
                    \/ verdict'[Member(h, k)] # "NOT_RUN"
                    \/ last'[Member(h, k)] = "skipped"
  BY DEF BehindSettled, Selected
<1> DEFINE t == Member(h, k)
           Settled == \/ Groups[h].missing
                      \/ ~Selected(t)
                      \/ verdict[t] # "NOT_RUN"
                      \/ last[t] = "skipped"
<1>0. t \in Tests /\ h \in Nat /\ k \in Nat /\ k >= 1
  BY GroupsTyped DEF Members
<1>1. ~raised
  BY DEF Next, Setup, EnterGroup, DevicesMissing, Deselect, PrepareFails,
    OpenLog, RunTest, SkipTest, RunRaises, CloseLog, GroupDone, ReportGroup,
    Summary, Teardown, Ended, Raise, vars
<1>2. \/ pc \notin Over /\ Ahead(h, k)
      \/ pc = "attempt" /\ h = g /\ k = i
      \/ Settled
  BY <1>1 DEF BehindSettled
(* A settled test stays so. *)
<1>3. ASSUME Settled, pc # "attempt" \/ h # g \/ k # i
      PROVE  \/ Groups[h].missing \/ ~Selected(t)
             \/ verdict'[t] # "NOT_RUN" \/ last'[t] = "skipped"
  <2>1. CASE Same(t)
    BY <1>3, <2>1 DEF Same
  <2>2. CASE (RunTest \/ SkipTest) /\ t = This
    <3>1. /\ g \in 1..Len(Groups) /\ i \in Members(g) /\ t = Member(g, i)
          /\ pc = "attempt"
      BY <2>2, Here DEF RunTest, SkipTest
    <3>2. h = g /\ k = i
      BY <3>1, OnePlace
    <3> QED
      BY <1>3, <3>1, <3>2
  <2>3. CASE (CloseLog \/ OpenLog \/ DevicesMissing)
    <3>1. verdict' = verdict /\ last' = last
      BY <2>3 DEF CloseLog, OpenLog, DevicesMissing, result
    <3> QED
      BY <1>3, <3>1
  <2>4. CASE PrepareFails /\ t \in Range(tests[g])
    <3>1. verdict'[t] = "FAIL"
      BY <1>0, <2>4 DEF PrepareFails
    <3> QED
      BY <3>1
  <2>5. ~RunRaises
    BY DEF RunRaises, Raise
  <2> HIDE DEF t, Settled
  <2> QED
    BY <1>0, <2>1, <2>2, <2>3, <2>4, <2>5, Touched
(* A test leaves what is ahead with a verdict or a reason for none. *)
<1>4. ASSUME pc \notin Over, Ahead(h, k)
      PROVE  \/ pc' \notin Over /\ Ahead(h, k)'
             \/ pc' = "attempt" /\ h = g' /\ k = i'
             \/ Groups[h].missing \/ ~Selected(t)
             \/ verdict'[t] # "NOT_RUN" \/ last'[t] = "skipped"
  <2> USE DEF Ahead, GroupAhead, Over, loop
  <2>1. CASE Setup
    BY <1>1, <1>4, <2>1 DEF Setup, Raise
  <2>2. CASE EnterGroup
    BY <1>0, <1>4, <2>2 DEF EnterGroup
  <2>3. CASE DevicesMissing
    BY <1>4, <2>3 DEF DevicesMissing
  <2>4. CASE Deselect
    <3>1. CASE h = g /\ k = i
      <4>1. This = t
        BY <2>4, <3>1, Here DEF Deselect
      <4> QED
        BY <2>4, <4>1 DEF Deselect
    <3> QED
      BY <1>0, <1>4, <2>4, <3>1 DEF Deselect, AtTest, SessionTypeOK
  <2>5. CASE PrepareFails
    <3>1. CASE h = g /\ k = i
      <4>1. t \in Range(tests[g])
        BY <2>5, <3>1, <1>4, Here DEF PrepareFails
      <4> QED
        BY <1>0, <2>5, <4>1 DEF PrepareFails
    <3> QED
      BY <1>0, <1>4, <2>5, <3>1 DEF PrepareFails, AtTest, SessionTypeOK
  <2>6. CASE OpenLog
    BY <1>0, <1>1, <1>4, <2>6 DEF OpenLog, Raise, AtTest, SessionTypeOK
  <2>7. CASE RunTest \/ SkipTest
    <3>1. pc = "attempt" /\ pc' \in {"attempt", "close"} /\ g' = g /\ i' = i
      BY <2>7 DEF RunTest, SkipTest, AfterRun
    <3> QED
      BY <1>4, <3>1
  <2>8. CASE RunRaises
    BY <2>8 DEF RunRaises, Raise
  <2>9. CASE CloseLog
    BY <1>0, <1>4, <2>9 DEF CloseLog, SessionTypeOK
  <2>10. CASE GroupDone
    BY <1>0, <1>4, <2>10, Here, GroupsTyped
    DEF GroupDone, SessionTypeOK, InGroup, Members
  <2>11. CASE ReportGroup
    BY <1>0, <1>4, <2>11 DEF ReportGroup, SessionTypeOK
  <2>12. CASE Summary
    BY <1>0, <1>4, <2>12, GroupsTyped DEF Summary, SessionTypeOK
  <2>13. CASE Teardown \/ Ended
    BY <1>4, <2>13 DEF Teardown, Ended
  <2> HIDE DEF t, Ahead, Over
  <2> QED
    BY <2>1, <2>2, <2>3, <2>4, <2>5, <2>6, <2>7, <2>8, <2>9, <2>10, <2>11,
       <2>12, <2>13 DEF Next
(* The test in turn keeps its turn until it has a verdict or was skipped. *)
<1>5. ASSUME pc = "attempt", h = g, k = i
      PROVE  \/ pc' = "attempt" /\ h = g' /\ k = i'
             \/ verdict'[t] # "NOT_RUN" \/ last'[t] = "skipped"
  <2>1. This = t
    BY <1>5, Here
  <2>2. CASE RunTest
    BY <1>0, <2>1, <2>2 DEF RunTest, Outcome, Passed, SessionTypeOK
  <2>3. CASE SkipTest
    BY <1>0, <2>1, <2>3 DEF SkipTest, SessionTypeOK
  <2>4. CASE ~(RunTest \/ SkipTest)
    BY <1>1, <1>5, <2>4
    DEF Next, Setup, EnterGroup, DevicesMissing, Deselect, PrepareFails,
      OpenLog, RunRaises, CloseLog, GroupDone, ReportGroup, Summary, Teardown,
      Ended, Raise, AtTest
  <2> QED
    BY <2>2, <2>3, <2>4
<1> QED
  BY <1>2, <1>3, <1>4, <1>5

-----------------------------------------------------------------------------
(* A verdict comes from the last run, of as many as were asked for. *)
Earned(t) ==
    /\ verdict[t] = "PASS" => last[t] = "passed"
    /\ last[t] = "passed" => verdict[t] = "PASS" \/ reason[t] = "prepare"
    /\ last[t] = "failed" => verdict[t] = "FAIL"
    /\ verdict[t] = "FAIL" /\ reason[t] # "prepare" /\ t \notin logs
          => turns[t] = Repeat + 1

(* Every step keeps the verdicts earned. *)
LEMMA EarnedStep ==
  ASSUME SessionTypeOK, NotYetRemoved, AheadUntouched, InTurn,
         VerdictsAreEarned, Next
  PROVE  VerdictsAreEarned'
<1> SUFFICES ASSUME NEW t \in Tests PROVE Earned(t)'
  BY DEF VerdictsAreEarned, VerdictHasCause, RepeatedEnough, Earned
<1>0. Earned(t)
  BY DEF VerdictsAreEarned, VerdictHasCause, RepeatedEnough, Earned
<1>1. CASE Same(t)
  BY <1>0, <1>1 DEF Same, Earned
<1>2. CASE OpenLog /\ t = This
  <2>1. verdict' = verdict /\ reason' = reason /\ last' = last
    BY <1>2 DEF OpenLog, result
  <2>2. turns' = turns /\ (t \in logs => t \in logs')
    BY <1>2 DEF OpenLog
  <2> QED
    BY <1>0, <2>1, <2>2 DEF Earned
<1>3. CASE CloseLog /\ t = This
  <2>1. t = Member(g, i) /\ pc = "close"
    BY <1>3, Here DEF CloseLog
  <2>2. verdict[t] = "FAIL" => turns[t] = Repeat + 1
    BY <2>1 DEF InTurn
  <2>3. verdict' = verdict /\ reason' = reason /\ last' = last /\ turns' = turns
    BY <1>3 DEF CloseLog, result
  <2> QED
    BY <1>0, <2>2, <2>3 DEF Earned
<1>4. CASE RunTest /\ t = This
  <2>1. t = Member(g, i) /\ pc = "attempt"
    BY <1>4, Here DEF RunTest
  <2>2. t \in logs /\ logs' = logs
    BY <1>4, <2>1 DEF InTurn, RunTest
  <2>3. \/ verdict'[t] = "PASS" /\ last'[t] = "passed"
        \/ verdict'[t] = "FAIL" /\ last'[t] = "failed"
    BY <1>4 DEF RunTest, Outcome, Passed, SessionTypeOK
  <2> QED
    BY <2>2, <2>3 DEF Earned
(* The log of a test that raises is never closed. *)
<1>8. CASE RunRaises /\ t = This
  <2>1. t = Member(g, i) /\ pc = "attempt"
    BY <1>8, Here DEF RunRaises
  <2>2. t \in logs /\ logs' = logs
    BY <1>8, <2>1 DEF InTurn, RunRaises
  <2>3. CASE UNCHANGED result
    BY <1>0, <2>2, <2>3 DEF Earned, result
  <2>4. CASE Outcome
    <3>1. \/ verdict'[t] = "PASS" /\ last'[t] = "passed"
          \/ verdict'[t] = "FAIL" /\ last'[t] = "failed"
      BY <1>8, <2>4 DEF Outcome, Passed, SessionTypeOK
    <3> QED
      BY <2>2, <3>1 DEF Earned
  <2> QED
    BY <1>8, <2>3, <2>4 DEF RunRaises
<1>5. CASE SkipTest /\ t = This
  <2>1. t = Member(g, i) /\ pc = "attempt"
    BY <1>5, Here DEF SkipTest
  <2>2. t \in logs /\ logs' = logs /\ verdict[t] # "PASS"
    BY <1>5, <2>1 DEF InTurn, SkipTest
  <2>3. verdict' = verdict /\ last'[t] = "skipped"
    BY <1>5 DEF SkipTest, SessionTypeOK
  <2> QED
    BY <2>2, <2>3 DEF Earned
(* The tests of a group without its devices have not been run. *)
<1>6. CASE DevicesMissing /\ t \in Range(tests[g])
  <2>0. pc = "group" /\ g \in 1..Len(Groups) /\ pc \notin Over
    BY <1>6, Here DEF DevicesMissing, Over
  <2>1. PICK k \in Members(g) : t = Member(g, k)
    BY <1>6, <2>0, Here
  <2>2. GroupAhead(g) /\ Ahead(g, k)
    BY <2>0 DEF GroupAhead, Ahead
  <2>3. verdict[t] = "NOT_RUN" /\ last[t] = "none"
    BY <2>0, <2>1, <2>2 DEF AheadUntouched, Untouched
  <2>4. verdict' = verdict /\ last' = last
    BY <1>6 DEF DevicesMissing
  <2> QED
    BY <2>3, <2>4 DEF Earned
(* The tests of a group whose setup fails, fail with it. *)
<1>7. CASE PrepareFails /\ t \in Range(tests[g])
  <2>1. verdict'[t] = "FAIL" /\ reason'[t] = "prepare"
    BY <1>7 DEF PrepareFails
  <2> QED
    BY <2>1 DEF Earned
<1> QED
  BY <1>1, <1>2, <1>3, <1>4, <1>5, <1>6, <1>7, <1>8, Touched

-----------------------------------------------------------------------------
(* A set of natural numbers that is not empty has a least element. *)
LEMMA Least ==
  ASSUME NEW S \in SUBSET Nat, S # {}
  PROVE  \E x \in S : \A y \in S : x <= y
<1> DEFINE R == OpToRel(<, Nat)
<1>1. IsWellFoundedOn(R, Nat)
  BY NatLessThanWellFounded
<1>2. \A x, y \in Nat : <<x, y>> \in R <=> x < y
  BY DEF OpToRel
<1> HIDE DEF R
<1>3. PICK x \in S : \A y \in S : ~(<<y, x>> \in R)
  BY <1>1, WFMin
<1>4. ASSUME NEW y \in S PROVE x <= y
  <2>1. x \in Nat /\ y \in Nat
    OBVIOUS
  <2>2. ~(y < x)
    BY <1>2, <1>3, <2>1
  <2> QED
    BY <2>1, <2>2
<1> QED
  BY <1>4

(* A set of indexes that is not empty has a greatest element. *)
LEMMA Greatest ==
  ASSUME NEW n \in Nat, NEW u \in SUBSET (1..n), u # {}
  PROVE  Max(u) \in u /\ \A x \in u : x <= Max(u)
<1> DEFINE Above == {y \in Nat : \A x \in u : x <= y}
<1>1. n \in Above
  OBVIOUS
<1>2. PICK y \in Above : \A z \in Above : y <= z
  <2>1. Above \in SUBSET Nat /\ Above # {}
    BY <1>1
  <2> HIDE DEF Above
  <2> QED
    BY <2>1, Least
<1>3. y \in u
  <2>1. CASE y \notin u
    <3>1. PICK x \in u : TRUE
      OBVIOUS
    <3>2. y \in Nat /\ y - 1 \in Nat
      BY <1>2, <3>1
    <3>3. \A z \in u : z <= y - 1
      BY <1>2, <2>1
    <3>4. y - 1 \in Above
      BY <3>2, <3>3
    <3> HIDE DEF Above
    <3>5. y <= y - 1
      BY <1>2, <3>4
    <3> QED
      BY <3>2, <3>5
  <2> QED
    BY <2>1
<1>4. \A x \in u : x <= y /\ y >= x
  BY <1>2
<1>5. \E x \in u : \A z \in u : x >= z
  BY <1>3, <1>4
<1>6. Max(u) \in u /\ \A z \in u : Max(u) >= z
  BY <1>5 DEF Max
<1> QED
  BY <1>6

(* The equations of a fold over the indexes of a sequence. *)
FoldsAs(a, F, base, n) ==
  \A u \in SUBSET (1..n) :
      a[u] = IF u = {} THEN base ELSE F[<<Max(u), a[u \ {Max(u)}]>>]

(* They have a solution. *)
LEMMA FoldExists ==
  ASSUME NEW V, NEW base \in V, NEW n \in Nat, NEW F \in [(1..n) \X V -> V]
  PROVE  \E a \in [SUBSET (1..n) -> V] : FoldsAs(a, F, base, n)
<1> DEFINE Good(m) == \E a \in [SUBSET (1..m) -> V] : FoldsAs(a, F, base, m)
           Bad == {m \in 0..n : ~Good(m)}
<1>1. CASE Bad = {}
  BY <1>1
<1>2. CASE Bad # {}
  <2>1. PICK m \in Bad : \A y \in Bad : m <= y
    <3>1. Bad \in SUBSET Nat
      OBVIOUS
    <3> HIDE DEF Bad
    <3> QED
      BY <1>2, <3>1, Least
  <2>2. m \in 0..n /\ ~Good(m)
    BY <2>1
  <2>3. m # 0
    <3>1. CASE m = 0
      <4> DEFINE a == [u \in SUBSET (1..0) |-> base]
      <4>1. 1..0 = {}
        OBVIOUS
      <4>2. a \in [SUBSET (1..0) -> V] /\ FoldsAs(a, F, base, 0)
        BY <4>1 DEF FoldsAs
      <4> QED
        BY <2>2, <3>1, <4>2
    <3> QED
      BY <3>1
  <2>4. m \in 1..n /\ m - 1 \in 0..n /\ m \in Nat /\ m - 1 \in Nat /\ m - 1 < m
    BY <2>2, <2>3
  <2>5. Good(m - 1)
    <3>1. m - 1 \notin Bad
      <4>1. ~(m <= m - 1)
        BY <2>4
      <4> HIDE DEF Bad
      <4> QED
        BY <2>1, <4>1
    <3> QED
      BY <2>4, <3>1
  <2>6. PICK a \in [SUBSET (1..(m - 1)) -> V] : FoldsAs(a, F, base, m - 1)
    BY <2>5
  <2> DEFINE b == [u \in SUBSET (1..m) |->
                      IF m \in u THEN F[<<m, a[u \ {m}]>>] ELSE a[u]]
  <2>7. \A u \in SUBSET (1..m) : m \notin u => u \in SUBSET (1..(m - 1))
    BY <2>4
  <2>8. \A u \in SUBSET (1..m) : u \ {m} \in SUBSET (1..(m - 1))
    BY <2>4
  <2>9. b \in [SUBSET (1..m) -> V]
    <3>1. ASSUME NEW u \in SUBSET (1..m)
          PROVE  (IF m \in u THEN F[<<m, a[u \ {m}]>>] ELSE a[u]) \in V
      <4>1. a[u \ {m}] \in V
        BY <2>6, <2>8
      <4>2. F[<<m, a[u \ {m}]>>] \in V
        BY <2>4, <4>1
      <4>3. m \notin u => a[u] \in V
        BY <2>6, <2>7
      <4> QED
        BY <4>2, <4>3
    <3> QED
      BY <3>1
  <2>10. FoldsAs(b, F, base, m)
    <3> SUFFICES ASSUME NEW u \in SUBSET (1..m)
                 PROVE  b[u] = IF u = {} THEN base
                               ELSE F[<<Max(u), b[u \ {Max(u)}]>>]
      BY DEF FoldsAs
    <3>0. \A w \in SUBSET (1..(m - 1)) : b[w] = a[w]
      <4>1. \A w \in SUBSET (1..(m - 1)) : w \in SUBSET (1..m) /\ m \notin w
        BY <2>4
      <4> QED
        BY <4>1
    <3>1. CASE m \in u
      <4>1. Max(u) \in u /\ \A x \in u : x <= Max(u)
        BY <2>4, <3>1, Greatest
      <4>2. Max(u) = m
        <5>1. Max(u) \in 1..m
          BY <4>1
        <5>2. m <= Max(u)
          BY <3>1, <4>1
        <5> QED
          BY <2>4, <5>1, <5>2
      <4>3. b[u \ {m}] = a[u \ {m}]
        BY <2>8, <3>0
      <4>4. b[u] = F[<<m, a[u \ {m}]>>]
        BY <3>1
      <4> HIDE DEF b
      <4> QED
        BY <3>1, <4>2, <4>3, <4>4
    <3>2. CASE m \notin u
      <4>1. u \in SUBSET (1..(m - 1))
        BY <2>7, <3>2
      <4>2. b[u] = a[u]
        BY <3>0, <4>1
      <4>3. b[u \ {Max(u)}] = a[u \ {Max(u)}]
        <5>1. u \ {Max(u)} \in SUBSET (1..(m - 1))
          BY <4>1
        <5> QED
          BY <3>0, <5>1
      <4> HIDE DEF b
      <4> QED
        BY <2>6, <4>1, <4>2, <4>3 DEF FoldsAs
    <3> QED
      BY <3>1, <3>2
  <2> HIDE DEF b
  <2>11. Good(m)
    BY <2>9, <2>10
  <2> QED
    BY <2>2, <2>11
<1> QED
  BY <1>1, <1>2

(* The steps of a fold: p[m] is what the first m elements have made.       *)
StepsOf(p, F, base, n) ==
  p[0] = base /\ \A m \in 1..n : p[m] = F[<<m, p[m - 1]>>]

BothStepsOf(p, q, F, base, n) ==
  StepsOf(p, F, base, n) /\ StepsOf(q, F, base, n)

SameSteps(p, q, V, n) == \A m \in 0..n : p[m] \in V /\ p[m] = q[m]

(* They have types, and there is one way to take them.                     *)
LEMMA StepsAgree ==
  ASSUME NEW V, NEW base \in V, NEW n \in Nat, NEW F \in [(1..n) \X V -> V],
         NEW p, NEW q, BothStepsOf(p, q, F, base, n)
  PROVE  SameSteps(p, q, V, n)
<1> USE DEF BothStepsOf, SameSteps
<1> DEFINE Bad == {m \in 0..n : ~(p[m] \in V /\ p[m] = q[m])}
<1>1. CASE Bad = {}
  BY <1>1
<1>2. CASE Bad # {}
  <2>1. PICK m \in Bad : \A y \in Bad : m <= y
    <3>1. Bad \in SUBSET Nat
      OBVIOUS
    <3> HIDE DEF Bad
    <3> QED
      BY <1>2, <3>1, Least
  <2>2. m \in 0..n /\ ~(p[m] \in V /\ p[m] = q[m])
    BY <2>1
  <2>3. m # 0
    BY <2>2 DEF StepsOf
  <2>4. m \in 1..n /\ m - 1 \in 0..n /\ ~(m <= m - 1)
    BY <2>2, <2>3
  <2>5. m - 1 \notin Bad
    <3> HIDE DEF Bad
    <3> QED
      BY <2>1, <2>4
  <2>6. p[m - 1] \in V /\ p[m - 1] = q[m - 1]
    BY <2>4, <2>5
  <2>7. p[m] = F[<<m, p[m - 1]>>] /\ q[m] = F[<<m, p[m - 1]>>]
    BY <2>4, <2>6 DEF StepsOf
  <2>8. F[<<m, p[m - 1]>>] \in V
    BY <2>4, <2>6
  <2> QED
    BY <2>2, <2>7, <2>8
<1> QED
  BY <1>1, <1>2

(* The steps end with the value v.                                         *)
StepsTo(v, V, F, base, n) ==
  \E p \in [0..n -> V] : StepsOf(p, F, base, n) /\ p[n] = v

(* The equations of a fold, where it keeps to the values of V.             *)
FoldsWithin(it, V, F, base, n) ==
  /\ it[{}] = base
  /\ \A u \in SUBSET (1..n) : u # {} =>
        \/ it[u] = F[<<Max(u), it[u \ {Max(u)}]>>]
        \/ it[u \ {Max(u)}] \notin V

(* A fold of the library goes through these steps.                         *)
LEMMA FoldTakesSteps ==
  ASSUME NEW V, NEW base \in V, NEW n \in Nat, NEW F \in [(1..n) \X V -> V],
         NEW it, FoldsWithin(it, V, F, base, n)
  PROVE  StepsTo(it[1..n], V, F, base, n)
<1>1. PICK a \in [SUBSET (1..n) -> V] : FoldsAs(a, F, base, n)
  BY FoldExists
<1>2. ASSUME NEW m \in 1..n
      PROVE  /\ 1..m \in SUBSET (1..n) /\ 1..m # {}
             /\ Max(1..m) = m /\ (1..m) \ {m} = 1..(m - 1)
  <2>1. 1..m \in SUBSET (1..n) /\ 1..m # {} /\ m \in 1..m
    OBVIOUS
  <2>2. Max(1..m) \in 1..m /\ m <= Max(1..m)
    BY <2>1, Greatest
  <2>3. Max(1..m) = m
    BY <2>2
  <2> QED
    BY <2>1, <2>3
<1> DEFINE q == [m \in 0..n |-> a[1..m]]
           Bad == {m \in 0..n : it[1..m] # a[1..m]}
<1>3. 1..0 = {} /\ 0 \in 0..n /\ n \in 0..n
  OBVIOUS
<1>4. \A m \in 0..n : 1..m \in SUBSET (1..n)
  OBVIOUS
<1>5. q \in [0..n -> V]
  BY <1>1, <1>4
<1>6. StepsOf(q, F, base, n)
  <2>1. q[0] = base
    BY <1>1, <1>3 DEF FoldsAs
  <2>2. ASSUME NEW m \in 1..n PROVE q[m] = F[<<m, q[m - 1]>>]
    <3>1. m \in 0..n /\ m - 1 \in 0..n
      OBVIOUS
    <3>2. a[1..m] = F[<<m, a[1..(m - 1)]>>]
      BY <1>1, <1>2 DEF FoldsAs
    <3> QED
      BY <3>1, <3>2
  <2> HIDE DEF q
  <2> QED
    BY <2>1, <2>2 DEF StepsOf
<1>7. Bad = {}
  <2> SUFFICES ASSUME Bad # {} PROVE FALSE
    OBVIOUS
  <2>1. PICK m \in Bad : \A y \in Bad : m <= y
    <3>1. Bad \in SUBSET Nat
      OBVIOUS
    <3> HIDE DEF Bad
    <3> QED
      BY <3>1, Least
  <2>2. m \in 0..n /\ it[1..m] # a[1..m]
    BY <2>1
  <2>3. m # 0
    BY <1>1, <1>3, <2>2 DEF FoldsAs, FoldsWithin
  <2>4. m \in 1..n /\ m - 1 \in 0..n /\ ~(m <= m - 1)
    BY <2>2, <2>3
  <2>5. m - 1 \notin Bad
    <3> HIDE DEF Bad
    <3> QED
      BY <2>1, <2>4
  <2>6. it[1..(m - 1)] = a[1..(m - 1)] /\ a[1..(m - 1)] \in V
    BY <1>1, <1>4, <2>4, <2>5
  <2>7. it[1..m] = F[<<m, it[1..(m - 1)]>>]
    <3>1. 1..m \in SUBSET (1..n) /\ 1..m # {}
      BY <1>2, <2>4
    <3>2. \/ it[1..m] = F[<<Max(1..m), it[(1..m) \ {Max(1..m)}]>>]
          \/ it[(1..m) \ {Max(1..m)}] \notin V
      BY <3>1, Zenon DEF FoldsWithin
    <3>3. Max(1..m) = m /\ (1..m) \ {m} = 1..(m - 1)
      BY <1>2, <2>4
    <3> QED
      BY <2>6, <3>2, <3>3
  <2>8. a[1..m] = F[<<m, a[1..(m - 1)]>>]
    BY <1>1, <1>2, <2>4 DEF FoldsAs
  <2> QED
    BY <2>2, <2>6, <2>7, <2>8
<1>8. q[n] = it[1..n]
  BY <1>3, <1>7
<1> HIDE DEF q
<1> QED
  BY <1>5, <1>6, <1>8 DEF StepsTo

-----------------------------------------------------------------------------
(* Removing tests by their indexes, one index after the other. *)
Indexes == Nat \ {0}

Pop(r, k) == IF k <= Len(r) THEN RemoveAt(r, k) ELSE r
Popped(ks) == [p \in (1..Len(ks)) \X Seq(Tests) |-> Pop(p[2], ks[p[1]])]

(* What is left is a sequence of tests. *)
LEMMA PopTyped ==
  ASSUME NEW r \in Seq(Tests), NEW k \in Indexes
  PROVE  Pop(r, k) \in Seq(Tests)
<1>1. CASE k <= Len(r)
  <2>1. Len(r) \in Nat /\ k \in Nat /\ k >= 1
    BY DEF Indexes
  <2>2. SubSeq(r, 1, k - 1) \in Seq(Tests)
    BY <1>1, <2>1, SubSeqProperties
  <2>3. SubSeq(r, k + 1, Len(r)) \in Seq(Tests)
    BY <1>1, <2>1, SubSeqProperties
  <2> QED
    BY <1>1, <2>2, <2>3 DEF Pop, RemoveAt
<1> QED
  BY <1>1 DEF Pop

(* The steps of Pop, as a function of the index and what is left so far.   *)
LEMMA PoppedTyped ==
  ASSUME NEW ks \in Seq(Indexes)
  PROVE  /\ Popped(ks) \in [(1..Len(ks)) \X Seq(Tests) -> Seq(Tests)]
         /\ \A m \in 1..Len(ks) : \A r \in Seq(Tests) :
               Popped(ks)[<<m, r>>] = Pop(r, ks[m])
<1>1. \A m \in 1..Len(ks) : ks[m] \in Indexes
  OBVIOUS
<1>2. ASSUME NEW p \in (1..Len(ks)) \X Seq(Tests)
      PROVE  Pop(p[2], ks[p[1]]) \in Seq(Tests)
  BY <1>1, PopTyped
<1>3. ASSUME NEW m \in 1..Len(ks), NEW r \in Seq(Tests)
      PROVE  Popped(ks)[<<m, r>>] = Pop(r, ks[m])
  BY DEF Popped
<1> QED
  BY <1>2, <1>3 DEF Popped

(* Without takes the steps of Pop. *)
LEMMA WithoutSteps ==
  ASSUME NEW s \in Seq(Tests), NEW ks \in Seq(Indexes)
  PROVE  \E p \in [0..Len(ks) -> Seq(Tests)] :
            StepsOf(p, Popped(ks), s, Len(ks)) /\ p[Len(ks)] = Without(s, ks)
<1> DEFINE n == Len(ks)
           it == CHOOSE a : a = [u \in SUBSET DOMAIN ks |->
                     IF u = {} THEN s ELSE Pop(a[u \ {Max(u)}], ks[Max(u)])]
<1>0. n \in Nat /\ DOMAIN ks = 1..n
  OBVIOUS
<1>1. /\ Popped(ks) \in [(1..n) \X Seq(Tests) -> Seq(Tests)]
      /\ \A m \in 1..n : \A r \in Seq(Tests) :
            Popped(ks)[<<m, r>>] = Pop(r, ks[m])
  BY PoppedTyped
<1>2. Without(s, ks) = it[1..n]
  <2>1. Without(s, ks) = it[DOMAIN ks]
    BY DEF Without, FoldLeft, MapThenFoldSet, Pop
  <2> QED
    BY <1>0, <2>1
<1> HIDE DEF n
<1>3. PICK a \in [SUBSET (1..n) -> Seq(Tests)] : FoldsAs(a, Popped(ks), s, n)
  BY <1>0, <1>1, FoldExists
<1>4. \A u \in SUBSET (1..n) : u # {} =>
          Max(u) \in 1..n /\ u \ {Max(u)} \in SUBSET (1..n)
  <2>1. \A u \in SUBSET (1..n) : u # {} => Max(u) \in u
    BY <1>0, Greatest
  <2> QED
    BY <2>1
<1>5. a = [u \in SUBSET DOMAIN ks |->
              IF u = {} THEN s ELSE Pop(a[u \ {Max(u)}], ks[Max(u)])]
  <2>1. ASSUME NEW u \in SUBSET (1..n)
        PROVE  a[u] = IF u = {} THEN s ELSE Pop(a[u \ {Max(u)}], ks[Max(u)])
    <3>1. CASE u = {}
      BY <1>3, <3>1 DEF FoldsAs
    <3>2. CASE u # {}
      <4>1. Popped(ks)[<<Max(u), a[u \ {Max(u)}]>>]
              = Pop(a[u \ {Max(u)}], ks[Max(u)])
        BY <1>1, <1>3, <1>4, <3>2
      <4> QED
        BY <1>3, <3>2, <4>1 DEF FoldsAs
    <3> QED
      BY <3>1, <3>2
  <2> QED
    BY <1>0, <1>3, <2>1
<1>6. it = [u \in SUBSET DOMAIN ks |->
               IF u = {} THEN s ELSE Pop(it[u \ {Max(u)}], ks[Max(u)])]
  BY <1>5
<1> HIDE DEF it
<1>7. /\ it[{}] = s
      /\ \A u \in SUBSET (1..n) : u # {} =>
             it[u] = Pop(it[u \ {Max(u)}], ks[Max(u)])
  BY <1>0, <1>6
<1>8. \A u \in SUBSET (1..n) : u # {} =>
          \/ it[u] = Popped(ks)[<<Max(u), it[u \ {Max(u)}]>>]
          \/ it[u \ {Max(u)}] \notin Seq(Tests)
  BY <1>1, <1>4, <1>7
<1>9. \E p \in [0..n -> Seq(Tests)] :
         StepsOf(p, Popped(ks), s, n) /\ p[n] = it[1..n]
  <2>1. Popped(ks) \in [(1..n) \X Seq(Tests) -> Seq(Tests)]
    BY <1>1
  <2>2. it[{}] = s /\ n \in Nat
    BY <1>0, <1>7
  <2> DEFINE V == Seq(Tests)
             P == Popped(ks)
  <2>3. P \in [(1..n) \X V -> V] /\ s \in V
    BY <2>1
  <2>4. FoldsWithin(it, V, P, s, n)
    BY <1>8, <2>2 DEF FoldsWithin
  <2> HIDE DEF V, P
  <2>5. StepsTo(it[1..n], V, P, s, n)
    BY <2>2, <2>3, <2>4, FoldTakesSteps, Zenon
  <2> QED
    BY <2>5 DEF V, P, StepsTo
<1> QED
  BY <1>2, <1>9 DEF n

(* No index, no removal. *)
LEMMA WithoutNone ==
  ASSUME NEW s \in Seq(Tests)
  PROVE  Without(s, <<>>) = s
<1>1. <<>> \in Seq(Indexes) /\ Len(<<>>) = 0
  BY EmptySeq, Zenon
<1>2. PICK p \in [0..0 -> Seq(Tests)] :
         StepsOf(p, Popped(<<>>), s, 0) /\ p[0] = Without(s, <<>>)
  BY <1>1, WithoutSteps
<1> QED
  BY <1>2 DEF StepsOf

(* Removing the first index and then the others is removing all.           *)
LEMMA WithoutFirst ==
  ASSUME NEW s \in Seq(Tests), NEW k \in Indexes, NEW ks \in Seq(Indexes)
  PROVE  /\ Without(s, <<k>> \o ks) = Without(Pop(s, k), ks)
         /\ <<k>> \o ks \in Seq(Indexes)
<1> DEFINE n == Len(ks)
           kks == <<k>> \o ks
           r == Pop(s, k)
<1>0. /\ n \in Nat /\ <<k>> \in Seq(Indexes) /\ Len(<<k>>) = 1
      /\ <<k>>[1] = k
  OBVIOUS
<1>1. /\ kks \in Seq(Indexes) /\ Len(kks) = n + 1 /\ kks[1] = k
      /\ \A m \in 1..n : kks[m + 1] = ks[m]
  <2>1. /\ kks \in Seq(Indexes) /\ Len(kks) = 1 + n
        /\ \A m \in 1..1 + n : kks[m] = IF m <= 1 THEN <<k>>[m] ELSE ks[m - 1]
    BY <1>0, ConcatProperties
  <2>2. kks[1] = k
    BY <1>0, <2>1
  <2>3. ASSUME NEW m \in 1..n PROVE kks[m + 1] = ks[m]
    BY <1>0, <2>1
  <2> HIDE DEF kks
  <2> QED
    BY <1>0, <2>1, <2>2, <2>3
<1>2. r \in Seq(Tests)
  BY PopTyped
<1>3. /\ Popped(ks) \in [(1..n) \X Seq(Tests) -> Seq(Tests)]
      /\ \A m \in 1..n : \A v \in Seq(Tests) :
            Popped(ks)[<<m, v>>] = Pop(v, ks[m])
  BY PoppedTyped
<1> HIDE DEF r
<1>4. PICK p \in [0..n -> Seq(Tests)] :
         StepsOf(p, Popped(ks), r, n) /\ p[n] = Without(r, ks)
  BY <1>2, WithoutSteps
<1> HIDE DEF n, kks
<1>5. \A m \in 1..n + 1 : \A v \in Seq(Tests) :
         Popped(kks)[<<m, v>>] = Pop(v, kks[m])
  BY <1>1, PoppedTyped
<1>6. PICK q \in [0..n + 1 -> Seq(Tests)] :
         StepsOf(q, Popped(kks), s, n + 1) /\ q[n + 1] = Without(s, kks)
  BY <1>1, WithoutSteps
<1>7. \A m \in 1..n + 1 : m \in Nat /\ m - 1 \in 0..n + 1
  BY <1>0
<1>8. q[0] = s /\ \A m \in 1..n + 1 : q[m] = Pop(q[m - 1], kks[m])
  BY <1>5, <1>6, <1>7 DEF StepsOf
<1> DEFINE qq == [m \in 0..n |-> q[m + 1]]
<1>9. StepsOf(qq, Popped(ks), r, n)
  <2>1. qq[0] = r
    <3>1. 1 \in 1..n + 1 /\ 0 \in 0..n /\ 1 - 1 = 0 /\ 0 + 1 = 1
      BY <1>0
    <3>2. q[1] = Pop(s, k)
      BY <1>1, <1>8, <3>1
    <3> QED
      BY <3>1, <3>2 DEF r
  <2>2. ASSUME NEW m \in 1..n PROVE qq[m] = Popped(ks)[<<m, qq[m - 1]>>]
    <3>1. /\ m \in 0..n /\ m - 1 \in 0..n /\ m + 1 \in 1..n + 1
          /\ (m - 1) + 1 = m /\ (m + 1) - 1 = m /\ m \in 0..n + 1
      BY <1>0
    <3>2. q[m + 1] = Pop(q[m], kks[m + 1]) /\ q[m] \in Seq(Tests)
      BY <1>6, <1>8, <3>1
    <3>3. kks[m + 1] = ks[m]
      BY <1>1
    <3>4. qq[m] = q[m + 1] /\ qq[m - 1] = q[m]
      BY <3>1
    <3> HIDE DEF qq
    <3> QED
      BY <1>3, <3>2, <3>3, <3>4
  <2> HIDE DEF qq
  <2> QED
    BY <2>1, <2>2 DEF StepsOf
<1>10. qq[n] = q[n + 1]
  BY <1>0
<1> HIDE DEF qq
<1>11. \A m \in 0..n : p[m] = qq[m]
  <2>1. Popped(ks) \in [(1..n) \X Seq(Tests) -> Seq(Tests)]
    BY <1>3
  <2>2. StepsOf(p, Popped(ks), r, n) /\ n \in Nat
    BY <1>0, <1>4
  <2> DEFINE V == Seq(Tests)
             P == Popped(ks)
  <2>3. P \in [(1..n) \X V -> V] /\ r \in V
    BY <1>2, <2>1
  <2>4. BothStepsOf(p, qq, P, r, n)
    BY <1>9, <2>2 DEF BothStepsOf
  <2> HIDE DEF V, P
  <2>5. SameSteps(p, qq, V, n)
    BY <2>2, <2>3, <2>4, StepsAgree, Zenon
  <2> QED
    BY <2>5 DEF SameSteps
<1>12. p[n] = q[n + 1]
  BY <1>0, <1>10, <1>11
<1> QED
  BY <1>1, <1>4, <1>6, <1>12 DEF kks, r

-----------------------------------------------------------------------------
(* Keeping the tests that are selected, one after the other. *)
Keep(r, t) == IF Selected(t) THEN Append(r, t) ELSE r
Kept(s) == [p \in (1..Len(s)) \X Seq(Tests) |-> Keep(p[2], s[p[1]])]

(* The steps of Keep, as a function of the index and what is kept so far.   *)
LEMMA KeptTyped ==
  ASSUME NEW s \in Seq(Tests)
  PROVE  /\ Kept(s) \in [(1..Len(s)) \X Seq(Tests) -> Seq(Tests)]
         /\ \A m \in 1..Len(s) : \A r \in Seq(Tests) :
               Kept(s)[<<m, r>>] = Keep(r, s[m])
<1>1. \A m \in 1..Len(s) : s[m] \in Tests
  OBVIOUS
<1>2. ASSUME NEW p \in (1..Len(s)) \X Seq(Tests)
      PROVE  Keep(p[2], s[p[1]]) \in Seq(Tests)
  <2>1. p[2] \in Seq(Tests) /\ s[p[1]] \in Tests
    BY <1>1
  <2>2. Append(p[2], s[p[1]]) \in Seq(Tests)
    BY <2>1, AppendProperties
  <2> QED
    BY <2>1, <2>2 DEF Keep
<1>3. ASSUME NEW m \in 1..Len(s), NEW r \in Seq(Tests)
      PROVE  Kept(s)[<<m, r>>] = Keep(r, s[m])
  BY DEF Kept
<1> QED
  BY <1>2, <1>3 DEF Kept

(* SelectedOf takes the steps of Keep. *)
LEMMA SelectedSteps ==
  ASSUME NEW s \in Seq(Tests)
  PROVE  StepsTo(SelectedOf(s), Seq(Tests), Kept(s), <<>>, Len(s))
<1> DEFINE n == Len(s)
           it == CHOOSE a : a = [u \in SUBSET DOMAIN s |->
                    IF u = {} THEN <<>> ELSE Keep(a[u \ {Max(u)}], s[Max(u)])]
           V == Seq(Tests)
           F == Kept(s)
<1>0. n \in Nat /\ DOMAIN s = 1..n /\ <<>> \in V
  OBVIOUS
<1>1. /\ F \in [(1..n) \X V -> V]
      /\ \A m \in 1..n : \A r \in V : F[<<m, r>>] = Keep(r, s[m])
  BY KeptTyped
<1>2. SelectedOf(s) = it[1..n]
  <2>1. SelectedOf(s) = it[DOMAIN s]
    BY DEF SelectedOf, FoldLeft, MapThenFoldSet, Keep
  <2> QED
    BY <1>0, <2>1
<1> HIDE DEF n, V, F
<1>3. PICK a \in [SUBSET (1..n) -> V] : FoldsAs(a, F, <<>>, n)
  BY <1>0, <1>1, FoldExists
<1>4. \A u \in SUBSET (1..n) : u # {} =>
          Max(u) \in 1..n /\ u \ {Max(u)} \in SUBSET (1..n)
  <2>1. \A u \in SUBSET (1..n) : u # {} => Max(u) \in u
    BY <1>0, Greatest
  <2> QED
    BY <2>1
<1>5. a = [u \in SUBSET DOMAIN s |->
              IF u = {} THEN <<>> ELSE Keep(a[u \ {Max(u)}], s[Max(u)])]
  <2>1. ASSUME NEW u \in SUBSET (1..n)
        PROVE  a[u] = IF u = {} THEN <<>> ELSE Keep(a[u \ {Max(u)}], s[Max(u)])
    <3>1. CASE u = {}
      BY <1>3, <3>1 DEF FoldsAs
    <3>2. CASE u # {}
      <4>1. F[<<Max(u), a[u \ {Max(u)}]>>] = Keep(a[u \ {Max(u)}], s[Max(u)])
        BY <1>1, <1>3, <1>4, <3>2
      <4> QED
        BY <1>3, <3>2, <4>1 DEF FoldsAs
    <3> QED
      BY <3>1, <3>2
  <2> QED
    BY <1>0, <1>3, <2>1
<1>6. it = [u \in SUBSET DOMAIN s |->
               IF u = {} THEN <<>> ELSE Keep(it[u \ {Max(u)}], s[Max(u)])]
  BY <1>5
<1> HIDE DEF it
<1>7. /\ it[{}] = <<>>
      /\ \A u \in SUBSET (1..n) : u # {} =>
             it[u] = Keep(it[u \ {Max(u)}], s[Max(u)])
  BY <1>0, <1>6
<1>8. FoldsWithin(it, V, F, <<>>, n)
  BY <1>1, <1>4, <1>7 DEF FoldsWithin
<1> DEFINE none == <<>>
<1>9. none \in V /\ FoldsWithin(it, V, F, none, n)
  BY <1>0, <1>8
<1> HIDE DEF none
<1>10. StepsTo(it[1..n], V, F, none, n)
  BY <1>0, <1>1, <1>9, FoldTakesSteps, Zenon
<1> QED
  BY <1>2, <1>10 DEF n, V, F, none

(* Of no tests none is selected.                                            *)
LEMMA SelectedNone == SelectedOf(<<>>) = <<>>
<1>1. <<>> \in Seq(Tests) /\ Len(<<>>) = 0
  BY EmptySeq, Zenon
<1>2. StepsTo(SelectedOf(<<>>), Seq(Tests), Kept(<<>>), <<>>, 0)
  BY <1>1, SelectedSteps
<1> QED
  BY <1>2 DEF StepsTo, StepsOf

(* What is selected is a sequence of tests.                                 *)
LEMMA SelectedTyped ==
  ASSUME NEW s \in Seq(Tests)
  PROVE  SelectedOf(s) \in Seq(Tests)
<1>1. StepsTo(SelectedOf(s), Seq(Tests), Kept(s), <<>>, Len(s))
  BY SelectedSteps
<1>2. Len(s) \in 0..Len(s)
  OBVIOUS
<1> QED
  BY <1>1, <1>2 DEF StepsTo

(* One test more is looked at last. *)
LEMMA SelectedNext ==
  ASSUME NEW s \in Seq(Tests), NEW t \in Tests
  PROVE  SelectedOf(Append(s, t)) = Keep(SelectedOf(s), t)
<1> DEFINE n == Len(s)
           st == Append(s, t)
           V == Seq(Tests)
           none == <<>>
           F == Kept(s)
<1>0. n \in Nat /\ none \in V
  OBVIOUS
<1>1. /\ st \in Seq(Tests) /\ Len(st) = n + 1 /\ st[n + 1] = t
      /\ \A m \in 1..n : st[m] = s[m]
  BY AppendProperties
<1>2. /\ F \in [(1..n) \X V -> V]
      /\ \A m \in 1..n : \A v \in V : F[<<m, v>>] = Keep(v, s[m])
  BY KeptTyped
<1>3. StepsTo(SelectedOf(s), V, F, none, n)
  BY SelectedSteps
<1> HIDE DEF st
<1>4. StepsTo(SelectedOf(st), V, Kept(st), none, n + 1)
  BY <1>1, SelectedSteps
<1>5. \A m \in 1..n + 1 : \A v \in V : Kept(st)[<<m, v>>] = Keep(v, st[m])
  BY <1>1, KeptTyped
<1> HIDE DEF n, V, F, none
<1>6. PICK p \in [0..n -> V] : StepsOf(p, F, none, n) /\ p[n] = SelectedOf(s)
  BY <1>3 DEF StepsTo
<1>7. PICK q \in [0..n + 1 -> V] :
         StepsOf(q, Kept(st), none, n + 1) /\ q[n + 1] = SelectedOf(st)
  BY <1>4 DEF StepsTo
<1>8. \A m \in 1..n + 1 : m - 1 \in 0..n + 1
  BY <1>0
<1>9. q[0] = none /\ \A m \in 1..n + 1 : q[m] = Keep(q[m - 1], st[m])
  BY <1>5, <1>7, <1>8 DEF StepsOf
<1>10. StepsOf(q, F, none, n)
  <2>1. ASSUME NEW m \in 1..n PROVE q[m] = F[<<m, q[m - 1]>>]
    <3>1. m \in 1..n + 1 /\ m - 1 \in 0..n + 1
      BY <1>0
    <3>2. q[m] = Keep(q[m - 1], s[m]) /\ q[m - 1] \in V
      BY <1>1, <1>7, <1>9, <3>1
    <3> QED
      BY <1>2, <3>2
  <2> QED
    BY <1>9, <2>1 DEF StepsOf
<1>11. BothStepsOf(p, q, F, none, n)
  BY <1>6, <1>10 DEF BothStepsOf
<1>12. SameSteps(p, q, V, n)
  BY <1>0, <1>2, <1>11, StepsAgree, Zenon
<1>13. q[n] = SelectedOf(s)
  BY <1>0, <1>6, <1>12 DEF SameSteps
<1>14. q[n + 1] = Keep(q[n], t)
  <2>1. n + 1 \in 1..n + 1 /\ (n + 1) - 1 = n
    BY <1>0
  <2> QED
    BY <1>1, <1>9, <2>1
<1> QED
  BY <1>7, <1>13, <1>14 DEF st

-----------------------------------------------------------------------------
(* While the tests p have been looked at and the indexes ks collected:      *)
(* removing them will leave the selected ones of p, whatever follows p.     *)
Removes(p, ks) ==
  \A t \in Seq(Tests) : Without(p \o t, ks) = SelectedOf(p) \o t

(* In front of the first test nothing is to be removed.                     *)
LEMMA RemovesNone == Removes(<<>>, <<>>)
<1> SUFFICES ASSUME NEW t \in Seq(Tests)
             PROVE  Without(<<>> \o t, <<>>) = SelectedOf(<<>>) \o t
  BY DEF Removes
<1>1. <<>> \o t = t
  BY ConcatEmptySeq
<1> QED
  BY <1>1, WithoutNone, SelectedNone

(* When all tests have been looked at, the selected ones will be left.      *)
LEMMA RemovesAll ==
  ASSUME NEW p \in Seq(Tests), NEW ks, Removes(p, ks)
  PROVE  Without(p, ks) = SelectedOf(p)
<1>1. <<>> \in Seq(Tests)
  OBVIOUS
<1>2. Without(p \o <<>>, ks) = SelectedOf(p) \o <<>>
  BY <1>1 DEF Removes
<1>3. p \o <<>> = p /\ SelectedOf(p) \o <<>> = SelectedOf(p)
  BY SelectedTyped, ConcatEmptySeq
<1> QED
  BY <1>2, <1>3

(* A selected test stays where it is. *)
LEMMA RemovesKept ==
  ASSUME NEW p \in Seq(Tests), NEW ks, NEW x \in Tests,
         Removes(p, ks), Selected(x)
  PROVE  Removes(Append(p, x), ks)
<1> SUFFICES ASSUME NEW t \in Seq(Tests)
             PROVE  Without(Append(p, x) \o t, ks) = SelectedOf(Append(p, x)) \o t
  BY DEF Removes
<1>1. <<x>> \in Seq(Tests) /\ <<x>> \o t \in Seq(Tests)
  BY ConcatProperties
<1>2. \A q \in Seq(Tests) : Append(q, x) \o t = q \o (<<x>> \o t)
  <2> SUFFICES ASSUME NEW q \in Seq(Tests)
               PROVE  Append(q, x) \o t = q \o (<<x>> \o t)
    OBVIOUS
  <2>1. Append(q, x) = q \o <<x>>
    BY AppendIsConcat
  <2>2. (q \o <<x>>) \o t = q \o (<<x>> \o t)
    BY <1>1, ConcatAssociative
  <2> QED
    BY <2>1, <2>2
<1>3. Without(p \o (<<x>> \o t), ks) = SelectedOf(p) \o (<<x>> \o t)
  BY <1>1 DEF Removes
<1>4. SelectedOf(Append(p, x)) = Append(SelectedOf(p), x)
  BY SelectedNext DEF Keep
<1>5. SelectedOf(p) \in Seq(Tests)
  BY SelectedTyped
<1> QED
  BY <1>2, <1>3, <1>4, <1>5

(* The index of one that is not is removed before those in front of it.     *)
LEMMA RemovesDropped ==
  ASSUME NEW p \in Seq(Tests), NEW ks \in Seq(Indexes), NEW x \in Tests,
         Removes(p, ks), ~Selected(x)
  PROVE  Removes(Append(p, x), <<Len(p) + 1>> \o ks)
<1> SUFFICES ASSUME NEW t \in Seq(Tests)
             PROVE  Without(Append(p, x) \o t, <<Len(p) + 1>> \o ks)
                      = SelectedOf(Append(p, x)) \o t
  BY DEF Removes
<1> DEFINE n == Len(p)
           px == Append(p, x)
           all == px \o t
<1>0. n \in Nat /\ n + 1 \in Indexes /\ Len(t) \in Nat
  BY DEF Indexes
<1>1. px \in Seq(Tests) /\ Len(px) = n + 1 /\ \A m \in 1..n : px[m] = p[m]
  BY AppendProperties
<1> HIDE DEF px
<1>2. /\ all \in Seq(Tests) /\ Len(all) = (n + 1) + Len(t)
      /\ \A m \in 1..(n + 1) + Len(t) :
            all[m] = IF m <= n + 1 THEN px[m] ELSE t[m - (n + 1)]
  <2> HIDE DEF n
  <2>1. /\ all \in Seq(Tests) /\ Len(all) = Len(px) + Len(t)
        /\ \A m \in 1..Len(px) + Len(t) :
              all[m] = IF m <= Len(px) THEN px[m] ELSE t[m - Len(px)]
    BY <1>1, ConcatProperties
  <2> HIDE DEF all
  <2> QED
    BY <1>1, <2>1
<1> HIDE DEF all, n
<1>3. SubSeq(all, 1, n) = p
  <2>1. /\ SubSeq(all, 1, n) \in Seq(Tests)
        /\ Len(SubSeq(all, 1, n)) = n
        /\ \A m \in 1..n : SubSeq(all, 1, n)[m] = all[m]
    <3>1. \A m \in 1..n : all[m] \in Tests /\ 1 + m - 1 = m
      BY <1>0, <1>2
    <3>2. /\ SubSeq(all, 1, n) \in Seq(Tests)
          /\ Len(SubSeq(all, 1, n)) = IF 1 <= n THEN n - 1 + 1 ELSE 0
          /\ \A m \in 1..n - 1 + 1 : SubSeq(all, 1, n)[m] = all[1 + m - 1]
      BY <1>0, <3>1, SubSeqProperties
    <3>3. n - 1 + 1 = n
      BY <1>0
    <3> QED
      BY <1>0, <3>1, <3>2, <3>3
  <2>2. \A m \in 1..n : all[m] = p[m]
    BY <1>0, <1>1, <1>2
  <2> QED
    BY <2>1, <2>2 DEF n
<1>4. SubSeq(all, (n + 1) + 1, Len(all)) = t
  <2> DEFINE b == SubSeq(all, n + 2, Len(all))
  <2>1. /\ b \in Seq(Tests) /\ Len(b) = Len(t)
        /\ \A m \in 1..Len(t) : b[m] = all[(n + 1) + m]
    <3>1. \A m \in (n + 2)..Len(all) : all[m] \in Tests
      BY <1>0, <1>2
    <3>2. /\ b \in Seq(Tests)
          /\ Len(b) = IF n + 2 <= Len(all) THEN Len(all) - (n + 2) + 1 ELSE 0
          /\ \A m \in 1..Len(all) - (n + 2) + 1 : b[m] = all[(n + 2) + m - 1]
      BY <1>0, <1>2, <3>1, SubSeqProperties
    <3>3. /\ Len(all) - (n + 2) + 1 = Len(t)
          /\ (n + 2 <= Len(all)) = (Len(t) # 0)
          /\ \A m \in 1..Len(t) : (n + 2) + m - 1 = (n + 1) + m
      BY <1>0, <1>2
    <3> HIDE DEF b
    <3> QED
      BY <3>2, <3>3
  <2>2. \A m \in 1..Len(t) : all[(n + 1) + m] = t[m]
    BY <1>0, <1>2
  <2>3. (n + 1) + 1 = n + 2
    BY <1>0
  <2> HIDE DEF b
  <2>4. b = t
    BY <2>1, <2>2
  <2> QED
    BY <2>3, <2>4 DEF b
<1>5. Pop(all, n + 1) = p \o t
  <2>1. n + 1 <= Len(all) /\ (n + 1) - 1 = n
    BY <1>0, <1>2
  <2> QED
    BY <1>3, <1>4, <2>1 DEF Pop, RemoveAt
<1>6. Without(all, <<n + 1>> \o ks) = Without(p \o t, ks)
  <2>1. Without(all, <<n + 1>> \o ks) = Without(Pop(all, n + 1), ks)
    BY <1>0, <1>2, WithoutFirst
  <2> QED
    BY <1>5, <2>1
<1>7. Without(p \o t, ks) = SelectedOf(p) \o t
  BY DEF Removes
<1>8. SelectedOf(px) = SelectedOf(p)
  BY SelectedNext DEF Keep, px
<1> QED
  BY <1>6, <1>7, <1>8 DEF all, px, n

-----------------------------------------------------------------------------
(* Removing the tests that are not selected.  Before the test at i, removing*)
(* the indexes collected so far would leave the selected ones of the tests  *)
(* in front of it, and what follows as it is.                               *)
LookedAt == SubSeq(Groups[g].tests, 1, i - 1)

RemovalInv ==
    /\ tests \in [1..Len(Groups) -> Seq(Tests)]
    /\ RightTestsRemoved
    /\ pc \in {"test", "attempt", "close"} =>
          /\ i - 1 \in 0..Len(Groups[g].tests)
          /\ dropped \in Seq(Indexes)
          /\ Removes(LookedAt, dropped)
    /\ pc \in {"attempt", "close"} => Selected(Member(g, i))
    /\ pc = "report" =>
          Without(Groups[g].tests, dropped) =
              IF Groups[g].missing THEN Groups[g].tests
              ELSE SelectedOf(Groups[g].tests)

(* The tests of a group as a sequence, and what one more step looks at. *)
LEMMA GroupTests ==
  ASSUME NEW h \in 1..Len(Groups)
  PROVE  /\ Groups[h].tests \in Seq(Tests)
         /\ SelectedOf(Groups[h].tests) \in Seq(Tests)
<1> DEFINE G == [tests: Seq(Tests), missing: BOOLEAN, prepare: BOOLEAN]
<1>0. Groups \in Seq(G)
  BY RunnerAssumption
<1>1. Groups[h] \in G
  <2> HIDE DEF G
  <2> QED
    BY <1>0
<1>2. Groups[h].tests \in Seq(Tests)
  BY <1>1
<1> QED
  BY <1>2, SelectedTyped

(* The tests in front of an index, and one more.                            *)
LEMMA LookedFurther ==
  ASSUME NEW s \in Seq(Tests), NEW k \in 1..Len(s)
  PROVE  /\ SubSeq(s, 1, k - 1) \in Seq(Tests)
         /\ Len(SubSeq(s, 1, k - 1)) + 1 = k
         /\ SubSeq(s, 1, k) = Append(SubSeq(s, 1, k - 1), s[k])
<1>0. Len(s) \in Nat /\ k \in Nat /\ 1 <= k /\ k <= Len(s)
  OBVIOUS
<1>1. \A m \in 1..(k - 1) : s[m] \in Tests
  BY <1>0
<1>2. /\ SubSeq(s, 1, k - 1) \in Seq(Tests)
      /\ Len(SubSeq(s, 1, k - 1)) = IF 1 <= k - 1 THEN k - 1 - 1 + 1 ELSE 0
  BY <1>0, <1>1, SubSeqProperties
<1>3. Len(SubSeq(s, 1, k - 1)) + 1 = k
  BY <1>0, <1>2
<1>4. SubSeq(s, 1, k) = SubSeq(s, 1, k - 1) \o <<s[k]>>
  <2>1. 1 \in 1..Len(s) /\ k \in 1..Len(s)
    BY <1>0
  <2> QED
    BY <2>1, SubSeqRecursiveSecond
<1>5. Append(SubSeq(s, 1, k - 1), s[k]) = SubSeq(s, 1, k - 1) \o <<s[k]>>
  BY <1>2, AppendIsConcat
<1> QED
  BY <1>2, <1>3, <1>4, <1>5

(* No test has been looked at when a session starts.                        *)
LEMMA RemovalInit == Init => RemovalInv
<1> SUFFICES ASSUME Init PROVE RemovalInv
  OBVIOUS
<1>1. tests \in [1..Len(Groups) -> Seq(Tests)]
  BY GroupTests DEF Init
<1>2. RightTestsRemoved
  BY GroupsTyped DEF Init, RightTestsRemoved
<1> QED
  BY <1>1, <1>2 DEF Init, RemovalInv

(* Every step keeps RemovalInv. *)
LEMMA RemovalStep ==
  ASSUME SessionTypeOK, NotYetRemoved, RemovalInv, Next
  PROVE  RemovalInv'
<1> DEFINE s == Groups[g].tests
<1>0. /\ tests \in [1..Len(Groups) -> Seq(Tests)]
      /\ RightTestsRemoved
      /\ Len(Groups) \in Nat /\ g \in Nat /\ i \in Nat
  BY GroupsTyped DEF RemovalInv, SessionTypeOK
<1>1. CASE ReportGroup
  <2>1. pc = "report" /\ g \in 1..Len(Groups) /\ g' = g + 1 /\ pc' = "group"
        /\ tests' = [tests EXCEPT ![g] = Without(tests[g], dropped)]
    BY <1>1 DEF ReportGroup, SessionTypeOK, InGroup
  <2>2. tests[g] = s
    BY <1>0, <2>1 DEF NotYetRemoved, Over
  <2>3. Without(s, dropped) = IF Groups[g].missing THEN s ELSE SelectedOf(s)
    BY <2>1 DEF RemovalInv
  <2>4. s \in Seq(Tests) /\ SelectedOf(s) \in Seq(Tests)
    BY <2>1, GroupTests
  <2> HIDE DEF s
  <2>5. tests' \in [1..Len(Groups) -> Seq(Tests)]
    BY <1>0, <2>1, <2>2, <2>3, <2>4
  <2>6. RightTestsRemoved'
    <3> SUFFICES ASSUME NEW h \in 1..Len(Groups), h < g', ~Groups[h].missing
                 PROVE  tests'[h] = SelectedOf(Groups[h].tests)
      BY DEF RightTestsRemoved
    <3>1. CASE h = g
      BY <1>0, <2>1, <2>2, <2>3, <3>1 DEF s
    <3>2. CASE h < g
      <4>1. tests'[h] = tests[h]
        BY <1>0, <2>1, <3>2
      <4> QED
        BY <1>0, <3>2, <4>1 DEF RightTestsRemoved
    <3> QED
      BY <1>0, <2>1, <3>1, <3>2
  <2> QED
    BY <2>1, <2>5, <2>6 DEF RemovalInv
<1>2. CASE ~ReportGroup
  <2>0. tests' = tests /\ g' = g
    BY <1>2 DEF Next, Setup, EnterGroup, DevicesMissing, Deselect,
      PrepareFails, OpenLog, RunTest, SkipTest, RunRaises, CloseLog,
      GroupDone, Summary, Teardown, Ended, vars, loop
  <2>1. tests' \in [1..Len(Groups) -> Seq(Tests)]
    BY <1>0, <2>0
  <2>2. RightTestsRemoved'
    BY <1>0, <2>0 DEF RightTestsRemoved
  <2>3. ASSUME AtTest
        PROVE  /\ pc = "test" /\ This = Member(g, i) /\ g \in 1..Len(Groups)
               /\ s \in Seq(Tests) /\ i \in 1..Len(s) /\ s[i] \in Tests
               /\ LookedAt \in Seq(Tests) /\ Len(LookedAt) + 1 = i
               /\ SubSeq(s, 1, i) = Append(LookedAt, Member(g, i))
               /\ dropped \in Seq(Indexes) /\ Removes(LookedAt, dropped)
    <3>1. pc = "test" /\ g \in 1..Len(Groups) /\ i \in Members(g)
          /\ This = Member(g, i)
      BY <2>3, Here DEF AtTest
    <3>2. s \in Seq(Tests) /\ i \in 1..Len(s) /\ s[i] \in Tests
      BY <3>1, GroupTests DEF Members
    <3>3. dropped \in Seq(Indexes) /\ Removes(LookedAt, dropped)
      BY <3>1 DEF RemovalInv
    <3> QED
      BY <3>1, <3>2, <3>3, LookedFurther DEF LookedAt, Member
  (* Of what is looked at, one more. *)
  <2>4. ASSUME pc' = "test", i' = i + 1, dropped' \in Seq(Indexes),
               i \in 1..Len(s), Removes(SubSeq(s, 1, i), dropped')
        PROVE  RemovalInv'
    <3>1. i' - 1 = i /\ i' - 1 \in 0..Len(s)
      BY <1>0, <2>4
    <3>2. LookedAt' = SubSeq(s, 1, i)
      BY <2>0, <3>1 DEF LookedAt
    <3> QED
      BY <2>0, <2>1, <2>2, <2>4, <3>1, <3>2 DEF RemovalInv
  <2>5. CASE Deselect
    <3>1. /\ AtTest /\ ~Selected(Member(g, i))
          /\ dropped' = <<i>> \o dropped /\ i' = i + 1 /\ pc' = pc
      BY <2>3, <2>5 DEF Deselect, DropLater
    <3>2. <<i>> \o dropped \in Seq(Indexes)
      BY <2>3, <3>1, WithoutFirst DEF Indexes
    <3>3. Member(g, i) \in Tests
      BY <2>3, <3>1 DEF Member
    <3>4. Removes(Append(LookedAt, Member(g, i)), <<i>> \o dropped)
      BY <2>3, <3>1, <3>3, RemovesDropped
    <3> QED
      BY <2>3, <2>4, <3>1, <3>2, <3>4
  <2>6. CASE PrepareFails
    <3>1. /\ AtTest /\ Selected(Member(g, i))
          /\ dropped' = dropped /\ i' = i + 1 /\ pc' = pc
      BY <2>3, <2>6 DEF PrepareFails
    <3>2. Removes(Append(LookedAt, Member(g, i)), dropped)
      BY <2>3, <3>1, RemovesKept DEF Member
    <3> QED
      BY <2>3, <2>4, <3>1, <3>2
  <2>7. CASE OpenLog
    <3>1. /\ AtTest /\ Selected(Member(g, i)) /\ dropped' = dropped /\ i' = i
          /\ pc' \in {"attempt", "teardown"}
      BY <2>3, <2>7 DEF OpenLog, Raise
    <3>2. LookedAt' = LookedAt /\ Member(g, i)' = Member(g, i)
      BY <2>0, <3>1 DEF LookedAt, Member
    <3>3. i - 1 \in 0..Len(s)
      BY <2>3, <3>1
    <3> QED
      BY <2>0, <2>1, <2>2, <2>3, <3>1, <3>2, <3>3
      DEF RemovalInv, Selected
  <2>8. CASE RunTest \/ SkipTest \/ RunRaises
    <3>1. /\ pc = "attempt" /\ pc' \in {"attempt", "close", "teardown"}
          /\ dropped' = dropped /\ i' = i
      BY <2>8 DEF RunTest, SkipTest, RunRaises, AfterRun, Raise, loop
    <3>2. LookedAt' = LookedAt /\ Member(g, i)' = Member(g, i)
      BY <2>0, <3>1 DEF LookedAt, Member
    <3> QED
      BY <2>0, <2>1, <2>2, <3>1, <3>2 DEF RemovalInv, Selected
  <2>9. CASE CloseLog
    <3>1. /\ pc = "close" /\ pc' = "test" /\ i' = i + 1 /\ dropped' = dropped
          /\ g \in 1..Len(Groups) /\ i \in 1..Len(s)
      BY <2>9 DEF CloseLog, SessionTypeOK, InGroup, Members
    <3>2. /\ Selected(Member(g, i)) /\ dropped \in Seq(Indexes)
          /\ Removes(LookedAt, dropped)
      BY <3>1 DEF RemovalInv
    <3>3. s \in Seq(Tests) /\ s[i] \in Tests
      BY <3>1, GroupTests
    <3>4. LookedAt \in Seq(Tests)
          /\ SubSeq(s, 1, i) = Append(LookedAt, Member(g, i))
      BY <3>1, <3>3, LookedFurther DEF LookedAt, Member
    <3>5. Removes(Append(LookedAt, Member(g, i)), dropped)
      BY <3>2, <3>3, <3>4, RemovesKept DEF Member
    <3> QED
      BY <2>4, <3>1, <3>2, <3>4, <3>5
  <2>10. CASE EnterGroup
    <3>1. /\ pc' = "test" /\ i' = 1 /\ dropped' = <<>>
          /\ g \in 1..Len(Groups)
      BY <1>0, <2>10, Here DEF EnterGroup, Over
    <3>2. LookedAt' = <<>>
      <4>1. LookedAt' = SubSeq(s, 1, 0)
        BY <2>0, <3>1 DEF LookedAt
      <4> QED
        BY <4>1, SubSeqEmpty
    <3>3. <<>> \in Seq(Indexes) /\ 1 - 1 \in 0..Len(s)
      BY <3>1, GroupTests
    <3> QED
      BY <2>0, <2>1, <2>2, <3>1, <3>2, <3>3, RemovesNone DEF RemovalInv
  <2>11. CASE GroupDone
    <3>1. /\ pc = "test" /\ pc' = "report" /\ i' = i /\ dropped' = dropped
          /\ g \in 1..Len(Groups) /\ i > Len(tests[g]) /\ ~Groups[g].missing
      BY <2>11 DEF GroupDone, loop, SessionTypeOK, InGroup
    <3>2. tests[g] = s
      BY <1>0, <3>1 DEF NotYetRemoved, Over
    <3>3. s \in Seq(Tests) /\ Len(s) \in Nat
      BY <3>1, GroupTests
    <3>4. i - 1 \in 0..Len(s) /\ Removes(LookedAt, dropped)
      BY <3>1 DEF RemovalInv
    <3>5. i - 1 = Len(s)
      BY <1>0, <3>1, <3>2, <3>3, <3>4
    <3>6. LookedAt = s
      BY <3>3, <3>5, SubSeqFull DEF LookedAt
    <3>7. Without(s, dropped) = SelectedOf(s)
      BY <3>3, <3>4, <3>6, RemovesAll
    <3> QED
      BY <2>0, <2>1, <2>2, <3>1, <3>7 DEF RemovalInv
  <2>12. CASE DevicesMissing
    <3>1. /\ pc' = "report" /\ dropped' = <<>> /\ g \in 1..Len(Groups)
          /\ Groups[g].missing
      BY <1>0, <2>12, Here DEF DevicesMissing, Over
    <3>2. Without(s, <<>>) = s
      BY <3>1, GroupTests, WithoutNone
    <3> QED
      BY <2>0, <2>1, <2>2, <3>1, <3>2 DEF RemovalInv
  <2>13. CASE Setup \/ Summary \/ Teardown
    <3>1. pc' \in {"group", "teardown", "ended"}
      BY <2>13 DEF Setup, Summary, Teardown, Raise
    <3> QED
      BY <2>1, <2>2, <3>1 DEF RemovalInv
  <2>14. CASE Ended
    BY <2>1, <2>2, <2>14 DEF Ended, RemovalInv, vars
  <2> QED
    BY <1>2, <2>5, <2>6, <2>7, <2>8, <2>9, <2>10, <2>11, <2>12, <2>13, <2>14
    DEF Next
<1> QED
  BY <1>1, <1>2

-----------------------------------------------------------------------------
(* The summary.  Each test that is left has one of three verdicts.          *)
Tally == [passed |-> Count("PASS"), failed |-> Count("FAIL"),
          not_run |-> Count("NOT_RUN")]

Summed == pc \in Over /\ ~raised => counts = Tally

(* After the summary neither verdicts nor groups change.                    *)
LEMMA SummedStep ==
  ASSUME Summed, Next
  PROVE  Summed'
<1> SUFFICES ASSUME pc' \in Over, ~raised' PROVE counts' = Tally'
  BY DEF Summed
<1>1. CASE Summary
  <2>1. verdict' = verdict /\ tests' = tests /\ counts' = Tally
    BY <1>1 DEF Summary, Tally, result
  <2> QED
    BY <2>1 DEF Tally, Count, Reported
<1>2. CASE ~Summary
  <2>0. Teardown \/ Ended
    BY <1>2 DEF Next, Setup, EnterGroup, DevicesMissing, Deselect,
      PrepareFails, OpenLog, RunTest, SkipTest, RunRaises, CloseLog, GroupDone,
      ReportGroup, Raise, AfterRun, AtTest, Over
  <2>1. /\ pc \in Over /\ ~raised /\ counts' = counts
        /\ verdict' = verdict /\ tests' = tests
    <3>1. ~raised
      <4>1. CASE Teardown
        <5>1. raised' = raised \/ raised' = TRUE
          BY <4>1 DEF Teardown
        <5> QED
          BY <5>1, Zenon
      <4>2. CASE Ended
        BY <4>2, Zenon DEF Ended, vars
      <4> QED
        BY <2>0, <4>1, <4>2
    <3> QED
      BY <2>0, <3>1 DEF Teardown, Ended, Over, vars, result
  <2>2. counts = Tally
    BY <2>1 DEF Summed
  <2> QED
    BY <2>1, <2>2 DEF Tally, Count, Reported
<1> QED
  BY <1>1, <1>2

(* There are finitely many tests in the groups. *)
LEMMA ReportedFinite ==
  ASSUME tests \in [1..Len(Groups) -> Seq(Tests)]
  PROVE  IsFiniteSet(Reported) /\ Reported \in SUBSET Tests
<1> DEFINE D == 1..Len(Groups)
           R(h) == Range(tests[h])
           All == {Range(tests[h]) : h \in D}
           f == [h \in D |-> Range(tests[h])]
<1>1. ASSUME NEW h \in D
      PROVE  IsFiniteSet(Range(tests[h])) /\ Range(tests[h]) \in SUBSET Tests
  <2>1. tests[h] \in Seq(Tests)
    OBVIOUS
  <2>2. Range(tests[h]) = {tests[h][k] : k \in 1..Len(tests[h])}
    BY <2>1, RangeEquality
  <2>3. Len(tests[h]) \in Nat
    BY <2>1
  <2>4. IsFiniteSet(1..Len(tests[h]))
    BY <2>3, FS_Interval
  <2> DEFINE q == [k \in 1..Len(tests[h]) |-> tests[h][k]]
  <2>5. q \in Surjection(1..Len(tests[h]), Range(tests[h]))
    BY <2>2 DEF Surjection
  <2> HIDE DEF q
  <2>6. IsFiniteSet(Range(tests[h]))
    BY <2>4, <2>5, FS_Surjection
  <2>7. Range(tests[h]) \in SUBSET Tests
    BY <2>1, RangeOfSeq
  <2> QED
    BY <2>6, <2>7
<1>2. IsFiniteSet(All)
  <2>1. Len(Groups) \in Nat
    BY GroupsTyped
  <2>2. IsFiniteSet(D)
    BY <2>1, FS_Interval
  <2>3. f \in Surjection(D, All)
    BY DEF Surjection
  <2> HIDE DEF f, D, All
  <2> QED
    BY <2>2, <2>3, FS_Surjection
<1>3. \A T \in All : IsFiniteSet(T) /\ T \in SUBSET Tests
  BY <1>1
<1>4. Reported = UNION All
  BY DEF Reported
<1> HIDE DEF All
<1>5. IsFiniteSet(UNION All)
  BY <1>2, <1>3, FS_UNION
<1> QED
  BY <1>3, <1>4, <1>5

(* The counts of the three verdicts add up. *)
LEMMA AddingUp ==
  ASSUME tests \in [1..Len(Groups) -> Seq(Tests)],
         verdict \in [Tests -> Verdicts]
  PROVE  Count("PASS") + Count("FAIL") + Count("NOT_RUN") = Cardinality(Reported)
<1> DEFINE With(v) == {t \in Reported : verdict[t] = v}
           Run == With("PASS") \cup With("FAIL")
<1>1. IsFiniteSet(Reported) /\ Reported \in SUBSET Tests
  BY ReportedFinite
<1>2. /\ With("PASS") \in SUBSET Reported /\ With("FAIL") \in SUBSET Reported
      /\ With("NOT_RUN") \in SUBSET Reported
      /\ With("PASS") \cap With("FAIL") = {}
      /\ Run \cap With("NOT_RUN") = {}
  OBVIOUS
<1>3. Run \cup With("NOT_RUN") = Reported
  BY <1>1 DEF Verdicts
<1>4. /\ Count("PASS") = Cardinality(With("PASS"))
      /\ Count("FAIL") = Cardinality(With("FAIL"))
      /\ Count("NOT_RUN") = Cardinality(With("NOT_RUN"))
  BY DEF Count
<1> HIDE DEF With
<1>5. /\ IsFiniteSet(With("PASS")) /\ IsFiniteSet(With("FAIL"))
      /\ IsFiniteSet(With("NOT_RUN"))
  BY <1>1, <1>2, FS_Subset
<1>6. Cardinality({}) = 0
  BY FS_EmptySet
<1>7. /\ IsFiniteSet(Run)
      /\ Cardinality(Run) = Cardinality(With("PASS")) + Cardinality(With("FAIL"))
             - Cardinality(With("PASS") \cap With("FAIL"))
  BY <1>5, FS_Union
<1>8. Cardinality(Run \cup With("NOT_RUN")) =
          Cardinality(Run) + Cardinality(With("NOT_RUN"))
             - Cardinality(Run \cap With("NOT_RUN"))
  BY <1>5, <1>7, FS_Union
<1>9. /\ Cardinality(With("PASS")) \in Nat /\ Cardinality(With("FAIL")) \in Nat
      /\ Cardinality(With("NOT_RUN")) \in Nat /\ Cardinality(Run) \in Nat
  BY <1>5, <1>7, FS_CardinalityType
<1> HIDE DEF Run
<1>10. Cardinality(Run) = Cardinality(With("PASS")) + Cardinality(With("FAIL"))
  <2>1. Cardinality(With("PASS") \cap With("FAIL")) = 0
    BY <1>2, <1>6, Zenon
  <2> QED
    BY <1>7, <1>9, <2>1
<1>11. Cardinality(Reported) = Cardinality(Run) + Cardinality(With("NOT_RUN"))
  <2>1. Cardinality(Run \cap With("NOT_RUN")) = 0
    BY <1>2, <1>6, Zenon
  <2>2. Cardinality(Run \cup With("NOT_RUN")) = Cardinality(Reported)
    BY <1>3, Zenon
  <2> QED
    BY <1>8, <1>9, <2>1, <2>2
<1> QED
  BY <1>4, <1>10, <1>11

-----------------------------------------------------------------------------
(* The inductive invariant of a session. *)
SessionInv ==
    /\ SessionTypeOK /\ NotYetRemoved /\ AheadUntouched /\ BehindSettled /\ InTurn
    /\ VerdictsAreEarned
    /\ RemovalInv /\ Summed

(* A session starts so. *)
LEMMA SessionStarts == Init => SessionInv
<1> SUFFICES ASSUME Init PROVE SessionInv
  OBVIOUS
<1>1. SessionTypeOK
  BY TypeInit
<1>2. NotYetRemoved
  BY GroupsTyped DEF Init, NotYetRemoved
<1>3. AheadUntouched
  BY GroupsTyped DEF Init, AheadUntouched, Untouched
<1>4. BehindSettled
  <2> SUFFICES ASSUME NEW h \in 1..Len(Groups), NEW k \in Members(h)
               PROVE  pc \notin Over /\ Ahead(h, k)
    BY DEF BehindSettled
  <2>1. h \in Nat /\ (h > 1 \/ h = 1)
    BY GroupsTyped
  <2> QED
    BY <2>1 DEF Init, Ahead, GroupAhead, Over
<1>5. InTurn
  BY DEF Init, InTurn
<1>6. VerdictsAreEarned
  BY DEF Init, VerdictsAreEarned, VerdictHasCause, RepeatedEnough
<1>7. RemovalInv /\ Summed
  BY RemovalInit DEF Init, Summed, Over
<1> QED
  BY <1>1, <1>2, <1>3, <1>4, <1>5, <1>6, <1>7 DEF SessionInv

(* Every step keeps SessionInv. *)
LEMMA SessionSteps == SessionInv /\ [Next]_vars => SessionInv'
<1> SUFFICES ASSUME SessionInv, [Next]_vars PROVE SessionInv'
  OBVIOUS
<1>1. CASE Next
  BY <1>1, TypeStep, RemovedStep, AheadStep, BehindStep, InTurnStep, EarnedStep,
     RemovalStep, SummedStep
  DEF SessionInv
<1>2. CASE UNCHANGED vars
  <2> USE <1>2 DEF SessionInv, vars, loop, result
  <2>1. SessionTypeOK' /\ NotYetRemoved'
    BY DEF SessionTypeOK, NotYetRemoved
  <2>2. AheadUntouched'
    BY DEF AheadUntouched, Ahead, GroupAhead, Untouched
  <2>3. BehindSettled'
    BY DEF BehindSettled, Ahead, GroupAhead, Selected
  <2>4. InTurn' /\ VerdictsAreEarned'
    BY DEF InTurn, VerdictsAreEarned, VerdictHasCause, RepeatedEnough
  <2>5. RemovalInv'
    BY DEF RemovalInv, RightTestsRemoved, LookedAt, Removes, Member, Selected
  <2>6. Summed'
    BY DEF Summed, Tally, Count, Reported
  <2> QED
    BY <2>1, <2>2, <2>3, <2>4, <2>5, <2>6
<1> QED
  BY <1>1, <1>2

(* Every state of a session has the shape the verdicts rest on: each test *)
(* case has one place, those ahead are untouched, those behind are settled.*)
THEOREM SessionIsOrderly == Spec => []SessionInv
  BY SessionStarts, SessionSteps, PTL DEF Spec

(* Every variable of a session has its type: among it that a test is only   *)
(* run, and its log only closed, at an index the group has.                 *)
THEOREM SessionTypeCorrect == Spec => []SessionTypeOK
<1>1. SessionInv => SessionTypeOK
  BY DEF SessionInv
<1> QED
  BY <1>1, SessionIsOrderly, PTL

(* A verdict is the one of the last of the runs that were asked for,        *)
(* whatever happens to the groups and the tests before and after.           *)
THEOREM VerdictsEarned == Spec => []VerdictsAreEarned
<1>1. SessionInv => VerdictsAreEarned
  BY DEF SessionInv
<1> QED
  BY <1>1, SessionIsOrderly, PTL

(* The report is about the tests the tags select, all of them and no        *)
(* others: those that are left in a group are the selected ones, in their    *)
(* order, the summary has counted each of them, and one without a verdict    *)
(* was skipped or had no device.                                            *)
THEOREM ReportIsRight == Spec => []TestsReported
<1>1. SessionInv => RightTestsRemoved
  BY DEF SessionInv, RemovalInv
<1>2. SessionInv => CountsAddUp
  <2> SUFFICES ASSUME SessionInv, pc = "ended", ~raised
               PROVE  counts.passed + counts.failed + counts.not_run
                        = Cardinality(Reported)
    BY DEF CountsAddUp
  <2>1. counts = Tally
    BY DEF SessionInv, Summed, Over
  <2>2. Count("PASS") + Count("FAIL") + Count("NOT_RUN")
          = Cardinality(Reported)
    BY AddingUp DEF SessionInv, SessionTypeOK, RemovalInv
  <2> QED
    BY <2>1, <2>2 DEF Tally
<1>3. SessionInv => NoneLeftOut
  <2> SUFFICES ASSUME SessionInv, pc = "ended", ~raised,
                      NEW h \in 1..Len(Groups),
                      NEW t \in Range(Groups[h].tests),
                      Selected(t), verdict[t] = "NOT_RUN"
               PROVE  Groups[h].missing \/ last[t] = "skipped"
    BY DEF NoneLeftOut
  <2>1. PICK k \in Members(h) : t = Member(h, k)
    BY GroupsTyped
  <2> QED
    BY <2>1 DEF SessionInv, BehindSettled, Over
<1> QED
  BY <1>1, <1>2, <1>3, SessionIsOrderly, PTL DEF TestsReported
=============================================================================

------------------------------ MODULE MCRunner ------------------------------
(***************************************************************************)
(* Instances of Runner for TLC: a group of four tests of which the tags    *)
(* select two that are not neighbours, a group whose device is missing,    *)
(* and a group without a prepare function.                                 *)
(***************************************************************************)
EXTENDS Runner

CONSTANTS a, b, c, d, e, f

MCTests == {a, b, c, d, e, f}
MCTags == {"positive", "stress", "slow"}

MCTagsOf ==
    (a :> {"stress"}) @@ (b :> {"positive"}) @@ (c :> {"positive", "slow"})
    @@ (d :> {"positive", "stress"}) @@ (e :> {"positive"}) @@ (f :> {"positive"})

Group(ts, m, p) == [tests |-> ts, missing |-> m, prepare |-> p]

MCGroups == << Group(<<a, b, c, d>>, FALSE, TRUE), Group(<<e>>, TRUE, TRUE),
               Group(<<f>>, FALSE, FALSE) >>

MCInclude == {"positive", "slow"}
MCExclude == {"slow"}
=============================================================================

SPECIFICATION Spec
CONSTANTS
    a = a
    b = b
    c = c
    d = d
    e = e
    f = f
    Tests <- MCTests
    Tags <- MCTags
    Groups <- MCGroups
    TagsOf <- MCTagsOf
    IncludeTags <- MCInclude
    ExcludeTags <- MCExclude
    Repeat = 2
    Troubles = {"setup", "prepare", "name", "raise", "skip", "teardown"}
INVARIANTS TestsReported VerdictsAreEarned

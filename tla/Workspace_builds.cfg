SPECIFICATION Spec
CONSTANTS
    MaxBuilds = 3
    MaxFailures = 2
INVARIANTS UserFilesSafe RestoredOnSuccess ImageIsTheTests

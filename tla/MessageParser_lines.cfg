SPECIFICATION ParserSpec
CONSTANTS
    Descriptors <- MCDescriptors
    MaxLines = 5
    MaxAttempts = 3
INVARIANTS ParserTypeOK MessagesAreRight

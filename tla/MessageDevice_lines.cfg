SPECIFICATION FairSpec
CONSTANTS
    Looks <- AllLooks
    MaxPrinted = 4
    MaxTests = 2
INVARIANTS TypeOK LinesAsPrinted
PROPERTIES LinesHandedOver

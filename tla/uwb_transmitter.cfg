CONSTANTS
    MaxFixes = 2
    MaxUnplugs = 1
    MaxStarts = 2
    MaxLine = 2
    MaxInbox = 3
SPECIFICATION FairSpec
INVARIANTS
    TypeOK
    PublishesWhatWasParsed
PROPERTIES
    ImplementsLatestWins
    StoresEveryFix
    StopReturns
    StreamsInTheEnd

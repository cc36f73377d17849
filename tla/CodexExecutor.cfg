CONSTANT Runs = {x1, x2}
SPECIFICATION FairSpec
INVARIANTS TypeOK StrayWriterTimedOut LeftoverFileHasCause
PROPERTY EveryCallEnds

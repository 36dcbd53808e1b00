CONSTANTS
 Configs <- AllConfigs
 MaxOutgoing = 1
 Exclusives = {FALSE}
 Openers = {o1, o2}
 DefaultStreamWeight = 3
SPECIFICATION FairSpec
INVARIANTS MapConsistent WaitersWake  
PROPERTIES NeverReopened ScheduledIsReady EveryStreamGetsATurn
CHECK_DEADLOCK FALSE

SPECIFICATION FairSpec
CONSTANTS
    Wanted <- AFew
    MaxLoads = 2
    AbortProne <- Prone
 
PROPERTIES TornDownBringsNothingNew 
CHECK_DEADLOCK FALSE

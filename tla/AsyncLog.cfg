CONSTANTS
    Threads = {t1, t2}
    Lines = {l1, l2, l3}
    Infos = {l2, l3}
    MaxDay = 3
    DayOfYear <- TwoDayYears
    MayFail = TRUE
SPECIFICATION FairSpec
INVARIANTS InOrderOnce NothingLeft FileOfItsDay QuietOnceOff
PROPERTIES EveryLineWritten ImplementsSerialExecutor
CHECK_DEADLOCK FALSE

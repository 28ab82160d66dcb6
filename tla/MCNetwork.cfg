CONSTANTS
    Handler = {h1, h2}
    Script <- ScriptValue
    MaxOn = 3
    MaxTimers = 6
SPECIFICATION MCSpec
INVARIANTS ListenersKept RetriesStop
PROPERTIES CarriesTheStream EveryMessageArrives
CHECK_DEADLOCK FALSE

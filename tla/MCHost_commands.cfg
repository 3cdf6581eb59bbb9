\* Two daemon processes, two calls, three commands, one trouble.
CONSTANTS
    keyboard = keyboard
    None = None
    Proc = {p1, p2}
    Calls = {c1, c2}
    Content <- Contents
    Template <- File1
    Input <- Inputs
    Hex = {1, 2}
    MaxCommands = 3
    MaxTroubles = 1
SPECIFICATION FairSpec
CHECK_DEADLOCK FALSE
INVARIANTS TypeOK ServingReachable AddressAsMeant OneWorker ZeroIsDone
PROPERTIES AnswersAreCurrent LoadedServes

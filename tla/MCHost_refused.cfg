\* One daemon, one call, nothing goes wrong.
CONSTANTS
    keyboard = keyboard
    None = None
    Proc = {p1}
    Calls = {c1}
    Content <- Contents
    Template <- File1
    Input <- Inputs
    Hex = {1, 2}
    MaxCommands = 2
    MaxTroubles = 0
SPECIFICATION Spec
CHECK_DEADLOCK FALSE
PROPERTY AnswerUnderstood

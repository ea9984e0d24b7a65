SPECIFICATION Spec
CONSTANTS
    ui = ui
    rw = rw
    w1 = w1
    w2 = w2
    key = key
    btn = btn
    None = None
    Ctl <- MCCtl
    Worker <- MCWorker
    Input <- MCInput
    Macros <- Gestures
    May <- OneProgram
INVARIANT NothingHeldAtRest

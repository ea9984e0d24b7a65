SPECIFICATION FairSpec
CONSTANTS
    ui = ui
    rw = rw
    w1 = w1
    w2 = w2
    key = key
    btn = btn
    None = None
    Ctl <- MCCtl
    Worker <- MCSingle
    Input <- MCInput
    Macros <- Waits
    May <- PausesAndCallbacks
PROPERTY StoppedWorkerDies
PROPERTY CallsReturn

\* Three monitors and one probe, each stopped by itself.
CONSTANTS
    Monitors = {m1, m2, m3}
    Watches = {w1}
    StopAll = FALSE
    Body = Body
    NoWrap = NoWrap
SPECIFICATION MonitorSpec
INVARIANT TargetRestored
CHECK_DEADLOCK FALSE

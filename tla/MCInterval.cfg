SPECIFICATION Spec
CONSTANTS
    Timers = {t1, t2, t3}
    NoTimer = NoTimer
INVARIANTS TimerTracked NotReentrant
PROPERTIES QuietAfterDispose ImmediateRunHappens DisposeResolves

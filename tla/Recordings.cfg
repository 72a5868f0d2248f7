SPECIFICATION Spec
CONSTANTS
    r1 = r1
    r2 = r2
    Recordings = {r1, r2}
    MaxStarts = 3
    Duplicated = {"completed"}
    MaxInFlight = 2
    Options = {"download", "refused", "unreachable", "cancelled"}
SYMMETRY Interchangeable
INVARIANTS
    RecordingInv
    StartedOnce
    DownloadOnce
    EndsAsTwilioSays
CHECK_DEADLOCK FALSE

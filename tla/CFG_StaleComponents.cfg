\* Config: does a request arriving after a reload observe the reloaded snapshot (spec.md property 8)?
\* Fatal on a bad file at startup and shutdown end a process, and the edits are bounded, so a run may stop.
CONSTANTS
    a1 = a1
    a2 = a2
    Unset = Unset
    Broken = Broken
    Mistyped = Mistyped
    Absent = Absent
    None = None
    Admins <- MC_Admins
    Contents <- MC_Contents
    MaxWrites = 3
SPECIFICATION Spec
CHECK_DEADLOCK FALSE
INVARIANT RequestSeesCurrentSnapshot

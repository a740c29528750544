\* Config: two processes over one file, the file watcher, two concurrent admin reloads, three file edits.
\* Fatal on a bad file at startup and shutdown end a process, and the edits are bounded, so a run may stop.
CONSTANTS
    a1 = a1
    a2 = a2
    Unset = Unset
    Broken = Broken
    Mistyped = Mistyped
    Absent = Absent
    None = None
    Admins <- MC_Admins
    Contents <- MC_Contents
    MaxWrites = 3
SPECIFICATION Spec
CHECK_DEADLOCK FALSE
INVARIANT TypeOK
PROPERTY WatchedWriteApplied

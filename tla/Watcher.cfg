\* One operation of two revisions; two callers, with places for both or for one.
SPECIFICATION Spec
CONSTANTS
    Ops = {o1}
    Callers = {c1, c2}
    MaxLimit = 2
    MaxRevision = 2
    None = None
\* A closed Watcher does nothing more.
CHECK_DEADLOCK FALSE
INVARIANTS WTypeOK ClosedWithOutcome
PROPERTIES OnlyNewer NothingLeaks EndReachesWatcher

SPECIFICATION Spec
CONSTANT UsingDriver = TRUE
INVARIANTS GameIsGuarded SettingsOutliveReaders StopJoinsFirst
PROPERTIES StopEnds FailedStartEnds

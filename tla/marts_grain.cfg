CONSTANTS
    LastInstant = 5
    PerDay = 2
    PerSecond = 2
    ReprocessWindowDays = 2
    Feeds <- Lives
    MaxManual = 0
SPECIFICATION MartsSpec
INVARIANT OneRowPerSubscriberDay
CHECK_DEADLOCK FALSE

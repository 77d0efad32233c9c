CONSTANT LastMjd = 88127
SPECIFICATION CalendarSpec
INVARIANT DecodesToday
CHECK_DEADLOCK FALSE

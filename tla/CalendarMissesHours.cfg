CONSTANTS
  DayHours = 8
  WeekLength = 3
  MonthStarts <- Starts
  ListLength = 4
  Zones <- Zoned
  Instants <- Strip
SPECIFICATION CalendarSpec
INVARIANT EveryDayIsFetched

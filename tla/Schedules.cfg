SPECIFICATION Spec
CONSTANTS
    FirstYear = 2021
    LastYear = 2025
    Row <- kCalendars
    kMaxClosure = 12
    Requests <- MCRequests
    Conventions <- MCConventions
    Windows = {1, 3, 6}
INVARIANT BoundsIncrease ScheduleIsTheGrid HolidaysStayApart AccrualsAddUp FixingsEarnTheWindow BookedLegOwesTheRest

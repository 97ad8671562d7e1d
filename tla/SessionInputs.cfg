SPECIFICATION Spec
CONSTANTS
    m1 = m1
    m2 = m2
    futures = futures
    spot = spot
    seasoned = seasoned
    None = None
    NoFixing = NoFixing
    Markets <- TwoMarkets
    Bands <- TwoBands
    Dates <- BothDates
    Seasoned = {}
    Rates = {low}
    Obs = {futures}
    Schedule <- FutureSchedule
    Books = {seasoned}
    BookSchedule <- SeasonedOnly
VIEW SessionView
INVARIANT EngineIsLive StreamerIsCurrent
PROPERTY ImplementsLiveCurve

CONSTANTS
    Events = {1, 2}
    Dispatchers <- OneDispatcher
    DispatchLimit = 100
    MaxDispatchAttempts = 5
    MaxDeaths = 0
    d1 = d1
SPECIFICATION OutboxFairSpec
PROPERTIES
    EventsSettle
CHECK_DEADLOCK FALSE

\* Two browsers at the service; and a page of staff, two changes of each table and
\* one fault of any kind.
SPECIFICATION MCLiveSpec
CONSTANTS
    TickEvent = TickEvent
    NoEvent = NoEvent
    Clients = {b1, b2}
    Events = {e1}
    MaxRowChanges = 2
    MaxTicks = 1
    EventTypes = {tablechange}
    Message = message
    NoType = notype
    Payloads = {"engagement", "user"}
    Calls = {"withListener"}
    MaxSources = 2
    MaxEvents = 2
    MaxDrops = 1
    TableChange = tablechange
    Faults = {"bridge", "service", "answer", "order"}
    MaxChanges = 2
    MaxFetches = 3
    MaxPosts = 1
    MaxFaults = 1
INVARIANTS NoPanic NoLeak NothingForgotten
PROPERTIES FeedSpec EventTaken ConnectionEnds PageConverges SaveEnds
\* Nothing need happen to a page once the bounds are reached.
CHECK_DEADLOCK FALSE

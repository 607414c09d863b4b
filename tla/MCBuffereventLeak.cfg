SPECIFICATION FairSpec
CONSTANTS
    sock = sock
    ssl = ssl
    ctrl = ctrl
    event_cb = event_cb
    read_cb = read_cb
    Bevs = {sock, ssl}
    Holders = {ctrl}
    Slots = {event_cb, read_cb}
    NoFrame = NoFrame
\* Every object deleted and nothing stored: a run may end there.
CHECK_DEADLOCK FALSE
PROPERTIES
    ClearedDoesNotLeak

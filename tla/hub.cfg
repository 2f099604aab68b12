\* Two connections on channels of one message, so that every channel is full
\* at times.
SPECIFICATION FairSpec
CONSTANTS
    c1 = c1
    c2 = c2
    Conns <- TwoConns
    NoConn = NoConn
    ChannelBuffer = 1
    BroadcastBuffer = 1
INVARIANTS TypeOK NoneLost HealthyStay
PROPERTIES TasksStop DeadAreClosed
\* The process crashes or exits, and the hub can get stuck.
CHECK_DEADLOCK FALSE

\* EventProcessor: Kafka and RabbitMQ, 3 events, a group with a committed offset, 2 crashes or rebalances.
CONSTANTS
    e1 = e1
    e2 = e2
    e3 = e3
    Events <- MC_Events
    Kind <- MC_Kind
    Providers = {"kafka"}
    FreshGroup = FALSE
    MaxRestarts = 2
SPECIFICATION Spec
CHECK_DEADLOCK FALSE
INVARIANT NoEventLost

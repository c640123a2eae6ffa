\* The scale-out requirement of CLUSTERING.md, without a single fault.
SPECIFICATION OutboxSpec
CONSTANTS
    Op = {sync}
    NoOp = none
    Worker = {w1, w2}
    MaxRow = 2
    BatchSize = 2
    MaxFault = 0
PROPERTIES
    ExecutedOnce
CHECK_DEADLOCK FALSE

SPECIFICATION BrokerSpec
CONSTANT MaxMessages = 3
INVARIANT EndedIsNotCalled
\* Nobody has to send.
CHECK_DEADLOCK FALSE

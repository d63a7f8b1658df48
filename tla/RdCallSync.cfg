SPECIFICATION CallSpec
CONSTANT MaxCalls = 3
INVARIANT SyncInvokes
\* Nobody has to call.
CHECK_DEADLOCK FALSE

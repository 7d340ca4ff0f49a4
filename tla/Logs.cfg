SPECIFICATION MCSpec
INVARIANTS LogsExact FtraceExact 
PROPERTY LogsEnd
CHECK_DEADLOCK FALSE

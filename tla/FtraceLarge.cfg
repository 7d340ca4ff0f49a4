SPECIFICATION MCSpec
INVARIANT LargeRecordSkipped
CHECK_DEADLOCK FALSE

SPECIFICATION Spec
INVARIANTS TypeOK OneInside NothingLost FailureRestores RecordsAgree
PROPERTIES NoStepBack
CHECK_DEADLOCK FALSE

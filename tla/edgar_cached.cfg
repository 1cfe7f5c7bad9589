\* One registrant over three days, in a process that is never restarted for sure:
\* is every day that is passed over one EDGAR has no index of?
SPECIFICATION EdgarSpec
CONSTANTS EdgarDays=3 Lookback=2
INVARIANT OnlyUnpublishedAreSkipped
CHECK_DEADLOCK FALSE

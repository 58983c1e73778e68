SPECIFICATION CallsSpec
CONSTANTS
  MaxRetry = 3
  Unit = 1
  Cap = 5
  Bits = 6
  Tracing = TRUE
  Servers <- MCServers
  Calls <- MCAll
  MaxEntries = 2
INVARIANTS RetryTypeOK OutcomeOfTries BodiesAccountedFor OutcomeIsTheServers RepeatsAreSafe MetricsNilMeansFinal
 
CHECK_DEADLOCK FALSE

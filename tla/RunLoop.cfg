SPECIFICATION Spec
CONSTANTS
  Keys = {"go", "single", "reset", "turbo", "test", "dp", "quit", "^c", "^e", "y", "n"}
  MaxKeys = 3
  MaxSignals = 1
PROPERTIES
  EventStopsRun
  EndIsFinal
  TerminateObeyed
CHECK_DEADLOCK FALSE

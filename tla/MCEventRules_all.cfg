SPECIFICATION FairSpec
CONSTANTS
  Gauges = {memory}
  Top = 2
  OpenAt = 2
  ClearAt = 1
  unit = unit
  Workloads = {unit}
  Source <- MCSource
  Listeners = {https, ssh}
  MaxCrashes = 1
PROPERTIES RecoveryIsReal NoFalseNovelty NewListenerReported EventsSettle

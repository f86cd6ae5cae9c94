\* Liveness under FairSpec, one device.
SPECIFICATION FairSpec
CONSTANTS
  Devices = {d1}
  d1 = d1
  Hotplug = {d1}
  MaxQueue = 3
  Noise = {"repeat", "other"}
  RetryOn = TRUE
  SignalCauses = {"canceled", "signal"}
PROPERTIES
  CancelLeadsToExit
  NoListenerLeadsToExit
  SendCompletes
  GuardedFairness

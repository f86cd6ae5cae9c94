\* The promise of the default config about disconnected devices.
SPECIFICATION Spec
CONSTANTS
  Devices = {d1}
  d1 = d1
  Hotplug = {d1}
  MaxQueue = 3
  Noise = {"repeat", "other"}
  RetryOn = TRUE
  SignalCauses = {"canceled", "signal"}
PROPERTIES
  DisconnectedIsRetried

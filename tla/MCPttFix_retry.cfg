\* Two devices that come and go, retries on, an interrupt whose cause can lead
\* to exit status 0.  What listen skips here is SYN_DROPPED.
SPECIFICATION Spec
CONSTANTS
  Devices = {d1, d2}
  d1 = d1
  d2 = d2
  Hotplug = {d1, d2}
  MaxQueue = 2
  Noise = {}
  RetryOn = TRUE
  SignalCauses = {"canceled"}
SYMMETRY Symmetry
INVARIANTS
  TypeOK
  CleanExitMeansInterrupted
  NoDevicesMeansAllIgnored
  ExitReleasesAll
  NeverWedged
  ErrorInv
  FileInv
  PipelineEndsAtKey
  SettledKeyAgrees
PROPERTIES
  DeviceFailureIsolated
  ReaderRetries
  ImplementsPushToTalk

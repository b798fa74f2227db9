CONSTANTS
  ma = ma
  mb = mb
  r1 = r1
  r2 = r2
  r3 = r3
  la = la
  lb = lb
  ca = ca
  ba = ba
  NPU = NPU
  NoEngine = NoEngine
  NoLock = NoLock
  NoTask = NoTask
  NoDevice = NoDevice
  LoadLock = LoadLock
  Models = {ma, mb}
  Devices = {NPU}
  Requests = {r1}
  Loaders = {la, lb}
  Changers = {ca}
  Testers = {ba}
  ModelOf <- TwoModelsOf
  Engines = {e1, e2, e3, e4}
  Locks = {k1, k2, k3}
  MaxHung = 1
SPECIFICATION Spec
SYMMETRY Interchangeable
INVARIANTS
  
  AwaitedBuildsSerialized

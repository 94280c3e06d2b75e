SPECIFICATION Spec
CONSTANTS
  b1 = b1
  b2 = b2
  b3 = b3
  d1 = d1
  d2 = d2
  s1 = s1
  Box = {b1, b2, b3}
  Device = {d1, d2}
  Source = {s1}
  Cost = {1, 2}
  MaxFiles = 2
  MaxBytes = 3
  MaxBoxes = 2
  MaxMsgs = 2
  MaxBoxBytes = 2
  MaxHeld = 1
  MaxHeldBytes = 2
  MaxAckDevices = 1
  TTL = 0
  MaxDeposits = 3
  MaxNow = 1
  MaxFaults = 1
  BoxOf <- FirstBox
INVARIANTS BooksMatchFiles Ceilings AckedWasFiled HiddenWasFiled
PROPERTY UncollectedStays
SYMMETRY Devices

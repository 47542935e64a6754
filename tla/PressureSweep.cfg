SPECIFICATION MCSpec
CONSTANTS
  m1 = m1
  m2 = m2
  m3 = m3
  m4 = m4
  Mems = {m1, m2, m3, m4}
  Sweepers = {s1, s2}
  Free = Free
  Target = 2
  One = 10
  Kp = 5
  Ki = 1
  Deadband = 6
  Hysteresis = 1
  MaxChange = 5
  Levels = {3, 8}
  MaxTouches = 2
  MaxRollbacks = 1
PROPERTIES UpdatesAreSerial ReportIsExact SmallAgentsRecover

CONSTANTS
  r1 = r1
  r2 = r2
  r3 = r3
  v1 = v1
  v2 = v2
  Refs = {r1}
  Contents = {c1, c2}
  Workloads = {w1}
  Vulns = {v1, v2}
  Destinations = {d1}
  Faults = {"scan", "unconfirmed"}
  MaxClock = 2
  Repo <- OneRepo
  Profiles <- FailureProfiles
SPECIFICATION Spec
INVARIANTS NoFlap AgedFromNews ActNowIsTold SilenceMeansClear

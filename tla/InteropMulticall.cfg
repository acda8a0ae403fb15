SPECIFICATION MulticallFairSpec
CONSTANTS
  Supervisors = {s1, s2, s3}
  Accesses = {a1, a2, a3, a4}
  Malformed = bad
  MaxList = 4
  AccessListSizeLimit = 3
PROPERTIES
  AnsweredOnceAllRespond
CHECK_DEADLOCK FALSE

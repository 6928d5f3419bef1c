\* Three overlapping quote requests; resets run alone.
CONSTANTS
  s1 = s1  s2 = s2  s3 = s3  a1 = a1
  Quoters = {s1, s2, s3}
  Admins = {a1}
  Threshold = 3
  ResetsOverlap = FALSE
SPECIFICATION FairSpec
INVARIANTS
  TypeOK
  OpenHasCooldown
PROPERTIES
  CooldownIsServed
  OpenIsProbedAgain
  OutageOpens

\* A reset that overlaps quote requests.
CONSTANTS
  s1 = s1  s2 = s2  s3 = s3  a1 = a1
  Quoters = {s1, s2}
  Admins = {a1}
  Threshold = 2
  ResetsOverlap = TRUE
SPECIFICATION FairSpec
PROPERTY
  OpenIsProbedAgain

SPECIFICATION FairSpec
CONSTANTS
  scan = scan
  branch = branch
  d1 = d1
  d2 = d2
  d3 = d3
  Scans = {scan}
  Branches = {branch}
  Order <- MCOrder1
  ForceFlags = {TRUE, FALSE}
  AdsFlags = {TRUE}
  MaxGen = 2
  MaxFaults = 1
INVARIANTS DwdVouches GreenIsPublished AdsCoverScan
PROPERTIES EventuallyPublished
CHECK_DEADLOCK FALSE

CONSTANTS
  Start <- MCStart
  MaxFailures = 3
  Scripts <- MCScripts
  Unmailable = {"landlord"}
  Listed = 1
  Click = {first, second}
  MaxFaults = 1
  MaxMounts = 1
  clip = clip
  p1 = p1
  Photos = {p1, p2, clip}
  Videos = {clip}
  Nights = {1, 2}
  MaxPosts = 2
  MaxForms = 2
  MaxSaves = 2
  MaxMishaps = 1
SPECIFICATION MCSpec
CONSTRAINT MCSmall
CHECK_DEADLOCK FALSE
INVARIANTS
  MenuFits
  OtherIsTold
  BadgeNeverHides
  CounterNeverHides
  OneListingPerFilling
  PhotosKept
  NightsInOrder
PROPERTY
  Lands

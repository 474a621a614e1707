CONSTANTS
  a1 = a1
  a2 = a2
  b1 = b1
  r1 = r1
  r2 = r2
  Releases = {r1, r2}
  External = External
  NoRelease = NoRelease
  Images = {a1, a2, b1}
  Digest <- MCDigest
  Unpinned = Unpinned
  NoImage = NoImage
  MaxFaults = 1
SPECIFICATION Spec
INVARIANT SuccessRunsTarget

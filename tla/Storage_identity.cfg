SPECIFICATION Spec
CONSTANTS
  Locations = {home, hill}
  MaxKeys = 3
INVARIANTS
  IdentityFromFirstBoot

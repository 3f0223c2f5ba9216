\* Three saves of one field at any layer, and the group deleted at any time.
SPECIFICATION LayersSpec
CONSTANTS
  Null = Null
  Expiries = {182, 365, 396}
  RegionalModes <- MCRegional
  Banners <- MCBanners
  Known = {"necessary", "analytics"}
  Necessary = "necessary"
  Unknown = {"typo"}
  MaxSaves = 3
  Europe = {"FR"}
  Countries = {"FR", "US"}
  Parts = {"CA"}
CHECK_DEADLOCK FALSE
INVARIANTS
  InheritanceTrue
  BackfillMatches
  OptInPassIsServed

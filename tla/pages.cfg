\* Pages of three rows, up to seven rows, two creations and two removals between pages.
CONSTANTS
  PageSize = 3
  MaxItems = 7
  MaxChanges = 2
SPECIFICATION Spec
INVARIANTS
  QuietListingIsExact
  MissesAreRemovals
  RepeatsAreCreations
  PagesAreBounded
CHECK_DEADLOCK FALSE

CONSTANTS
  Bases = {0, 1, 2}
  PageSize = 2
  MaxEntries = 1
  MaxChanges = 3
SPECIFICATION MCSpec
INVARIANTS ListingInv QuietListingExact CreationsHideNothing
INVARIANTS NfsListingExact OthersHideNothing ReaddirInv
PROPERTIES ListingsEnd
CHECK_DEADLOCK FALSE

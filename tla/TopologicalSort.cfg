SPECIFICATION FairSortSpec
CONSTANTS
  Elements = {a, b, c}
INVARIANTS OrderOrFailure
PROPERTIES DropsForeignOnly SortEnds
CHECK_DEADLOCK FALSE

SPECIFICATION ViewFairSpec
CONSTANTS
  Places <- MCPlaces
  KindOf <- MCKindOf
  Items = {"post", "other", "comment"}
  Lists <- MCLists
  Needs <- MCNeeds
  None = None
  HeadAtStart <- MCHeadAtStart
  MaxNav = 1
  MaxEvents = 2
  MaxViews = 3
CHECK_DEADLOCK FALSE
INVARIANT OnlyActiveViewPolls
PROPERTIES ListHeals DraftSurvivesPoll

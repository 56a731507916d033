SPECIFICATION Spec
CONSTANTS
  Offers = {o1, o2}
  Slots <- MCSlots
  Scopes <- MCScopes
  Requests = {p1, p2}
  MaxEvents = 1
  NoOffer = NoOffer
  NoSlot = NoSlot
  o1 = o1
  o2 = o2
  o3 = o3
  p1 = p1
  p2 = p2
INVARIANTS OpenOfferCanBeAnswered
CHECK_DEADLOCK FALSE
CONSTRAINT CountersOfTheOther

SPECIFICATION FairSpec
CONSTANTS
  e1 = e1  e2 = e2  w1 = w1  w2 = w2  id = id  NoId = NoId
  Events <- TwoEvents
  Workers <- TwoWorkers
  Ids = {id}
  IdOf <- SharedId
  Limit = 2
INVARIANT IInv
PROPERTIES DeliveryKept EventuallyPublished

SPECIFICATION FairSpec
CONSTANTS
  p1 = p1  p2 = p2  p3 = p3  w1 = w1  w2 = w2  a = a
  Publications <- ThreeRows
  Articles = {a}
  ArticleOf <- OneArticle
  Workers <- TwoWorkers
  Limit = 1
  Decisive = TRUE
  Prompt = TRUE
  Disconnects = FALSE
  MaxVersion = 2
  MaxTroubles = 1
CONSTRAINT InOrder
INVARIANTS IInv OneRequest OnePost SiteAsRecorded
PROPERTIES ResultsAreFinal PostKept EventuallyDecided
CHECK_DEADLOCK FALSE

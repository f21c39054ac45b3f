SPECIFICATION FairSpec
CONSTANTS
  t1 = t1  t2 = t2  p = p  w1 = w1  w2 = w2
  Threads <- TwoThreads
  Projects <- OneProject
  ProjectOf <- Sender
  ThreadOf <- Replies
  PageSize = 1
  Workers <- TwoWorkers
  Nobody = Nobody
  Earlier = 1
  MaxMail = 3
  MaxTroubles = 1
PROPERTY InterruptedResumes

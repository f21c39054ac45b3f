SPECIFICATION FairSpec
CONSTANTS
  r1 = r1  r2 = r2  r3 = r3  contact = contact
  d1 = d1  d2 = d2  mailA = mailA  mailB = mailB  k1 = k1  k2 = k2
  Requests <- ThreeRequests
  ContactOf <- OneContact
  Copies = {"copy"}
  Cooldown = 1
  KeyOf <- RaceKeys
  DraftOf <- RaceDrafts
  MailboxOf <- RaceMailboxes
  PurposeOf <- AllInitial
  MaxRevision = 1
  Horizon = 1
INVARIANTS IInv NoMessageTwice CooldownKept AnswersNameTheMessage
PROPERTIES ConfirmedAtCommit EventuallyAnswered
CHECK_DEADLOCK FALSE

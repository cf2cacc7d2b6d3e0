CONSTANTS
  b1 = b1
  r1 = r1
  r2 = r2
  None = None
  Batches <- OneBatch
  Drafted = b1
  Recipients <- TwoRecipients
  Local = r1
  Audience <- Audiences
  Earlier = Earlier
  OpenLimit = 1
  MaxStrays = 1
SPECIFICATION LiveSpec
CHECK_DEADLOCK FALSE
INVARIANTS MailboxIsWhole AcceptedStaysSendable OutcomeIsTruthful
PROPERTIES FanoutEnds

\* Two submissions from one tab over two days; one fault.
SPECIFICATION SubmissionFairSpec
CONSTANTS
  LastRequest = 2
  Tabs = {t1}
  KeyConfigured = FALSE
  MaxFaults = 1
  MaxDay = 2
INVARIANTS
  TypeOK
  AnswersAreTrue
  JobsInPairs
  
PROPERTIES
  TicketSpec
  LockedAfterSuccess
  PanelSettles

SPECIFICATION FairParkedSpec
CONSTANTS
  Units = {u1}
  Clients = {c1}
  Starts <- MCStarts
  MaxSeq = 2
  MaxProcesses = 2
  MaxAnswers = 1
INVARIANT OneRecord
PROPERTIES ParkedIsSeen AnsweredIsActedOn
CHECK_DEADLOCK FALSE

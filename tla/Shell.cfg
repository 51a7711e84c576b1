CONSTANTS
  c1 = c1
  c2 = c2
  Clients <- MCClients
  Usb = usb
  MaxServ = 2
  TxLength = 1
  InboxLength = 1
  MaxQueries = 1
  Answers <- MCAnswers
  MaxItems <- MCMaxItems
  Patient = TRUE
SPECIFICATION FairSpec
INVARIANTS TypeOK 
PROPERTIES  LinesServed 
CHECK_DEADLOCK FALSE

SPECIFICATION FairSpec
CONSTANTS
  a = a
  b = b
  Ends <- MCEnds
  Resend <- MCResend
  Quota <- MCQuota
  MaxMessages = 4
  WND_RCV = 3
  SndWnd = 2
  AskedRcvWnd = 2
  FASTACK_LIMIT = 1
  THRESH_MIN = 2
  MaxNet = 2
  MaxFaults <- MCMaxFaults
INVARIANT TypeOK
INVARIANT UnreceivedIsKept
PROPERTY ImplementsStream
PROPERTY EverythingIsRead
CHECK_DEADLOCK FALSE

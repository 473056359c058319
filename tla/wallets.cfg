SPECIFICATION FairSpec
CONSTANTS
  vendor = vendor
  Orders = {o1, o2}
  Payees = {vendor}
  SharesOf <- MCSharesOf
  Operators = {m1}
  Requests = {r1, r2}
  Requester <- MCRequester
  Approvals = {a1, a2}
  MaxAmount = 1
  Suspicious = {r2}
  NoApproval = NoApproval
  NoRequest = NoRequest
INVARIANTS
  TypeOK
  PendingIsBacked
  AccountsAddUp
  ReservedIsOpen
  PayoutOnce
  OutcomeIsTheBanks
PROPERTIES
  ReversedIsFinal
  ProcessingIsResolved
CHECK_DEADLOCK FALSE
CONSTRAINT Focus

SPECIFICATION FairSpec
CONSTANTS
  a1 = a1
  i1 = i1
  i2 = i2
  o1 = o1
  e1 = e1
  None = None
  Adapters = {a1}
  Endpoints = {e1}
  Incoming = {i1, i2}
  Outgoing = {o1}
INVARIANTS TypeOK NoConnForgotten NoListenerLeft QuietAfterCancel
 
CHECK_DEADLOCK FALSE

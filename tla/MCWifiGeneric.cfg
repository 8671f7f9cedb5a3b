SPECIFICATION GenericFairSpec
CONSTANTS
  Callbacks = {c1}
  Events = {e1, e2}
  ANY = any
  NONE = none
  MaxRegs = 2
  Callers = {"loop", "handler"}
  Addrs = {1, 2}
  MaxCalls = 2
INVARIANTS
  CallersSafe
PROPERTIES
  HandlersCalled
  ReturnsTheAnswer
  LateAnswerReturns

\* Every kind of call, one file operation that fails, crashes at any step.
CONSTANTS
  c1 = c1
  c2 = c2
  c3 = c3
  Caller <- MCCaller
  Kind = {"Ensure", "EnsureNoCache", "Install", "WriteFile"}
  MaxFaults = 1
SPECIFICATION Spec
SYMMETRY MCSymmetry
INVARIANT GoodTreeKept
INVARIANT LeftoverIsReported
INVARIANT EndsInPlace

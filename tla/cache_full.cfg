SPECIFICATION Spec
CONSTANTS
  report = report
  letter = letter
  plan = plan
  memo = memo
  Key = {report, letter, plan, memo}
  Value = {v1, v2}
  NoValue = NoValue
  NoNode = NoNode
  Capacity = 3
  Hash <- MCHash
INVARIANT PutsEnd
CHECK_DEADLOCK FALSE

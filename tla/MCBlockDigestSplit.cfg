SPECIFICATION DigestSpec
CONSTANTS
  B = 8
  T = 6
  Step = 4
  Slack = 2
  MaxSize = 26
INVARIANT DigestsTheMessage

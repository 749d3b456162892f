CONSTANTS
  Blocks = {b1, b2}
  Values = {v1, v2}
  Junk = Junk
  MailSize = 2
  NoBlock = NoBlock
SPECIFICATION Spec
INVARIANT FreedInUse

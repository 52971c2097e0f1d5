CONSTANTS
  Members = 4
  Faulty = {2, 3}
  Quorum = 2
  QuietStarts = {TRUE, FALSE}
  Honesties = {TRUE, FALSE}
  MaxBlocks = 3
  Torn = Torn
  None = None
SPECIFICATION Spec
INVARIANTS SoundMemberIsRight WrongNodeOrWrongObserver

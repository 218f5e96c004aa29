CONSTANTS
  Files = {1, 2}
  Edited = {1}
  Texts <- MCTexts
  Matches <- MCMatches
  Cursors <- MCCursors
  Disks <- MCDisks
  MaxQueue = 1
  MaxSends = 4
  MaxChanges = 1
SPECIFICATION Spec
INVARIANTS TreeIsCurrent AnswersAreCurrent
CHECK_DEADLOCK FALSE

\* Every reply with the fields in any order, texts of up to two marks.
SPECIFICATION Spec
CONSTANTS
  Uses = {"open", "conduct", "judge", "answer"}
  TextMarks = {"blank", "quote", "backslash", "newline", "letter"}
  MaxMarks = 2
  ListMarks = {"quote", "open", "close"}
  ActionMarks = {"advance", "nudge", "comma"}
INVARIANTS
  ReplyInv
  OnlyTheTextIsShown
  ShownIsSaved
  AdvanceIsSilent
  NoFalseRefusal
CHECK_DEADLOCK FALSE

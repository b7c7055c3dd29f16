SPECIFICATION Spec
CONSTANTS
  Names = {"a", "b"}
  MaxOpen = 3
  Entry <- Listed
  Garbage <- Unknown
  Trees <- SmallTrees
  Start <- A
  HOME <- B
  Alphabet <- Sorted
  Orders <- Readdir
  Rows = {2, 3}
  Commands <- Typed
  CopyDir <- copy_dir
  MoveDir <- move_dir
  RemoveDir <- remove_dir
  SearchExec <- searchexec
  CwdLimit = 2
  MaxHistory = 2
  MaxEffort = 4
CHECK_DEADLOCK FALSE
INVARIANTS
  TypeOK
  CursorArithmetic
  SelectionInRange
  ListingIsCurrent
  SearchIsExact
PROPERTIES
  AgreementKept
  HistoryForgetsNothing
  ImplementsPager
  CopyIsExact
  MoveIsExact
  DeleteIsExact

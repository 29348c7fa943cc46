CONSTANTS
  Starts <- MCStarts
  Clicked <- MCClicked
  Replies <- MCReplies
  StepTime = 2
  MaxPlies = 3
SPECIFICATION Spec
INVARIANTS
  ScreenIsTrue
  SelectionIsOwn
  RecordsAgree
  ClockFollowsTurn

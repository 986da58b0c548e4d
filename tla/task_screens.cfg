\* One page of a task and the dashboard, while another task can take its number.
SPECIFICATION FairSpec
CONSTANTS
  Tasks = {1, 2}
  Handles = {1}
  Shown = 1
  Followed = {{"list"}, {"stats"}, {"history"}, {"task", "holder"}}
  Worked = {1}
  MaxExecutions = 1
  MaxUnheard = 1
INVARIANTS
  TypeOK
  QuietMeansFresh
  ReclaimedIsTrue
  ActionsAddressShown
PROPERTIES
  PageCatchesUp
CHECK_DEADLOCK FALSE

SPECIFICATION FilesSpec
CONSTANTS
  Blocks = 2
  Budget = 5
  Nothing = Nothing
  Foreign = Foreign
  Junk = Junk
  Tasks = {1, 2}
  Requests = {1, 2, 3}
  TaskQueue = 2
  TaskTransit = 1
  TaskClicks = 3
INVARIANT PartIsProved
INVARIANT TasksAgree
PROPERTY ConfirmedLasts
PROPERTY DeliverySpec
CHECK_DEADLOCK FALSE

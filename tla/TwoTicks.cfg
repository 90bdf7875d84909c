SPECIFICATION Spec
CONSTANTS
  issue = issue
  other = other
  bots = bots
  comment = comment
  review = review
  Issues = {issue, other}
  Pulls = {}
  Comments = {comment}
  Reviews = {}
  Ticks = {watcher, panel}
  Watcher = watcher
  Authors <- Writers
  Overlap = 1
  PollTime = 1
  Page = 9
  Listed = 9
  Remembered = 1
  MaxTime = 3
  Faults = {"crash"}
  NoPull = NoPull
CHECK_DEADLOCK FALSE
INVARIANTS TypeOK NothingPassedOver EmittedWasHandled WokenIsSpent OwnOutputIsIgnored RepliesAreServed

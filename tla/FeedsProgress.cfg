SPECIFICATION FairSpec
CONSTANTS
  issue = issue
  other = other
  bots = bots
  comment = comment
  review = review
  Issues = {}
  Pulls = {pr}
  Comments = {bots}
  Reviews = {review}
  Ticks = {watcher}
  Watcher = watcher
  Authors <- Writers
  Overlap = 1
  PollTime = 1
  Page = 9
  Listed = 9
  Remembered = 3
  MaxTime = 2
  Faults = {"feed"}
  NoPull = NoPull
CHECK_DEADLOCK FALSE
INVARIANT NothingPassedOver
PROPERTY EventsAreJudged

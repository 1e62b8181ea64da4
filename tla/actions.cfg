\* Two presses under way at once, beside a poll.
SPECIFICATION FairSpec
CONSTANTS
  one = one
  two = two
  Presses = {one, two}
INVARIANTS TypeOK OwnOutcome
PROPERTIES ActsOnCheckedState UpdateEnds

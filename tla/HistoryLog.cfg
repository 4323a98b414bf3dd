SPECIFICATION Spec
CONSTANTS
  InfoLines = 2
  Replies <- MCReplies
  MaxShots = 5
  MaxKills = 2
  MaxRequests = 3
CHECK_DEADLOCK FALSE
INVARIANTS TypeOK SoundShotsShown NothingElseShown FieldsShown

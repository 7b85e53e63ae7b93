CONSTANTS
  Capacity = 2
  Uids = {a}
  Actions = {next}
  QueueSize = 3
  MaxLinks = 2
  MaxNotices = 2
  MaxMedia = 1
  Failures = TRUE
SPECIFICATION PhoneSpec
INVARIANTS
  NeverBlank
  MusicOfThisLink
  LinkRight
PROPERTIES
  DismissIsDisplayed
  AppNameEnds
  SearchEnds

SPECIFICATION Spec
CONSTANTS
  Slots = {0}
  Reminders = {}
  DayHours = 2
  HourMinutes = 1
  MaxMinute = 3
  MaxSets = 2
  MaxLinks = 1
  MaxFinds = 0
INVARIANT DisabledHasRung

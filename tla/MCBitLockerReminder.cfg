SPECIFICATION FairReminder
CONSTANTS
  Volumes = {c}
  System = c
  Installers = {o1, o2}
  NoOne = NoOne
  MaxMishaps = 3
INVARIANTS PauseIsOwed
PROPERTIES ResumeYields ReminderRetires PauseIsShown
CHECK_DEADLOCK FALSE

SPECIFICATION ShellSpec
CONSTANTS
    Week = 7
    MaxReminders = 2
    SaveMayFail = FALSE
INVARIANTS
    DailyReminder

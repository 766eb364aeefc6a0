CONSTANTS
  Routines = {"ide_writeback", "ide_intr", "timer_event", "keyboard_event"}
  Gap = 8
  SIZE = 3
  Letters = {"a"}
  LetterPeriod = 2
  Down = 1
  Up = 2
  Bottom = 2
  MaxTick = 4
  MaxEvents = 1
SPECIFICATION LiveSpec
PROPERTIES KeepsUp

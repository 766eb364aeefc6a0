CONSTANTS
  Routines = {"ide_writeback", "ide_intr", "timer_event", "keyboard_event"}
  Gap = 0
  SIZE = 3
  Letters = {"a", "b"}
  LetterPeriod = 2
  Down = 1
  Up = 2
  Bottom = 3
  MaxTick = 5
  MaxEvents = 2
SPECIFICATION Spec
INVARIANTS NoDeadHalt PoolSound Exclusion OneShotPerPress

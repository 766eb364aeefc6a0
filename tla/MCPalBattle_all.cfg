CONSTANTS
  NPlayers = 3
  NSlots = 3
  Battles <- MCBattles
  MaxFull = 4
  Cap = 4
  Dual <- MCDual
  Kinds = {"attack", "magic", "coop", "flee", "item"}
  Troubles = {"confused"}
  MaxItems = 1
SPECIFICATION Spec
INVARIANTS OneCommander CoopAlone TargetIsThere SomebodyToHit
PROPERTIES NothingFromNothing DecidedStays TurnComes

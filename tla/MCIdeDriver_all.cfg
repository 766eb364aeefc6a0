CONSTANTS
  Routines = {"ide_writeback", "ide_intr"}
  Gap = 6
  Sectors = {0, 1, 2, 3}
  SectorWords = 2
  Word <- MCWord
  Disk <- MCDisk
  NR_SEC_CACHE = 2
  None = None
SPECIFICATION LiveSpec
INVARIANTS NeverSleeps NoStrayIdeIntr CacheCorrect
PROPERTIES ReaderSpec

SPECIFICATION FilesSpec
CONSTANTS
  Texts = 2
  MaxLines = 2
  BackupCount = 2
  MaxGrowth = 3
INVARIANTS
  NewestLinesKept
  SizeLimited
PROPERTIES
  PublishedIsCurrent
  Recovers
  LossIsReported

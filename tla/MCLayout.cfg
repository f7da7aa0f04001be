SPECIFICATION Spec
CONSTANTS
  PageW = 11
  PageH = 8
  Jobs <- MCJobs
  Garbage <- MCGarbage
INVARIANTS EveryCellWritten GridInMargins BleedIsClamp PhotosIntact 
CHECK_DEADLOCK FALSE

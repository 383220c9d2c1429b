\* The services around the database, one at a time.
SPECIFICATION AllSpec
CONSTANTS
  None = None
  g1 = g1
  g2 = g2
  n1 = n1
  n2 = n2
  t1 = t1
  t2 = t2
  lowest_discernible_value = 2
  highest_trackable_value = 200
  significant_figures = 1
  INT64_MAX = 9999
  RecordingThreads = {t1, t2}
  Values = {0, 70, 135, 600}
  Intervals = {0, 60}
  MaxRecords = 3
  Parts = {"mem", "cache", "hot", "memfs", "histogram", "bench"}
INVARIANTS
  MemTableReadsAreSound
  
  
  
  HistogramIsExact
  
CHECK_DEADLOCK FALSE

SPECIFICATION Spec
CONSTANTS
  Workers = {w1, w2}
  Samples = {s1, s2}
  Master = Master
  Archive = Archive
  NoOne = NoOne
  Async = FALSE
  Scrapers = {w1}
  Gauges = {}
  Failures = {"merge", "rename", "unlink", "raise", "kill"}
INVARIANTS
  NoLostWakeup
  NoSampleTwice
  ScrapeExact
PROPERTIES
  SamplesNeverLost
  ImplementsStore
SYMMETRY SampleSymmetry

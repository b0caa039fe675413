SPECIFICATION FairSpec
CONSTANTS
  Workers = {w1, w2}
  Samples = {s1}
  Master = Master
  Archive = Archive
  NoOne = NoOne
  Async = TRUE
  Scrapers = {w1}
  Gauges = {w2}
  Failures = {"merge", "rename", "unlink", "raise", "kill"}
PROPERTIES DeadWorkersHandled ScrapesEnd

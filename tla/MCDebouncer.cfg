SPECIFICATION FairSpec
CONSTANTS
  c1 = c1
  c2 = c2
  c3 = c3
  n1 = n1
  n2 = n2
  Container = {c1, c2, c3}
  Name = {n1, n2}
  NameOf <- MCNameOf
  Labelled = {c1, c2}
  Excluded = {c3}
  Ticket = {t1, t2}
  QueueCap = 1
  None = None
  Cli <- ClientFilter
  Source = {"event", "removal", "full", "caller"}
INVARIANTS PendingHasTimer NothingForgotten FullScanKept
PROPERTY EventuallyBegun

SPECIFICATION FairSpec
CONSTANTS
  Objects = {p}
  NoObject = NoObject
  Hosts = {h1, h2}
  NoHost = NoHost
  Others = {"absent"}
  Worker = w
  Workers = {w}
  Served <- ServesAll
  Lagging = {}
INVARIANTS
  ReportIsOfOneProbe
PROPERTIES
  ReportIsOfItsHost
  ReportCatchesUp
\* every object may be gone
CHECK_DEADLOCK FALSE

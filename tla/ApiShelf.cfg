SPECIFICATION Spec
CONSTANTS
  w = w
  r1 = r1
  u1 = u1
  u2 = u2
  bad = bad
  NoObject = NoObject
  MaxVersion = 3
  MaxTime = 2
  DelayedStatusTime = 0
  Handlers <- WriterAndReader
  Serves <- ServesByRole
  Urls = {u1, bad}
  ValidUrls = {u1}
  Faults <- WritesMayFail
PROPERTY ImplementsShelf

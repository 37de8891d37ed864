SPECIFICATION CdnSpec
CONSTANTS
  dom = dom
  react = react
  three = three
  tool = tool
  root = root
  sub = sub
  any = any
  old = old
  r1 = r1
  r2 = r2
  None = None
  Names = {dom, react, three, tool}
  Entries = {root, sub}
  Ranges = {any, old}
  Releases = {r1, r2}
  Offers <- Registry
  Imports <- Files
  Declares <- Manifests
  Pins <- AppPins
  Roots <- Query
  Ignored = {}
  Limit = 2
  MaxFaults = 1
  c1 = c1
  c2 = c2
  Calls = {c1, c2}
  CacheMaxFaults = 2
  MaxLapses = 2
  MaxCrashes = 1
INVARIANTS ExactTree NoWorkTwice PinsWin WaitersAreServed AnsweredIsStored
PROPERTIES TreeIsAnswered ErrorsOnlyWithoutValue WholeWithoutOverlap CallsAreAnswered
CHECK_DEADLOCK FALSE

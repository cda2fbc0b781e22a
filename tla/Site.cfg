SPECIFICATION Spec
CONSTANTS
  Employers = {x, y, z}
  Slugs = {foo, foo2, foo3, other}
  x = x
  y = y
  z = z
  foo = foo
  foo2 = foo2
  foo3 = foo3
  other = other
  Base <- Names
  Numbered <- WithNumber
  soc = soc
  tech = tech
  rare = rare
  st = st
  terr = terr
  sec = sec
  Codes = {soc, tech, rare, st, terr, sec}
  Curated <- Pagers
  Cited <- Namers
  Api = TRUE
  MaxQuarter = 2
  MaxBuilds = 3
  MaxCrashes = 1
SYMMETRY Swap
INVARIANTS
  UrlsSurvive
  NoDeadLinks
  ArchiveLinksBack
  RedirectsLanded
CHECK_DEADLOCK FALSE

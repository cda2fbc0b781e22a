SPECIFICATION Spec
CONSTANTS
  None = None
  dev = dev
  devBlank = devBlank
  lead = lead
  boss = boss
  e = e
  c = c
  d = d
  alt = alt
  Titles <- MCTitles
  Trim <- MCTrim
  Sim <- MCSim
  Feins = {e}
  Codes = {c, d, alt}
  Cases <- MCCases
  Dmtf <- MCDmtf
  Records <- MCRecords
  MinHits = 1
  MinEmployers = 1
  MinAgreement = 80
  K = 2
  BatchSize = 2
  MaxOutages = 1
INVARIANTS
  HigherStageAnswers
  AnswerIsOwn
  DmtfPrevails
  CandidatesAreBest

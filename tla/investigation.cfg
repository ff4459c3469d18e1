CONSTANTS
  jenkins = jenkins
  datadog = datadog
  c1 = c1
  c2 = c2
  c3 = c3
  c4 = c4
  dev37 = dev37
  prod = prod
  job = job
  Server = {jenkins, datadog}
  Call = {c1, c2, c3, c4}
  Budget = 2
  MaxRuns = 2
  Jenkins = jenkins
  Target = {dev37, prod}
  Demo = dev37
  JobNumber <- Colliding
SYMMETRY Symmetry
SPECIFICATION DiagnosisSpec
INVARIANTS TypeOK BudgetKept EveryServerAccounted NothingLeftOpen LogIsOfListedDeploy

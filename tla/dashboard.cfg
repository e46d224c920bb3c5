CONSTANTS
  Nodes = {"n1", "n2"}
  Groups = {"g1", "g2"}
  GroupOf <- GroupOfNode
  Rank <- Alphabet
  Reports <- ReportsOf
  Dynamic = {"expr"}
  ServiceLimit = 1
  Needles = {"f1", "b1", "s2", "gone", "n1"}
  Hits <- HitsOf
  Sections = {"f1", "f2"}
  SeriesNames = {"p1", "p2", "p3"}
  Stamps = {1, 2}
  MaxSeries = 2
  Configs <- ConfigSet
  Values = {0, 1, 7, 90, 100, 101}
  Null = Null
  Ignored = {"from", "name"}
  Colours = 2
  Top = 10
  PlotH = 140
  MIN_GAP = 12
  Powers = {1, 10, 100}
  None = None
  Everything = Everything
SPECIFICATION Spec
INVARIANTS
  TypeOK
  AnswersCompared
  ProblemsLead
  NothingDropped
  FilterLeavesRows
  DiffIsTheDifference
  LabelsAreApart
  ChartsARealNode
PROPERTIES
  ChoicesStick
  ColoursStay

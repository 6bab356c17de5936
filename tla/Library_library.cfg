SPECIFICATION SpecOne
CONSTANTS
  Worker = {0, 1, 2}
  Tasks = 5
  NoTask = NoTask
  numThread = 4
  Sections = 2
INVARIANTS ReadsBytes RedBlack SizeIsExpected OwnsItsValue SectionsApart
PROPERTIES StoresBytes TreeIsMap ListIsSet LogsAreSequences RestartEnds BenchmarkEnds Quiescent OldestFirst EverybodyEnds
CHECK_DEADLOCK FALSE

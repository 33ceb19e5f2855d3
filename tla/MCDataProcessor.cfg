SPECIFICATION ProcessorSpec
CONSTANTS
  Sample <- SampleValues
  Low = 2
  High = 8
  K = 3
  Window = 4
  IntMax = 5
INVARIANTS
  AlarmExact
  SumExact

SPECIFICATION Spec
CONSTANTS
  WordSize = 8
  Words = 3
  Sizes = {1}
  Lengths = {2, 5, 9}
  Starts = {1, 3, 8}
  Values = {1}
  Junk = {0}
  Calls = {"memset", "memset inside"}
  MaxStores = 1
PROPERTY StoresBytes
CHECK_DEADLOCK FALSE

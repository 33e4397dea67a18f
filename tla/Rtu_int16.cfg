\* A register map with a data type the code declares.
SPECIFICATION Spec
CONSTANTS
  Maps <- TwoSlaves
  MaxInput = 3
PROPERTIES
  ParseNeverPanics

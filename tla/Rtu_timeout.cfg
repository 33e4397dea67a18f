\* What the log says of a poll whose answer arrived.
SPECIFICATION Spec
CONSTANTS
  Maps <- TwoSlaves
  MaxInput = 3
PROPERTIES
  TimeoutMeansSilence

CONSTANT Maps <- ThreeSlaves
SPECIFICATION Spec
INVARIANT CorrectModbusId

---------------------------- MODULE MCModbusRtu -----------------------------
(* ModbusRtu for TLC: register maps with each kind of register group. *)
EXTENDS ModbusRtu

Group(name, units) == [name |-> name, units |-> units, int16 |-> FALSE]

\* Groups of one slave whose answers can be taken for each other, in both
\* parts of its map; in both parts of some map a group whose count is refused;
\* and a group with an Int16 data point.
TwoSlaves ==
  << [slave |-> "s1", attributes |-> <<Group("a1", 3), Group("a2", 0)>>,
      timeseries |-> <<Group("t1", 3), Group("t2", 0)>>],
     [slave |-> "s2", attributes |-> <<>>,
      timeseries |-> <<[name |-> "t3", units |-> 3, int16 |-> TRUE]>>] >>

=============================================================================

---------------------------- MODULE MCModbusTcp -----------------------------
(* ModbusTcp for TLC: register maps with each kind of register group. *)
EXTENDS ModbusTcp

Point(offset, type) == [data_offset |-> offset, data_type |-> type]

Group(name, count, served, points) ==
  [name |-> name, elements_count |-> count, served |-> served, data_points |-> points]

\* Points at both ends of the buffer, beyond the answer and within it, an Int16
\* that the attributes loop skips and one that the timeseries loop does not,
\* a count that is refused, and a slave that cannot be selected.
ThreeSlaves ==
  << [slave |-> "s1", addressable |-> TRUE,
      attributes |-> <<Group("a1", 4, TRUE, <<Point(0, "Double"), Point(398, "Int16")>>)>>,
      timeseries |-> <<Group("t1", 2, TRUE, <<Point(0, "Float")>>),
                       Group("t2", 1, FALSE, <<Point(0, "Int16")>>)>>],
     [slave |-> "s2", addressable |-> FALSE,
      attributes |-> <<Group("a3", 126, TRUE, <<Point(0, "UInt16")>>)>>,
      timeseries |-> <<Group("t3", 1, TRUE, <<Point(0, "Int32"), Point(393, "Double")>>)>>],
     [slave |-> "s3", addressable |-> TRUE,
      attributes |-> <<Group("a4", 2, TRUE, <<Point(0, "UInt32")>>),
                       Group("a5", 2, FALSE, <<Point(2, "UInt16")>>)>>,
      timeseries |-> <<Group("t4", 2, FALSE, <<Point(0, "Float")>>),
                       Group("t5", 4, TRUE, <<Point(0, "Float"), Point(4, "Float")>>)>>] >>

=============================================================================

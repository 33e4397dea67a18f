-------------------------- MODULE OrderedDelivery ---------------------------
(***************************************************************************)
(* What the gateway's pipeline promises about order, without saying how:   *)
(* messages are numbered as they are sent; the database and the broker     *)
(* each take them in that order and at most once, possibly with gaps; of   *)
(* one message the broker takes the telemetry first, the attributes next,  *)
(* and both before anything of a later message.                            *)
(***************************************************************************)
EXTENDS Naturals, Sequences

VARIABLES sent, stored, published

vars == <<sent, stored, published>>

\* The place of a TransportAction in the order the broker must see.
Rank(a) == 2 * a.msg + (IF a.kind = "SendAttributes" THEN 1 ELSE 0)

Init == sent = 0 /\ stored = <<>> /\ published = <<>>

Send ==
  /\ sent' = sent + 1
  /\ UNCHANGED <<stored, published>>

Store ==
  \E m \in 1..sent :
    /\ \A i \in 1..Len(stored) : stored[i] < m
    /\ stored' = Append(stored, m)
    /\ UNCHANGED <<sent, published>>

Publish ==
  \E a \in [kind : {"SendTimeseries", "SendAttributes"}, msg : 1..sent] :
    /\ \A i \in 1..Len(published) : Rank(published[i]) < Rank(a)
    /\ published' = Append(published, a)
    /\ UNCHANGED <<sent, stored>>

Next == Send \/ Store \/ Publish

Spec == Init /\ [][Next]_vars

=============================================================================

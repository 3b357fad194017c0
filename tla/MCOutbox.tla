------------------------------ MODULE MCOutbox ------------------------------
(* Instances of Outbox: events about one entity x, and one about y.        *)
EXTENDS Outbox

CONSTANTS a, b, m, x, y

OneEntity == {<<a, x>>, <<m, x>>}
TwoEntities == {<<a, x>>, <<b, y>>}
=============================================================================

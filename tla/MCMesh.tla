-------------------------------- MODULE MCMesh ------------------------------
(* Three nodes: in a line, and with a link in one direction from a to c.   *)
EXTENDS Mesh

CONSTANTS a, b, c

Line == {<<a, b>>, <<b, a>>, <<b, c>>, <<c, b>>}
OneWay == Line \cup {<<c, a>>}

Mixed == {[source |-> b, dest |-> c, no |-> 1], [source |-> c, dest |-> a, no |-> 1],
          [source |-> a, dest |-> Broadcast, no |-> 1]}
Again == {[source |-> c, dest |-> a, no |-> k] : k \in 1 .. 2}
=============================================================================

------------------------------- MODULE MCPex --------------------------------
(***************************************************************************)
(* Small instances of PexNetwork: three nodes in a line.                   *)
(***************************************************************************)
EXTENDS PexNetwork

CONSTANTS n1, n2, n3

Line == {<<n1, n2>>, <<n2, n1>>, <<n2, n3>>, <<n3, n2>>}
=============================================================================

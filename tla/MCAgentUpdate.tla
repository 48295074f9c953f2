--------------------------- MODULE MCAgentUpdate ---------------------------
(* The old release and, where there are two, the new one, of one computer. *)
EXTENDS AgentUpdate

CONSTANTS old, new

MCVersionOf == [r \in Releases |-> IF r = old THEN 1 ELSE 2]

\* Bound of the run with two releases and one request: none is inactive at
\* first. The run with one release and two requests starts from any catalogue.
MCInit == Init /\ \A r \in Releases : row[r] # "inactive"
MCSpec == MCInit /\ [][Next]_vars
=============================================================================

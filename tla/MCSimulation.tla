----------------------------- MODULE MCSimulation ------------------------------
(* Trades and calculations, for TLC: they have no variable in common, so a *)
(* behaviour is one of a single part, and the other stays as it began.     *)
EXTENDS MCPaperTrading, MCCalculations

VARIABLE part

callVars == <<call, queryVars>>

SimulationInit ==
  /\ part \in {"trades", "calls"}
  /\ Init /\ CallInit
  /\ part = "trades" => /\ call.kind = "events" /\ requested = 0
                        /\ filter = CHOOSE f \in Filters : TRUE

SimulationNext ==
  \/ part = "trades" /\ Next /\ UNCHANGED <<part, callVars>>
  \/ part = "calls" /\ CallNext /\ UNCHANGED <<part, vars>>

SimulationSpec == SimulationInit /\ [][SimulationNext]_<<part, vars, callVars>>
=============================================================================

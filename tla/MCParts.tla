------------------------------- MODULE MCParts --------------------------------
(* Four specifications that have no variable in common, for TLC: each      *)
(* behaviour is one of a single part, and the others stay as they began.   *)
EXTENDS Testnet, OrderBook, Downsampling, Partitions

VARIABLE part

partsVars == <<part, vars, bookVars, seriesVars, partitionVars>>

PartsInit ==
  /\ part \in {"testnet", "book", "series", "partitions"}
  /\ Init /\ BookInit /\ SeriesInit /\ PartitionsInit
  /\ part # "book" => past[0] = levels

PartsNext ==
  \/ part = "testnet" /\ Next /\ UNCHANGED <<part, bookVars, seriesVars, partitionVars>>
  \/ part = "book" /\ BookNext /\ UNCHANGED <<part, vars, seriesVars, partitionVars>>
  \/ part = "series" /\ SeriesNext /\ UNCHANGED <<part, vars, bookVars, partitionVars>>
  \/ part = "partitions" /\ PartitionsNext /\ UNCHANGED <<part, vars, bookVars, seriesVars>>

PartsSpec == PartsInit /\ [][PartsNext]_partsVars /\ Fairness
=============================================================================

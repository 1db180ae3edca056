------------------------------ MODULE MCStartup ------------------------------
(***************************************************************************)
(* Files an operator may leave: settings of another network and height,    *)
(* ports two processes take from each other, a host that cannot be         *)
(* listened on, a network, a port and a height that are refused, the       *)
(* default but for one setting, and text that is not TOML.                 *)
(***************************************************************************)
EXTENDS Startup

MCOperatorFiles ==
    {[nodeNetwork |-> "mainnet", signerNetwork |-> "mainnet", maxHeight |-> 0],
     [serverPort |-> 2112, metricsPort |-> 9791],
     [metricsHost |-> "::1"],
     [nodeNetwork |-> "testnet", metricsPort |-> 80, maxHeight |-> -1],
     [s \in Setting \ {"serverPort"} |-> DefaultConfig[s]],
     Unreadable}

\* A file of another network with a port and height of its own, or none of TOML.
MCNeighbours ==
    {[nodeNetwork |-> "testnet3", serverPort |-> 2112, maxHeight |-> 7], Unreadable}

=============================================================================

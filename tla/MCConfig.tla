------------------------------- MODULE MCConfig -------------------------------
(***************************************************************************)
(* A small instance of the network configuration for TLC: a local node     *)
(* with two spellings, another node, white space, and two values of each   *)
(* pin.                                                                    *)
(***************************************************************************)
EXTENDS NetworkConfig, TLC

CONSTANTS local, loopback, remote, chainA, chainB, hashA, hashB, explorer, elsewhere

FourSpellings == {local, loopback, remote, Blank}
WhatIsListed == ("dev" :> {loopback} @@ "testnet" :> {local} @@ "mainnet" :> {loopback, remote})
KeyOf == (local :> local @@ loopback :> local @@ remote :> remote @@ Blank :> Blank)
TwoChainIds == {chainA, chainB}
TwoHashes == {hashA, hashB}
TwoOrigins == {explorer, elsewhere}

=============================================================================

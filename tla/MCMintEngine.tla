---------------------------- MODULE MCMintEngine ----------------------------
(***************************************************************************)
(* MintEngine for TLC.  The specs are a plain one and, for every guard and *)
(* every fact the plan carries, one on the far side of it.                 *)
(***************************************************************************)
EXTENDS MintEngine

Plain ==
  [ nameLen |-> 32, symbolLen |-> 10, uriLen |-> 200, impersonates |-> FALSE,
    contentAddressed |-> TRUE, supply |-> 25, decimals |-> 1,
    treasury |-> "vault" ]

MCSpecs ==
  { Plain,
    [Plain EXCEPT !.nameLen = 33],
    [Plain EXCEPT !.symbolLen = 0],
    [Plain EXCEPT !.uriLen = 201],
    [Plain EXCEPT !.supply = 0],
    [Plain EXCEPT !.supply = 26],                     \* 260 > MaxUint64
    [Plain EXCEPT !.supply = 3, !.decimals = 2],      \* 300, overflows late
    [Plain EXCEPT !.supply = 2, !.decimals = 2, !.contentAddressed = FALSE],
    [Plain EXCEPT !.impersonates = TRUE],
    [Plain EXCEPT !.treasury = "zero", !.supply = 255, !.decimals = 0] }

\* The specs the policy accepts, for runs about the fate of the transaction.
MCGoodSpecs == { Plain }
=============================================================================

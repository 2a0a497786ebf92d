------------------------------- MODULE Safety -------------------------------
(***************************************************************************)
(* The anti-scam policy of token/safety/safety.go, as pure operators over  *)
(* a described plan.  A plan is a record with the fields of TokenPlan      *)
(* (Chain and Op are informational and are left out; Impersonates, a brand *)
(* name or "", is the Boolean "some brand").  The text of a violation is   *)
(* left out: a violation is its code.                                      *)
(***************************************************************************)
EXTENDS Naturals

\* The zero TokenPlan: every field at its safe default.
ZeroPlan ==
  [ RetainedMintAuthority    |-> FALSE,
    RetainedFreezeAuthority  |-> FALSE,
    PermanentDelegate        |-> FALSE,
    TransferHook             |-> FALSE,
    Blacklist                |-> FALSE,
    Pausable                 |-> FALSE,
    RetainedUpgradeAuthority |-> FALSE,
    TransferFeeBps           |-> 0,
    SeedsLiquidity           |-> FALSE,
    LPLockedOrBurned         |-> FALSE,
    RemovesLiquidity         |-> FALSE,
    LiquidityLocked          |-> FALSE,
    GuaranteedYield          |-> FALSE,
    IssuerProfitClaim        |-> FALSE,
    CreatorSupplyPct         |-> 0,
    Impersonates             |-> FALSE,
    LiveNetwork              |-> FALSE,
    TreasuryIsHotSigner      |-> FALSE,
    MutableMetadataURI       |-> FALSE ]

\* The rules of Evaluate that call block(code, ...), code by code.
BlockRules(p) ==
  [ retained_mint_authority    |-> p.RetainedMintAuthority,
    retained_freeze_authority  |-> p.RetainedFreezeAuthority,
    permanent_delegate         |-> p.PermanentDelegate,
    transfer_hook              |-> p.TransferHook,
    transfer_blacklist         |-> p.Blacklist,
    pausable                   |-> p.Pausable,
    retained_upgrade_authority |-> p.RetainedUpgradeAuthority,
    transfer_fee               |-> p.TransferFeeBps > 0,
    unlocked_lp                |-> p.SeedsLiquidity /\ ~p.LPLockedOrBurned,
    remove_locked_liquidity    |-> p.RemovesLiquidity /\ p.LiquidityLocked,
    guaranteed_yield           |-> p.GuaranteedYield,
    issuer_profit_claim        |-> p.IssuerProfitClaim,
    impersonation              |-> p.Impersonates,
    hot_key_treasury           |-> p.LiveNetwork /\ p.TreasuryIsHotSigner ]

\* The rules of Evaluate that call warn(code, ...).
WarnRules(p) ==
  [ mutable_metadata_uri  |-> p.LiveNetwork /\ p.MutableMetadataURI,
    creator_concentration |-> p.CreatorSupplyPct > 30 ]

Blocking(p) == { c \in DOMAIN BlockRules(p) : BlockRules(p)[c] }
Warnings(p) == { c \in DOMAIN WarnRules(p)  : WarnRules(p)[c] }

\* Evaluate returns both kinds; the stable sort by severity only orders the
\* report, so the result is the set of codes.
Evaluate(p) == Blocking(p) \cup Warnings(p)

\* Guard returns nil (TRUE here) when no blocking violation is found.
Guard(p) == Blocking(p) = {}
=============================================================================

----------------------------- MODULE JarConfig -----------------------------
(***************************************************************************)
(* The singleton Config account of the jarfi program and the treasury PDA: *)
(* who administers the program, what it charges, whether it is paused and  *)
(* which stablecoin and lending bank it accepts.  One action is one        *)
(* instruction; an instruction whose require! fails leaves no trace, so    *)
(* failing calls are simply not steps.                                     *)
(*                                                                         *)
(* An account that does not exist reads as zeros: version = 0.             *)
(***************************************************************************)
EXTENDS Integers

CONSTANTS
    Keys,               \* wallets that may sign as administrator
    NoKey,              \* Pubkey::default(), and None for pending_admin
    Mints,              \* stablecoin mints an administrator may allow
    Groups,             \* MarginFi groups (with the program they belong to)
    Banks,              \* MarginFi USDC banks
    CreationFees,       \* values callers pass as creation_fee_lamports
    WithdrawFees,       \* values callers pass as withdraw_fee_bps
    LockDays,           \* values callers pass as min_auto_stake_lock_days
    TreasuryAmounts,    \* amounts passed to withdraw_treasury or sent to it
    MAX_CREATION_FEE_LAMPORTS,
    MAX_WITHDRAW_FEE_BPS,
    DEFAULT_MIN_AUTO_STAKE_LOCK_DAYS,
    MaxAmount           \* u64::MAX

ASSUME ConfigAssumption ==
    /\ NoKey \notin Keys \union Mints \union Groups \union Banks
    /\ CreationFees \subseteq Nat /\ WithdrawFees \subseteq Nat
    /\ LockDays \subseteq Nat /\ TreasuryAmounts \subseteq Nat
    /\ MAX_CREATION_FEE_LAMPORTS \in Nat
    /\ MAX_WITHDRAW_FEE_BPS \in Nat
    /\ DEFAULT_MIN_AUTO_STAKE_LOCK_DAYS \in Nat
    /\ MaxAmount \in Nat

VARIABLES
    config,     \* the Config account
    treasury    \* lamports of the treasury PDA

configVars == <<config, treasury>>

Config == [ version : {0, 1},
            admin : Keys \union {NoKey},
            pendingAdmin : Keys \union {NoKey},
            creationFee : Nat,
            withdrawFeeBps : Nat,
            feeEnabled : BOOLEAN,
            paused : BOOLEAN,
            allowedUsdcMint : Mints \union {NoKey},
            autoStakeEnabled : BOOLEAN,
            marginfiGroup : Groups \union {NoKey},
            marginfiUsdcBank : Banks \union {NoKey},
            minAutoStakeLockDays : Nat ]

ConfigTypeOK == config \in Config /\ treasury \in Nat

NoConfig == [ version |-> 0, admin |-> NoKey, pendingAdmin |-> NoKey,
              creationFee |-> 0, withdrawFeeBps |-> 0,
              feeEnabled |-> FALSE, paused |-> FALSE,
              allowedUsdcMint |-> NoKey, autoStakeEnabled |-> FALSE,
              marginfiGroup |-> NoKey, marginfiUsdcBank |-> NoKey,
              minAutoStakeLockDays |-> 0 ]

ConfigInit == config = NoConfig /\ treasury = 0

Deployed == config.version = 1

\* has_one = admin, on an existing Config
SignedByAdmin(signer) == Deployed /\ signer = config.admin

\* Mutation: only one of the two fees is checked.
CreationFeeAllowed(creationFee, feeBps) ==
    creationFee <= MAX_CREATION_FEE_LAMPORTS

FeesAllowed(creationFee, feeBps) ==
    /\ creationFee <= MAX_CREATION_FEE_LAMPORTS
    /\ feeBps <= MAX_WITHDRAW_FEE_BPS

---------------------------------------------------------------------------
(* Instructions.                                                           *)

InitializeConfig(signer, creationFee, feeBps, mint) ==
    /\ ~Deployed
    /\ FeesAllowed(creationFee, feeBps)
    /\ config' = [ version |-> 1, admin |-> signer, pendingAdmin |-> NoKey,
                   creationFee |-> creationFee, withdrawFeeBps |-> feeBps,
                   feeEnabled |-> TRUE, paused |-> FALSE,
                   allowedUsdcMint |-> mint, autoStakeEnabled |-> FALSE,
                   marginfiGroup |-> NoKey, marginfiUsdcBank |-> NoKey,
                   minAutoStakeLockDays |-> DEFAULT_MIN_AUTO_STAKE_LOCK_DAYS ]
    /\ UNCHANGED treasury

\* Every argument is an Option.  None keeps the current value, which is the
\* same as passing it: a fee in force is within its cap (FeesNeverExceedCaps).
UpdateConfig(signer, creationFee, feeBps, enabled, pause, mint, days) ==
    /\ SignedByAdmin(signer)
    /\ FeesAllowed(creationFee, feeBps)
    /\ config' = [ config EXCEPT !.creationFee = creationFee,
                                 !.withdrawFeeBps = feeBps,
                                 !.feeEnabled = enabled,
                                 !.paused = pause,
                                 !.allowedUsdcMint = mint,
                                 !.minAutoStakeLockDays = days ]
    /\ UNCHANGED treasury

UpdateMarginFiConfig(signer, enabled, group, bank) ==
    /\ SignedByAdmin(signer)
    /\ config' = [ config EXCEPT !.autoStakeEnabled = enabled,
                                 !.marginfiGroup = group,
                                 !.marginfiUsdcBank = bank ]
    /\ UNCHANGED treasury

MayPropose(newAdmin) == newAdmin # NoKey /\ newAdmin # config.admin

ProposeAdmin(signer, newAdmin) ==
    /\ SignedByAdmin(signer)
    /\ ~config.paused
    /\ MayPropose(newAdmin)
    /\ config' = [config EXCEPT !.pendingAdmin = newAdmin]
    /\ UNCHANGED treasury

\* Mutation: the proposal is not consumed.
AcceptAdminKeepingProposal(signer) ==
    /\ Deployed
    /\ ~config.paused
    /\ config.pendingAdmin = signer
    /\ config' = [config EXCEPT !.admin = signer]
    /\ UNCHANGED treasury

AcceptAdmin(signer) ==
    /\ Deployed
    /\ ~config.paused
    /\ config.pendingAdmin # NoKey
    /\ config.pendingAdmin = signer
    /\ config' = [config EXCEPT !.admin = signer, !.pendingAdmin = NoKey]
    /\ UNCHANGED treasury

WithdrawTreasury(signer, amount) ==
    /\ SignedByAdmin(signer)
    /\ ~config.paused
    /\ amount > 0
    /\ treasury >= amount
    /\ treasury' = treasury - amount
    /\ UNCHANGED config

\* Lamports reach the treasury: a fee paid by another instruction, or a
\* plain transfer by anyone.
TreasuryReceives(amount) ==
    /\ treasury + amount <= MaxAmount
    /\ treasury' = treasury + amount
    /\ UNCHANGED config

---------------------------------------------------------------------------

AdminNext ==
    \E signer \in Keys :
        \/ \E fee \in CreationFees, bps \in WithdrawFees,
              mint \in Mints \union {NoKey} :
               InitializeConfig(signer, fee, bps, mint)
        \/ \E fee \in CreationFees \union {config.creationFee},
              bps \in WithdrawFees \union {config.withdrawFeeBps},
              enabled, pause \in BOOLEAN, mint \in Mints \union {NoKey},
              days \in LockDays \union {config.minAutoStakeLockDays} :
               UpdateConfig(signer, fee, bps, enabled, pause, mint, days)
        \/ \E enabled \in BOOLEAN, group \in Groups \union {NoKey},
              bank \in Banks \union {NoKey} :
               UpdateMarginFiConfig(signer, enabled, group, bank)
        \/ \E newAdmin \in Keys \union {NoKey} : ProposeAdmin(signer, newAdmin)
        \/ AcceptAdmin(signer)
        \/ \E amount \in TreasuryAmounts : WithdrawTreasury(signer, amount)

ConfigNext ==
    \/ AdminNext
    \/ \E amount \in 1 .. MaxAmount : TreasuryReceives(amount)

ConfigSpec == ConfigInit /\ [][ConfigNext]_configVars

---------------------------------------------------------------------------
(* Properties.                                                             *)

\* Whatever sequence of initialisation, updates and hand-overs happened, the
\* fees in force never exceed the hard caps compiled into the program.
FeesNeverExceedCaps ==
    /\ config.withdrawFeeBps <= MAX_WITHDRAW_FEE_BPS
    /\ config.creationFee <= MAX_CREATION_FEE_LAMPORTS

\* A proposal is never left naming the wallet that already administers the
\* program: propose_admin refuses the current admin and accept_admin clears
\* the proposal it consumes, so no accept can be replayed.
ProposalIsNotCurrentAdmin ==
    config.pendingAdmin # NoKey => config.pendingAdmin # config.admin

\* Control changes hands only by consent of both sides and never while the
\* program is paused: the new admin was the outstanding proposal, and the
\* proposal is consumed by the same step.
HandoverIsTwoStep ==
    [][ Deployed /\ config'.admin # config.admin =>
            /\ config'.admin = config.pendingAdmin
            /\ config'.pendingAdmin = NoKey
            /\ ~config.paused ]_configVars

============================================================================

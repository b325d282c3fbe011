------------------------------- MODULE MCJar -------------------------------
(***************************************************************************)
(* Small instances of the jar program for TLC.  SPECIFICATION Spec starts  *)
(* from an undeployed program and lets the administrator do anything; to   *)
(* afford the yield venues, the Ready specifications start from a deployed *)
(* program with staking configured and keep of the administrator only what *)
(* bears on a jar that exists already: pausing, and moving new deposits to *)
(* another MarginFi bank.                                                  *)
(***************************************************************************)
EXTENDS JarProperties, TLC

DonorSymmetry == Permutations(Donors)

ReadyConfigs ==
    { c \in [ version : {1}, admin : Keys, pendingAdmin : {NoKey},
              creationFee : CreationFees, withdrawFeeBps : WithdrawFees,
              feeEnabled : {TRUE}, paused : {FALSE},
              allowedUsdcMint : Mints, autoStakeEnabled : {TRUE},
              marginfiGroup : Groups, marginfiUsdcBank : Banks,
              minAutoStakeLockDays : LockDays ] :
      FeesAllowed(c.creationFee, c.withdrawFeeBps) }

ReadyInit ==
    /\ config \in ReadyConfigs
    /\ treasury = 0
    /\ now = 0
    /\ userState = [o \in Owners |-> [version |-> 1, jarCount |-> 0]]
    /\ jar = [j \in Jars |-> NoJar]
    /\ contribution = [j \in Jars |-> [d \in Donors |-> NoContribution]]
    /\ funds = [j \in Jars |-> 0]
    /\ position = [j \in Jars |-> [v \in Venues |-> 0]]
    /\ treasuryUsdc = 0
    /\ elsewhere = [j \in Jars |-> 0]

PauseNext ==
    \E pause \in BOOLEAN :
        UpdateConfig(config.admin, config.creationFee, config.withdrawFeeBps,
                     config.feeEnabled, pause, config.allowedUsdcMint,
                     config.minAutoStakeLockDays)

RebankNext ==
    \E bank \in Banks :
        UpdateMarginFiConfig(config.admin, TRUE, config.marginfiGroup, bank)

ReadyNext ==
    \/ OwnerNext
    \/ DonorNext
    \/ EnvironmentNext
    \/ (PauseNext \/ RebankNext) /\ UNCHANGED jarVars

ReadySpec == ReadyInit /\ [][ReadyNext]_vars

ReadyFairSpec == ReadySpec /\ Fairness
============================================================================

----------------------------- MODULE JarProofs -----------------------------
(***************************************************************************)
(* Proofs about the program: its configuration, for any keys, fees and     *)
(* caps, and the jar instructions, for any number of owners, donors and    *)
(* jars, any amounts, prices and fees.                                     *)
(***************************************************************************)
EXTENDS JarProperties, SumsProofs, TLAPS

---------------------------------------------------------------------------
(* The configuration.                                                      *)

ConfigInv ==
    /\ ConfigTypeOK
    /\ FeesNeverExceedCaps
    /\ ProposalIsNotCurrentAdmin

LEMMA ConfigInvInit == ConfigInit => ConfigInv
  BY ConfigAssumption
  DEF ConfigInit, NoConfig, ConfigInv, ConfigTypeOK, Config,
      FeesNeverExceedCaps, ProposalIsNotCurrentAdmin

LEMMA ConfigInvAdminStep == ConfigInv /\ AdminNext => ConfigInv'
<1> SUFFICES ASSUME ConfigInv, AdminNext PROVE ConfigInv'
  OBVIOUS
<1> USE ConfigAssumption
    DEF ConfigInv, ConfigTypeOK, Config, FeesNeverExceedCaps,
        ProposalIsNotCurrentAdmin, SignedByAdmin, Deployed, FeesAllowed
<1>1. ASSUME NEW signer \in Keys, NEW fee \in CreationFees,
             NEW bps \in WithdrawFees, NEW mint \in Mints \union {NoKey},
             InitializeConfig(signer, fee, bps, mint)
      PROVE  ConfigInv'
  BY <1>1 DEF InitializeConfig
<1>2. ASSUME NEW signer \in Keys,
             NEW fee \in CreationFees \union {config.creationFee},
             NEW bps \in WithdrawFees \union {config.withdrawFeeBps},
             NEW enabled \in BOOLEAN, NEW pause \in BOOLEAN,
             NEW mint \in Mints \union {NoKey},
             NEW days \in LockDays \union {config.minAutoStakeLockDays},
             UpdateConfig(signer, fee, bps, enabled, pause, mint, days)
      PROVE  ConfigInv'
  <2>1. fee \in Nat /\ bps \in Nat /\ days \in Nat
    OBVIOUS
  <2>2. config' = [ config EXCEPT !.creationFee = fee,
                                  !.withdrawFeeBps = bps,
                                  !.feeEnabled = enabled,
                                  !.paused = pause,
                                  !.allowedUsdcMint = mint,
                                  !.minAutoStakeLockDays = days ]
    BY <1>2 DEF UpdateConfig
  <2>3. config' \in Config
    <3>1. config' = [ version |-> config.version, admin |-> config.admin,
                      pendingAdmin |-> config.pendingAdmin,
                      creationFee |-> fee, withdrawFeeBps |-> bps,
                      feeEnabled |-> enabled, paused |-> pause,
                      allowedUsdcMint |-> mint,
                      autoStakeEnabled |-> config.autoStakeEnabled,
                      marginfiGroup |-> config.marginfiGroup,
                      marginfiUsdcBank |-> config.marginfiUsdcBank,
                      minAutoStakeLockDays |-> days ]
      BY <2>2
    <3>2. /\ config.version \in {0, 1}
          /\ config.admin \in Keys \union {NoKey}
          /\ config.pendingAdmin \in Keys \union {NoKey}
          /\ config.autoStakeEnabled \in BOOLEAN
          /\ config.marginfiGroup \in Groups \union {NoKey}
          /\ config.marginfiUsdcBank \in Banks \union {NoKey}
      OBVIOUS
    <3>3. QED
      BY <2>1, <3>1, <3>2, Zenon
  <2>4. /\ config'.creationFee = fee /\ config'.withdrawFeeBps = bps
        /\ config'.admin = config.admin
        /\ config'.pendingAdmin = config.pendingAdmin
    BY <2>2
  <2>5. treasury' \in Nat /\ fee <= MAX_CREATION_FEE_LAMPORTS
          /\ bps <= MAX_WITHDRAW_FEE_BPS
    BY <1>2 DEF UpdateConfig
  <2>6. QED
    BY <2>3, <2>4, <2>5
<1>3. ASSUME NEW signer \in Keys, NEW enabled \in BOOLEAN,
             NEW group \in Groups \union {NoKey},
             NEW bank \in Banks \union {NoKey},
             UpdateMarginFiConfig(signer, enabled, group, bank)
      PROVE  ConfigInv'
  BY <1>3 DEF UpdateMarginFiConfig
<1>4. ASSUME NEW signer \in Keys, NEW newAdmin \in Keys \union {NoKey},
             ProposeAdmin(signer, newAdmin)
      PROVE  ConfigInv'
  BY <1>4 DEF ProposeAdmin, MayPropose
<1>5. ASSUME NEW signer \in Keys, AcceptAdmin(signer)
      PROVE  ConfigInv'
  BY <1>5 DEF AcceptAdmin
<1>6. ASSUME NEW signer \in Keys, NEW amount \in TreasuryAmounts,
             WithdrawTreasury(signer, amount)
      PROVE  ConfigInv'
  BY <1>6 DEF WithdrawTreasury
<1>7. QED
  BY <1>1, <1>2, <1>3, <1>4, <1>5, <1>6 DEF AdminNext

LEMMA ConfigInvStep == ConfigInv /\ [ConfigNext]_configVars => ConfigInv'
<1> SUFFICES ASSUME ConfigInv, [ConfigNext]_configVars PROVE ConfigInv'
  OBVIOUS
<1>1. CASE AdminNext
  BY <1>1, ConfigInvAdminStep
<1>2. ASSUME NEW amount \in 1 .. MaxAmount, TreasuryReceives(amount)
      PROVE  ConfigInv'
  BY <1>2, ConfigAssumption
  DEF TreasuryReceives, ConfigInv, ConfigTypeOK, Config,
      FeesNeverExceedCaps, ProposalIsNotCurrentAdmin
<1>3. CASE UNCHANGED configVars
  BY <1>3 DEF configVars, ConfigInv, ConfigTypeOK, FeesNeverExceedCaps,
              ProposalIsNotCurrentAdmin
<1>4. QED
  BY <1>1, <1>2, <1>3 DEF ConfigNext

\* Init, update and hand-over keep the configuration well-typed, whatever
\* sequence of instructions is run.
THEOREM ConfigTypeCorrect == ConfigSpec => []ConfigTypeOK
<1>1. ConfigInv => ConfigTypeOK
  BY DEF ConfigInv
<1>2. QED
  BY <1>1, ConfigInvInit, ConfigInvStep, PTL DEF ConfigSpec

\* The hard fee caps hold for ever, for any caps and any requested fees.
THEOREM FeesCapped == ConfigSpec => []FeesNeverExceedCaps
<1>1. ConfigInv => FeesNeverExceedCaps
  BY DEF ConfigInv
<1>2. QED
  BY <1>1, ConfigInvInit, ConfigInvStep, PTL DEF ConfigSpec

\* An accepted proposal cannot be replayed: the outstanding proposal never
\* names the wallet in charge.
THEOREM NoStaleProposal == ConfigSpec => []ProposalIsNotCurrentAdmin
<1>1. ConfigInv => ProposalIsNotCurrentAdmin
  BY DEF ConfigInv
<1>2. QED
  BY <1>1, ConfigInvInit, ConfigInvStep, PTL DEF ConfigSpec

\* Only the wallet that was proposed, and only by accepting, takes control.
THEOREM ControlIsHandedOver == ConfigSpec => HandoverIsTwoStep
<1> DEFINE Handed == Deployed /\ config'.admin # config.admin =>
                       /\ config'.admin = config.pendingAdmin
                       /\ config'.pendingAdmin = NoKey
                       /\ ~config.paused
<1>1. ConfigInv /\ [ConfigNext]_configVars => [Handed]_configVars
  <2> SUFFICES ASSUME ConfigInv, [ConfigNext]_configVars PROVE Handed
    OBVIOUS
  <2>1. DOMAIN config = DOMAIN NoConfig
    BY DEF ConfigInv, ConfigTypeOK, Config, NoConfig
  <2>2. ASSUME NEW signer, AcceptAdmin(signer) PROVE Handed
    BY <2>1, <2>2 DEF AcceptAdmin, NoConfig
  <2>3. ASSUME NEW signer, NEW fee, NEW bps, NEW mint, NEW enabled, NEW pause, NEW days,
               \/ InitializeConfig(signer, fee, bps, mint)
               \/ UpdateConfig(signer, fee, bps, enabled, pause, mint, days)
        PROVE  Handed
    BY <2>1, <2>3 DEF InitializeConfig, UpdateConfig, NoConfig
  <2>4. ASSUME NEW signer, NEW enabled, NEW group, NEW bank, NEW newAdmin,
               \/ UpdateMarginFiConfig(signer, enabled, group, bank)
               \/ ProposeAdmin(signer, newAdmin)
        PROVE  Handed
    BY <2>1, <2>4 DEF UpdateMarginFiConfig, ProposeAdmin, NoConfig
  <2>5. CASE UNCHANGED config
    BY <2>5
  <2>6. QED
    BY <2>2, <2>3, <2>4, <2>5
    DEF ConfigNext, AdminNext, WithdrawTreasury, TreasuryReceives, configVars
<1>2. QED
  BY <1>1, ConfigInvInit, ConfigInvStep, PTL DEF ConfigSpec, HandoverIsTwoStep

---------------------------------------------------------------------------
(* Arithmetic of the venues and the fee.                                   *)

LEMMA DivNat ==
    ASSUME NEW a \in Nat, NEW b \in Nat \ {0}
    PROVE  a \div b \in Nat
  OBVIOUS

LEMMA MulNat ==
    ASSUME NEW a \in Nat, NEW b \in Nat
    PROVE  a * b \in Nat
  OBVIOUS

LEMMA DivMonotone ==
    ASSUME NEW a \in Nat, NEW b \in Nat, NEW c \in Nat \ {0}, a <= b
    PROVE  a \div c <= b \div c
<1> DEFINE q == a \div c
           s == b \div c
<1>1. q \in Int /\ s \in Int
  BY DivNat
<1>2. q * c <= a
  OBVIOUS
<1>3. b < (s + 1) * c
  OBVIOUS
<1> HIDE DEF q, s
<1>4. q * c < (s + 1) * c
  BY <1>1, <1>2, <1>3
<1>5. q < s + 1
  BY <1>1, <1>4
<1>6. QED
  BY <1>1, <1>5 DEF q, s

LEMMA VenuesNat ==
    ASSUME NEW n \in Nat, NEW p \in Prices
    PROVE  /\ MsolFor(n, p) \in Nat
           /\ SolFor(n, p) \in Nat
           /\ FineSharesFor(n, p) \in Nat
           /\ WholeShares(n) \in Nat
           /\ UsdcFor(n, p) \in Nat
<1>1. p \in Nat \ {0} /\ PriceOne \in Nat \ {0} /\ SharesScale \in Nat \ {0}
  BY JarAssumption
<1>2. n * PriceOne \in Nat /\ n * p \in Nat /\ n * SharesScale \in Nat
  BY <1>1, MulNat
<1>3. n * SharesScale * PriceOne \in Nat
  BY <1>1, <1>2, MulNat
<1>4. SharesScale * PriceOne \in Nat \ {0}
  BY <1>1
<1>5. QED
  BY <1>1, <1>2, <1>3, <1>4, DivNat
  DEF MsolFor, SolFor, FineSharesFor, WholeShares, UsdcFor

---------------------------------------------------------------------------
(* One jar: what its record r says of its contributions c and funds f.     *)

Claims(c) == {d \in Donors : c[d].version = 1}

Principal(c) == SumOf([d \in Donors |-> c[d].amount])

Contributions == [Donors -> Contribution]

Bookkept(r, c, f) ==
    /\ r.status = "None" => r = NoJar /\ Claims(c) = {} /\ f = 0
    /\ r.status # "None" => r.totalContributors = Cardinality(Claims(c))
    /\ \A d \in Donors : c[d].amount > 0 <=> c[d].version = 1
    /\ r.stake = "None" => f >= r.totalContributed
    /\ r.type = "Flexible" <=> r.unlock = 0
    /\ r.status = "Cancelled" => r.type = "TimeLocked"
    /\ r.status \in {"Active", "Cancelled"} =>
          r.principalTotal = Principal(c)

\* total_contributed is the principal too, while nothing was paid out of a
\* jar that can be cancelled.
Consistent(r, c, f) ==
    /\ Bookkept(r, c, f)
    /\ r.status \in {"Active", "Cancelled"} /\ r.type = "TimeLocked" =>
          r.totalContributed = Principal(c)

LEMMA ClaimsFinite ==
    ASSUME NEW c
    PROVE  IsFiniteSet(Claims(c)) /\ Cardinality(Claims(c)) \in Nat
<1>1. Claims(c) \in SUBSET Donors
  BY DEF Claims
<1>2. QED
  BY <1>1, JarAssumption, FS_Subset, FS_CardinalityType

\* How the two aggregates move when one donor's account is replaced.
LEMMA AccountReplaced ==
    ASSUME NEW c \in Contributions, NEW d \in Donors, NEW a \in Contribution
    PROVE  LET c2 == [c EXCEPT ![d] = a]
           IN  /\ c2 \in Contributions
               /\ Principal(c2) = Principal(c) + a.amount - c[d].amount
               /\ Principal(c) \in Nat
               /\ Principal(c) >= c[d].amount
               /\ a.version = 1 => Claims(c2) = Claims(c) \cup {d}
               /\ a.version = 0 => Claims(c2) = Claims(c) \ {d}
<1> DEFINE c2 == [c EXCEPT ![d] = a]
           f == [e \in Donors |-> c[e].amount]
           g == [e \in Donors |-> c2[e].amount]
<1>1. c2 \in Contributions /\ c2[d] = a
      /\ \A e \in Donors \ {d} : c2[e] = c[e]
  BY DEF Contributions
<1>2. f \in [Donors -> Nat] /\ g \in [Donors -> Nat]
  BY <1>1 DEF Contributions, Contribution
<1>3. \A e \in Donors \ {d} : g[e] = f[e]
  BY <1>1
<1>4. IsFiniteSet(Donors)
  BY JarAssumption
<1>5. g[d] = a.amount /\ f[d] = c[d].amount
  BY <1>1
<1>6. SumOf(g) = SumOf(f) + g[d] - f[d] /\ SumOf(f) >= f[d]
  BY <1>2, <1>3, <1>4, SumChange
<1>7. SumOf(f) \in Nat
  BY <1>2, <1>4, SumNat
<1>8. /\ Principal(c2) = Principal(c) + a.amount - c[d].amount
      /\ Principal(c) \in Nat /\ Principal(c) >= c[d].amount
  BY <1>5, <1>6, <1>7 DEF Principal
<1>9. /\ a.version = 1 => Claims(c2) = Claims(c) \cup {d}
      /\ a.version = 0 => Claims(c2) = Claims(c) \ {d}
  BY <1>1 DEF Claims
<1>10. QED
  BY <1>1, <1>8, <1>9

\* The contributions and the record after donor d gave amount more.
Newcomers(c, d) == IF IsFirst(c[d]) THEN 1 ELSE 0

After(c, d, amount, shares) ==
    [c EXCEPT ![d] = [ version |-> 1,
                       amount |-> c[d].amount + amount,
                       shares |-> c[d].shares + shares ]]

RecordAfter(r, c, d, amount, shares) ==
    Credited(r, amount, Newcomers(c, d), shares)

LEMMA CreditConsistent ==
    ASSUME NEW r \in Jar, NEW c \in Contributions, NEW f \in Nat, NEW g \in Nat,
           Consistent(r, c, f), r.status = "Active",
           NEW d \in Donors, NEW amount \in Nat, amount > 0,
           NEW shares \in Nat,
           r.stake = "None" => g = f + amount
    PROVE  /\ RecordAfter(r, c, d, amount, shares) \in Jar
           /\ After(c, d, amount, shares) \in Contributions
           /\ Consistent(RecordAfter(r, c, d, amount, shares),
                         After(c, d, amount, shares), g)
           /\ RecordAfter(r, c, d, amount, shares).status = r.status
           /\ RecordAfter(r, c, d, amount, shares).unlock = r.unlock
           /\ After(c, d, amount, shares)[d].amount = c[d].amount + amount
<1> DEFINE a == [ version |-> 1, amount |-> c[d].amount + amount,
                  shares |-> c[d].shares + shares ]
           newcomers == Newcomers(c, d)
           r2 == RecordAfter(r, c, d, amount, shares)
           c2 == After(c, d, amount, shares)
<1> USE DEF Newcomers, After, RecordAfter
<1>1. c[d] \in Contribution /\ a \in Contribution
  <2>1. c[d] \in Contribution
    BY DEF Contributions
  <2>2. c[d].amount + amount \in Nat /\ c[d].shares + shares \in Nat
    BY <2>1 DEF Contribution
  <2>3. QED
    BY <2>1, <2>2 DEF Contribution
<1>2. /\ c2 \in Contributions
      /\ Principal(c2) = Principal(c) + a.amount - c[d].amount
      /\ Principal(c) \in Nat
      /\ Claims(c2) = Claims(c) \cup {d}
  BY <1>1, AccountReplaced
<1>3. Principal(c2) = Principal(c) + amount
  BY <1>1, <1>2 DEF Contribution
<1>4. /\ r.totalContributed + amount \in Nat
      /\ r.principalTotal + amount \in Nat
      /\ r.totalContributors + newcomers \in Nat
      /\ r.sharesTotal + shares \in Nat
  BY DEF Jar
<1>5. /\ r2 \in Jar
      /\ r2.status = r.status /\ r2.unlock = r.unlock /\ r2.type = r.type
      /\ r2.stake = r.stake
      /\ r2.totalContributed = r.totalContributed + amount
      /\ r2.principalTotal = r.principalTotal + amount
      /\ r2.totalContributors = r.totalContributors + newcomers
  BY <1>4 DEF Credited, Jar
<1>6. \A e \in Donors : c2[e].amount > 0 <=> c2[e].version = 1
  BY <1>1 DEF Consistent, Bookkept, Contributions, Contribution
<1>7. r2.totalContributors = Cardinality(Claims(c2))
  <2>1. IsFirst(c[d]) <=> d \notin Claims(c)
    BY <1>1 DEF IsFirst, Claims, Consistent, Bookkept, Contribution
  <2>2. Cardinality(Claims(c) \cup {d})
          = IF d \in Claims(c) THEN Cardinality(Claims(c))
                               ELSE Cardinality(Claims(c)) + 1
    BY ClaimsFinite, FS_AddElement
  <2>3. r.totalContributors = Cardinality(Claims(c))
    BY DEF Consistent, Bookkept
  <2>4. newcomers = IF d \in Claims(c) THEN 0 ELSE 1
    BY <2>1
  <2>5. r2.totalContributors = r.totalContributors + newcomers
        /\ Claims(c2) = Claims(c) \cup {d}
        /\ Cardinality(Claims(c)) \in Nat
    BY <1>2, <1>5, ClaimsFinite
  <2> HIDE DEF r2, c2, newcomers
  <2>6. QED
    BY <2>2, <2>3, <2>4, <2>5
<1>8. r2.stake = "None" => g >= r2.totalContributed
  BY <1>5 DEF Consistent, Bookkept, Jar
<1>9. c2[d].amount = c[d].amount + amount
  BY <1>1 DEF Contributions
<1> HIDE DEF c2, r2, a, newcomers
<1>10. Consistent(r2, c2, g)
  BY <1>2, <1>3, <1>5, <1>6, <1>7, <1>8 DEF Consistent, Bookkept, Jar
<1>11. QED
  BY <1>2, <1>5, <1>9, <1>10 DEF c2, r2

Cleared(c, d) == [c EXCEPT ![d] = NoContribution]

LEMMA DebitConsistent ==
    ASSUME NEW r \in Jar, NEW c \in Contributions, NEW f \in Nat, NEW g \in Nat,
           Consistent(r, c, f), r.status = "Cancelled",
           NEW d \in Donors, NEW amount, amount = c[d].amount, amount > 0,
           NEW shares \in Nat,
           r.totalContributors >= 1,
           r.totalContributed >= amount,
           r.principalTotal >= amount,
           r.sharesTotal >= shares,
           r.stake = "None" => g = f - amount
    PROVE  /\ Debited(r, amount, shares) \in Jar
           /\ Cleared(c, d) \in Contributions
           /\ Consistent(Debited(r, amount, shares), Cleared(c, d), g)
           /\ Debited(r, amount, shares).status = r.status
           /\ Debited(r, amount, shares).unlock = r.unlock
           /\ Cleared(c, d)[d].amount = 0
           /\ Claims(Cleared(c, d)) = Claims(c) \ {d}
<1> DEFINE a == NoContribution
           r2 == Debited(r, c[d].amount, shares)
           c2 == Cleared(c, d)
<1> USE DEF Cleared
<1>1. c[d] \in Contribution /\ a \in Contribution /\ a.version = 0
      /\ a.amount = 0
  <2>1. c[d] \in Contribution
    BY DEF Contributions
  <2>2. a \in Contribution /\ a.version = 0 /\ a.amount = 0
    BY DEF Contribution, NoContribution
  <2>3. QED
    BY <2>1, <2>2
<1>2. /\ c2 \in Contributions
      /\ Principal(c2) = Principal(c) + a.amount - c[d].amount
      /\ Principal(c) \in Nat
      /\ Claims(c2) = Claims(c) \ {d}
  BY <1>1, AccountReplaced
<1>3. Principal(c2) = Principal(c) - c[d].amount /\ c[d].amount \in Nat
  BY <1>1, <1>2 DEF Contribution
<1>4. /\ r.totalContributed - c[d].amount \in Nat
      /\ r.principalTotal - c[d].amount \in Nat
      /\ r.totalContributors - 1 \in Nat
      /\ r.sharesTotal - shares \in Nat
  BY <1>3 DEF Jar
<1>5. /\ r2 \in Jar
      /\ r2.status = r.status /\ r2.unlock = r.unlock /\ r2.type = r.type
      /\ r2.stake = r.stake
      /\ r2.totalContributed = r.totalContributed - c[d].amount
      /\ r2.principalTotal = r.principalTotal - c[d].amount
      /\ r2.totalContributors = r.totalContributors - 1
  BY <1>4 DEF Debited, Jar
<1>6. \A e \in Donors : c2[e].amount > 0 <=> c2[e].version = 1
  BY <1>1 DEF Consistent, Bookkept, Contributions, Contribution
<1>7. r2.totalContributors = Cardinality(Claims(c2))
  <2>1. d \in Claims(c)
    BY DEF Claims, Consistent, Bookkept
  <2>2. Cardinality(Claims(c) \ {d}) = Cardinality(Claims(c)) - 1
    BY <2>1, ClaimsFinite, FS_RemoveElement
  <2>3. r.totalContributors = Cardinality(Claims(c))
    BY DEF Consistent, Bookkept
  <2>4. QED
    BY <1>2, <1>5, <2>2, <2>3, ClaimsFinite
<1>8. r2.stake = "None" => g >= r2.totalContributed
  BY <1>3, <1>5 DEF Consistent, Bookkept, Jar
<1>9. c2[d].amount = 0
  BY <1>1 DEF Contributions
<1> HIDE DEF c2, r2, a
<1>10. Consistent(r2, c2, g)
  BY <1>2, <1>3, <1>5, <1>6, <1>7, <1>8 DEF Consistent, Bookkept, Jar
<1>11. QED
  BY <1>2, <1>5, <1>9, <1>10 DEF c2, r2

\* A payout from the jar's own funds: m is what the jar held before, gross
\* what leaves it.
LEMMA SettleConsistent ==
    ASSUME NEW r \in Jar, NEW c \in Contributions, NEW m \in Nat,
           Bookkept(r, c, m), r.status = "Active",
           NEW gross \in Nat, NEW balance \in Nat,
           balance <= m, balance <= r.totalContributed, gross <= balance,
           r.type = "TimeLocked" => gross = balance
    PROVE  /\ Settled(r, gross, balance) \in Jar
           /\ Consistent(Settled(r, gross, balance), c, m - gross)
           /\ \/ Settled(r, gross, balance).status = "Withdrawn"
              \/ /\ Settled(r, gross, balance).status = "Active"
                 /\ r.type = "Flexible"
           /\ Settled(r, gross, balance).unlock = r.unlock
<1> DEFINE r2 == Settled(r, gross, balance)
<1>0. /\ r.totalContributed - gross \in Nat
      /\ (IF gross = balance THEN "Withdrawn" ELSE "Active")
            \in {"None", "Active", "Withdrawn", "Cancelled"}
  BY DEF Jar
<1>1. /\ r2 \in Jar
      /\ r2.unlock = r.unlock /\ r2.type = r.type /\ r2.stake = r.stake
      /\ r2.totalContributed = r.totalContributed - gross
      /\ r2.principalTotal = r.principalTotal
      /\ r2.totalContributors = r.totalContributors
      /\ \/ r2.status = "Withdrawn"
         \/ r2.status = "Active" /\ gross # balance
  BY <1>0 DEF Settled, Jar
<1>2. r.type \in {"Flexible", "TimeLocked"}
  BY DEF Jar
<1> HIDE DEF r2
<1>3. Consistent(r2, c, m - gross)
  BY <1>1, <1>2 DEF Consistent, Bookkept, Jar
<1>4. QED
  BY <1>1, <1>2, <1>3 DEF r2

---------------------------------------------------------------------------
(* The inductive invariant.                                                *)

JarsInv ==
    /\ \A o \in Owners :
          userState[o].version = 0 => userState[o].jarCount = 0
    /\ \A j \in Jars : Consistent(jar[j], contribution[j], funds[j])
    /\ \A j \in Jars :
          jar[j].status # "None" => j[2] < userState[j[1]].jarCount

Inv == ConfigInv /\ JarTypeOK /\ JarsInv

LEMMA NoJarConsistent ==
    NoJar \in Jar /\ NoJar.status = "None"
<1>1. 0 \in Nat /\ NoKey \in Groups \union {NoKey}
  OBVIOUS
<1>2. QED
  BY <1>1 DEF NoJar, Jar

LEMMA ConfigKept ==
    ASSUME ConfigInv, config' = config, treasury' \in Nat
    PROVE  ConfigInv'
  BY DEF ConfigInv, ConfigTypeOK, FeesNeverExceedCaps,
         ProposalIsNotCurrentAdmin

LEMMA InvInit == Init => Inv
<1> SUFFICES ASSUME Init PROVE Inv
  OBVIOUS
<1>1. ConfigInv
  BY ConfigInvInit DEF Init
<1>2. JarTypeOK
  <2>1. 0 \in Nat
    OBVIOUS
  <2>2. [version |-> 0, jarCount |-> 0] \in UserState
    BY DEF UserState
  <2>3. NoContribution \in Contribution
    BY DEF NoContribution, Contribution
  <2>4. QED
    BY <2>1, <2>2, <2>3, NoJarConsistent DEF Init, JarTypeOK
<1>3. ASSUME NEW j \in Jars
      PROVE  Consistent(jar[j], contribution[j], funds[j])
  <2>1. /\ jar[j] = NoJar /\ funds[j] = 0
        /\ \A d \in Donors : contribution[j][d] = NoContribution
    BY DEF Init
  <2>2. Claims(contribution[j]) = {}
    BY <2>1 DEF Claims, NoContribution
  <2>3. \A d \in Donors : contribution[j][d].amount > 0
                             <=> contribution[j][d].version = 1
    BY <2>1 DEF NoContribution
  <2>4. QED
    BY <2>1, <2>2, <2>3 DEF Consistent, Bookkept, NoJar
<1>4. \A j \in Jars : jar[j].status = "None"
  BY NoJarConsistent DEF Init
<1>5. \A o \in Owners : userState[o].jarCount = 0
  BY DEF Init
<1>6. QED
  BY <1>1, <1>2, <1>3, <1>4, <1>5 DEF Inv, JarsInv

\* One jar moves: its record becomes r, its contributions c, its funds f.
LEMMA LocalStep ==
    ASSUME JarTypeOK, JarsInv, NEW j \in Jars,
           NEW r \in Jar, NEW c \in Contributions, NEW f \in Nat,
           Consistent(r, c, f),
           r.status # "None" => jar[j].status # "None",
           jar' = [jar EXCEPT ![j] = r],
           contribution' = [contribution EXCEPT ![j] = c],
           funds' = [funds EXCEPT ![j] = f],
           UNCHANGED <<now, userState>>,
           position' \in [Jars -> [Venues -> Nat]]
    PROVE  JarTypeOK' /\ JarsInv'
<1>1. JarTypeOK'
  BY DEF JarTypeOK, Contributions
<1>2. /\ jar'[j] = r /\ contribution'[j] = c /\ funds'[j] = f
      /\ \A i \in Jars \ {j} : /\ jar'[i] = jar[i]
                               /\ contribution'[i] = contribution[i]
                               /\ funds'[i] = funds[i]
  BY DEF JarTypeOK
<1>3. \A i \in Jars : Consistent(jar'[i], contribution'[i], funds'[i])
  BY <1>2 DEF JarsInv
<1>4. \A i \in Jars :
        jar'[i].status # "None" => i[2] < userState'[i[1]].jarCount
  BY <1>2 DEF JarsInv
<1>5. QED
  BY <1>1, <1>3, <1>4 DEF JarsInv

LEMMA CreateJarKeeps ==
    ASSUME Inv, NEW o \in Owners, NEW type \in {"Flexible", "TimeLocked"},
           NEW asset \in Assets, NEW unlock \in Nat,
           NEW autoStake \in BOOLEAN,
           CreateJar(o, type, asset, unlock, autoStake)
    PROVE  Inv'
<1> DEFINE n == userState[o].jarCount
           j == <<o, n>>
           r == jar'[j]
<1> USE DEF Inv
<1>1. userState[o] \in UserState /\ n \in Nat /\ n < MaxJars
  BY DEF JarTypeOK, UserState, CreateJar
<1>2. j \in Jars
  BY <1>1, JarAssumption DEF Jars
<1>3. jar[j] = NoJar /\ Claims(contribution[j]) = {} /\ funds[j] = 0
  <2>1. ~(j[2] < userState[j[1]].jarCount)
    BY <1>1
  <2>2. jar[j].status = "None"
    BY <1>2, <2>1 DEF JarsInv
  <2>3. QED
    BY <1>2, <2>2 DEF JarsInv, Consistent, Bookkept
<1>4. config' = config /\ treasury' \in Nat
  BY DEF CreateJar, CreationFeeDue, ConfigInv, ConfigTypeOK, Config
<1>5. /\ r \in Jar /\ r.status = "Active"
      /\ r.type = type /\ r.unlock = unlock
      /\ r.totalContributed = 0 /\ r.principalTotal = 0
      /\ r.totalContributors = 0
  <2> DEFINE s == StakeProtocol(asset, autoStake)
             g == IF s = "MarginFiUsdc" THEN config.marginfiGroup ELSE NoKey
  <2>1. asset \in {"Sol", "Usdc"}
    BY JarAssumption
  <2>2. s \in {"None", "MarginFiUsdc", "MarinadeSol"}
    BY <2>1 DEF StakeProtocol
  <2>3. g \in Groups \union {NoKey}
    BY DEF ConfigInv, ConfigTypeOK, Config
  <2>4. r = [ NoJar EXCEPT !.status = "Active", !.type = type,
                           !.asset = asset, !.stake = s,
                           !.unlock = unlock, !.marginfiGroup = g ]
    BY <1>2 DEF CreateJar, JarTypeOK
  <2> HIDE DEF s, g
  <2>5. r = [ status |-> "Active", type |-> type, asset |-> asset,
              stake |-> s, unlock |-> unlock, totalContributed |-> 0,
              totalContributors |-> 0, principalTotal |-> 0,
              sharesTotal |-> 0, marginfiGroup |-> g ]
    BY <2>4 DEF NoJar
  <2>6. QED
    BY <2>1, <2>2, <2>3, <2>5 DEF Jar
<1>6. \A i \in Jars \ {j} : jar'[i] = jar[i]
  BY <1>2 DEF CreateJar, JarTypeOK
<1>7. /\ jar' \in [Jars -> Jar]
      /\ userState' \in [Owners -> UserState]
      /\ \A p \in Owners : /\ userState'[p].version = userState[p].version
                           /\ userState'[p].jarCount >= userState[p].jarCount
      /\ \A p \in Owners \ {o} : userState'[p] = userState[p]
      /\ userState'[o].jarCount = n + 1 /\ userState[o].version = 1
  <2>1. jar' \in [Jars -> Jar]
    BY <1>2, <1>5, <1>6 DEF CreateJar, JarTypeOK
  <2>2. userState' = [userState EXCEPT ![o] =
                        [userState[o] EXCEPT !.jarCount = n + 1]]
    BY <1>1 DEF CreateJar, JarTypeOK
  <2>3. /\ [userState[o] EXCEPT !.jarCount = n + 1] \in UserState
        /\ [userState[o] EXCEPT !.jarCount = n + 1].version
             = userState[o].version
        /\ [userState[o] EXCEPT !.jarCount = n + 1].jarCount = n + 1
    BY <1>1 DEF UserState
  <2>4. userState[o].version = 1
    BY DEF CreateJar
  <2>5. \A p \in Owners : userState[p].jarCount \in Nat
    BY DEF JarTypeOK, UserState
  <2>6. QED
    BY <1>1, <2>1, <2>2, <2>3, <2>4, <2>5 DEF JarTypeOK
<1>8. Consistent(r, contribution[j], funds[j])
  <2>1. Cardinality(Claims(contribution[j])) = 0
    BY <1>3, FS_EmptySet
  <2>2. Principal(contribution[j]) = 0
    <3>1. \A d \in Donors : contribution[j][d] \in Contribution
      BY <1>2 DEF JarTypeOK
    <3>2. \A d \in Donors : contribution[j][d].amount = 0
      <4>1. \A d \in Donors : contribution[j][d].version # 1
        BY <1>3 DEF Claims
      <4>2. \A d \in Donors : ~(contribution[j][d].amount > 0)
        BY <1>2, <4>1 DEF JarsInv, Consistent, Bookkept
      <4>3. \A d \in Donors : contribution[j][d].amount \in Nat
        BY <3>1 DEF Contribution
      <4>4. QED
        BY <4>2, <4>3
    <3>3. [d \in Donors |-> contribution[j][d].amount] \in [Donors -> Nat]
      BY <3>2
    <3>4. QED
      BY <3>2, <3>3, SumZero DEF Principal
  <2>3. \A d \in Donors : contribution[j][d].amount > 0
                             <=> contribution[j][d].version = 1
    BY <1>2 DEF JarsInv, Consistent, Bookkept
  <2>4. type = "Flexible" <=> unlock = 0
    BY DEF CreateJar, UnlockAllowed, JarTypeOK
  <2> HIDE DEF r, j
  <2>5. QED
    BY <1>3, <1>5, <2>1, <2>2, <2>3, <2>4 DEF Consistent, Bookkept
<1>9. \A i \in Jars : Consistent(jar'[i], contribution'[i], funds'[i])
  BY <1>2, <1>6, <1>8 DEF JarsInv, CreateJar
<1>10. \A i \in Jars :
         jar'[i].status # "None" => i[2] < userState'[i[1]].jarCount
  <2>1. ASSUME NEW i \in Jars \ {j}, jar'[i].status # "None"
        PROVE  i[2] < userState'[i[1]].jarCount
    <3>1. i[1] \in Owners /\ i[2] \in Int
      BY DEF Jars
    <3>2. i[2] < userState[i[1]].jarCount
      BY <1>6, <2>1 DEF JarsInv
    <3>3. /\ userState[i[1]].jarCount \in Nat
          /\ userState'[i[1]].jarCount \in Nat
      BY <1>7, <3>1 DEF JarTypeOK, UserState
    <3>4. QED
      BY <1>7, <3>1, <3>2, <3>3
  <2>2. j[2] < userState'[j[1]].jarCount
    BY <1>1, <1>7
  <2>3. QED
    BY <2>1, <2>2
<1>11. JarTypeOK'
  <2>1. UNCHANGED <<now, contribution, funds, position>>
    BY DEF CreateJar
  <2>2. QED
    BY <1>7, <2>1 DEF JarTypeOK
<1>12. JarsInv'
  BY <1>7, <1>9, <1>10 DEF JarsInv
<1>13. QED
  BY <1>4, <1>11, <1>12, ConfigKept

LEMMA JarTyped ==
    ASSUME JarTypeOK, NEW j \in Jars
    PROVE  /\ jar[j] \in Jar
           /\ contribution[j] \in Contributions
           /\ funds[j] \in Nat
           /\ jar = [jar EXCEPT ![j] = jar[j]]
           /\ contribution = [contribution EXCEPT ![j] = contribution[j]]
           /\ funds = [funds EXCEPT ![j] = funds[j]]
  BY DEF JarTypeOK, Contributions

LEMMA PositionTyped ==
    ASSUME JarTypeOK, NEW j \in Jars, NEW v \in Venues
    PROVE  /\ position[j][v] \in Nat
           /\ \A n \in Nat :
                 [position EXCEPT ![j][v] = n] \in [Jars -> [Venues -> Nat]]
  BY DEF JarTypeOK

LEMMA ConfigNat ==
    ASSUME ConfigInv
    PROVE  /\ treasury \in Nat /\ config.creationFee \in Nat
           /\ config.withdrawFeeBps \in Nat
           /\ \A gross \in Nat : FeeBps \in Nat /\ Fee(gross) \in Nat
<1>1. /\ treasury \in Nat /\ config.creationFee \in Nat
      /\ config.withdrawFeeBps \in Nat
  BY DEF ConfigInv, ConfigTypeOK, Config
<1>2. FeeBps \in Nat
  BY <1>1 DEF FeeBps
<1>3. ASSUME NEW gross \in Nat PROVE Fee(gross) \in Nat
  BY <1>2, MulNat, DivNat, JarAssumption DEF Fee
<1>4. QED
  BY <1>1, <1>2, <1>3

LEMMA InitUserStateKeeps ==
    ASSUME Inv, NEW o \in Owners, InitUserState(o)
    PROVE  Inv'
<1> DEFINE u == [version |-> 1, jarCount |-> 0]
<1>1. userState' = [userState EXCEPT ![o] = u] /\ userState[o].jarCount = 0
  BY DEF InitUserState, Inv, JarsInv
<1>2. u \in UserState
  BY DEF UserState
<1>3. UNCHANGED <<config, treasury, now, jar, contribution, funds, position>>
  BY DEF InitUserState
<1>4. JarTypeOK'
  BY <1>1, <1>2, <1>3 DEF Inv, JarTypeOK
<1>5. \A p \in Owners : userState'[p].jarCount = userState[p].jarCount
  BY <1>1 DEF Inv, JarTypeOK
<1>6. \A p \in Owners :
        userState'[p].version = 0 => userState'[p].jarCount = 0
  BY <1>1 DEF Inv, JarTypeOK, JarsInv
<1>7. \A j \in Jars : j[1] \in Owners
  BY DEF Jars
<1>8. JarsInv'
  BY <1>3, <1>5, <1>6, <1>7 DEF Inv, JarsInv
<1>9. treasury' \in Nat
  BY <1>3, ConfigNat DEF Inv
<1>10. QED
  BY <1>3, <1>4, <1>8, <1>9, ConfigKept DEF Inv

\* What Credit does, given what the handler did to the jar's funds.
LEMMA CreditKeeps ==
    ASSUME Inv, NEW j \in Jars, NEW d \in Donors, NEW amount \in Nat,
           amount > 0, NEW shares \in Nat, jar[j].status = "Active",
           Credit(j, d, amount, shares),
           NEW g \in Nat, funds' = [funds EXCEPT ![j] = g],
           jar[j].stake = "None" => g = funds[j] + amount,
           UNCHANGED <<config, treasury, now, userState>>,
           position' \in [Jars -> [Venues -> Nat]]
    PROVE  Inv'
<1> DEFINE c == contribution[j]
           r2 == RecordAfter(jar[j], c, d, amount, shares)
           c2 == After(c, d, amount, shares)
<1>1. /\ jar[j] \in Jar /\ c \in Contributions /\ funds[j] \in Nat
      /\ Consistent(jar[j], c, funds[j])
  BY JarTyped DEF Inv, JarsInv
<1> HIDE DEF c
<1>2. /\ r2 \in Jar /\ c2 \in Contributions
      /\ Consistent(r2, c2, g)
      /\ r2.status = jar[j].status
  BY <1>1, CreditConsistent, SMTT(60)
<1>3. /\ jar' = [jar EXCEPT ![j] = r2]
      /\ contribution' = [contribution EXCEPT ![j] = c2]
  BY DEF c, Credit, RecordAfter, After, Newcomers
<1> HIDE DEF r2, c2
<1>4. JarTypeOK' /\ JarsInv'
  BY <1>2, <1>3, LocalStep DEF Inv
<1>5. treasury' \in Nat
  BY ConfigNat DEF Inv
<1>6. QED
  BY <1>4, <1>5, ConfigKept DEF Inv

LEMMA ContributeSolKeeps ==
    ASSUME Inv, NEW j \in Jars, NEW d \in Donors, NEW amount \in Amounts,
           ContributeSol(j, d, amount)
    PROVE  Inv'
<1>1. /\ amount \in Nat /\ amount > 0 /\ jar[j].status = "Active"
      /\ UNCHANGED <<config, treasury, now, userState>>
  BY JarAssumption DEF ContributeSol, MayContribute
<1>2. funds[j] \in Nat /\ funds = [funds EXCEPT ![j] = funds[j]]
  BY JarTyped DEF Inv
<1>3. CASE /\ jar[j].stake # "MarinadeSol"
           /\ funds' = [funds EXCEPT ![j] = funds[j] + amount]
           /\ Credit(j, d, amount, 0)
           /\ UNCHANGED position
  <2>1. position' \in [Jars -> [Venues -> Nat]]
    BY <1>3 DEF Inv, JarTypeOK
  <2>2. funds[j] + amount \in Nat /\ 0 \in Nat
    BY <1>1, <1>2
  <2>3. QED
    BY <1>1, <1>3, <2>1, <2>2, CreditKeeps
<1>4. ASSUME jar[j].stake = "MarinadeSol", UNCHANGED funds,
             NEW p \in Prices, MintMsol(j, MsolFor(amount, p)),
             Credit(j, d, amount, MsolFor(amount, p))
      PROVE  Inv'
  <2>1. MsolFor(amount, p) \in Nat
    BY <1>1, VenuesNat
  <2>2. Marinade \in Venues
    BY DEF Venues
  <2>3. position[j][Marinade] + MsolFor(amount, p) \in Nat
    BY <2>1, <2>2, PositionTyped DEF Inv
  <2>4. position' \in [Jars -> [Venues -> Nat]]
    <3>1. CASE position' = [position EXCEPT ![j][Marinade] =
                              position[j][Marinade] + MsolFor(amount, p)]
      BY <2>2, <2>3, <3>1, PositionTyped DEF Inv
    <3>2. CASE UNCHANGED position
      BY <3>2 DEF Inv, JarTypeOK
    <3>3. QED
      BY <1>4, <3>1, <3>2 DEF MintMsol
  <2>5. funds' = [funds EXCEPT ![j] = funds[j]] /\ jar[j].stake # "None"
    BY <1>2, <1>4
  <2>6. QED
    BY <1>1, <1>2, <1>4, <2>1, <2>4, <2>5, CreditKeeps
<1>5. QED
  BY <1>3, <1>4 DEF ContributeSol

LEMMA ContributeSplKeeps ==
    ASSUME Inv, NEW j \in Jars, NEW d \in Donors, NEW amount \in Amounts,
           ContributeSpl(j, d, amount)
    PROVE  Inv'
<1>1. /\ amount \in Nat /\ amount > 0 /\ jar[j].status = "Active"
      /\ UNCHANGED <<config, treasury, now, userState>>
  BY JarAssumption DEF ContributeSpl, MayContribute
<1>2. funds[j] \in Nat /\ funds = [funds EXCEPT ![j] = funds[j]]
  BY JarTyped DEF Inv
<1>3. CASE /\ jar[j].stake = "None"
           /\ funds' = [funds EXCEPT ![j] = funds[j] + amount]
           /\ Credit(j, d, amount, 0)
           /\ UNCHANGED position
  <2>1. position' \in [Jars -> [Venues -> Nat]]
    BY <1>3 DEF Inv, JarTypeOK
  <2>2. funds[j] + amount \in Nat /\ 0 \in Nat
    BY <1>1, <1>2
  <2>3. QED
    BY <1>1, <1>3, <2>1, <2>2, CreditKeeps
<1>4. ASSUME jar[j].stake = "MarginFiUsdc", UNCHANGED funds,
             NEW bank \in Banks, NEW p \in Prices, NEW after,
             after = position[j][bank] + FineSharesFor(amount, p),
             position' = [position EXCEPT ![j][bank] = after],
             Credit(j, d, amount,
                    WholeShares(after) - WholeShares(position[j][bank]))
      PROVE  Inv'
  <2>1. FineSharesFor(amount, p) \in Nat
    BY <1>1, VenuesNat
  <2>2. bank \in Venues
    BY DEF Venues
  <2>3. /\ position[j][bank] \in Nat /\ after \in Nat
        /\ position[j][bank] <= after
    BY <1>4, <2>1, <2>2, PositionTyped DEF Inv
  <2>4. position' \in [Jars -> [Venues -> Nat]]
    BY <1>4, <2>2, <2>3, PositionTyped DEF Inv
  <2>5. /\ WholeShares(after) \in Nat
        /\ WholeShares(position[j][bank]) \in Nat
    BY <2>3, DivNat, JarAssumption DEF WholeShares
  <2>6. WholeShares(position[j][bank]) <= WholeShares(after)
    BY <2>3, DivMonotone, JarAssumption DEF WholeShares
  <2>7. WholeShares(after) - WholeShares(position[j][bank]) \in Nat
    BY <2>5, <2>6
  <2>8. funds' = [funds EXCEPT ![j] = funds[j]] /\ jar[j].stake # "None"
    BY <1>2, <1>4
  <2>9. QED
    BY <1>1, <1>2, <1>4, <2>4, <2>7, <2>8, CreditKeeps
<1>5. QED
  BY <1>3, <1>4 DEF ContributeSpl

\* What Debit does, given what the handler paid out of the jar's funds.
LEMMA DebitKeeps ==
    ASSUME Inv, NEW j \in Jars, NEW d \in Donors, NEW shares \in Nat,
           jar[j].status = "Cancelled", contribution[j][d].amount > 0,
           Debit(j, d, shares),
           NEW g \in Nat, funds' = [funds EXCEPT ![j] = g],
           jar[j].stake = "None" => g = funds[j] - contribution[j][d].amount,
           UNCHANGED <<config, treasury, now, userState>>,
           position' \in [Jars -> [Venues -> Nat]]
    PROVE  Inv'
<1> DEFINE c == contribution[j]
           r2 == Debited(jar[j], c[d].amount, shares)
           c2 == Cleared(c, d)
<1>1. /\ jar[j] \in Jar /\ c \in Contributions /\ funds[j] \in Nat
      /\ Consistent(jar[j], c, funds[j])
  BY JarTyped DEF Inv, JarsInv
<1>2. /\ jar[j].totalContributors >= 1
      /\ jar[j].totalContributed >= c[d].amount
      /\ jar[j].principalTotal >= c[d].amount
      /\ jar[j].sharesTotal >= shares
      /\ jar' = [jar EXCEPT ![j] = r2]
      /\ contribution' = [contribution EXCEPT ![j] = c2]
  BY DEF Debit, Cleared
<1>3. r2 \in Jar /\ c2 \in Contributions /\ Consistent(r2, c2, g)
      /\ r2.status = jar[j].status
  <2> DEFINE r == jar[j]
             f == funds[j]
             amount == c[d].amount
  <2>1. /\ r \in Jar /\ f \in Nat /\ Consistent(r, c, f)
        /\ r.status = "Cancelled"
        /\ amount = c[d].amount /\ amount > 0
        /\ r.totalContributors >= 1
        /\ r.totalContributed >= amount
        /\ r.principalTotal >= amount
        /\ r.sharesTotal >= shares
        /\ r.stake = "None" => g = f - amount
    BY <1>1, <1>2
  <2> HIDE DEF r, f, c, amount
  <2>2. /\ Debited(r, amount, shares) \in Jar
        /\ Cleared(c, d) \in Contributions
        /\ Consistent(Debited(r, amount, shares), Cleared(c, d), g)
        /\ Debited(r, amount, shares).status = r.status
    BY <1>1, <2>1, DebitConsistent
  <2>3. QED
    BY <2>2 DEF r, amount
<1> HIDE DEF r2, c2
<1>4. JarTypeOK' /\ JarsInv'
  BY <1>2, <1>3, LocalStep DEF Inv
<1>5. treasury' \in Nat
  BY ConfigNat DEF Inv
<1>6. QED
  BY <1>4, <1>5, ConfigKept DEF Inv

LEMMA RefundKeeps ==
    ASSUME Inv, NEW j \in Jars, NEW d \in Donors, Refund(j, d)
    PROVE  Inv'
<1> DEFINE amount == contribution[j][d].amount
           shares == contribution[j][d].shares
<1>1. /\ jar[j].status = "Cancelled" /\ amount > 0
      /\ UNCHANGED <<config, treasury, now, userState>>
  BY DEF Refund, PaidRefund, MayRefund
<1>2. funds[j] \in Nat /\ funds = [funds EXCEPT ![j] = funds[j]]
  BY JarTyped DEF Inv
<1>3. amount \in Nat /\ shares \in Nat
  BY DEF Inv, JarTypeOK, Contribution
<1>4. Marinade \in Venues
  BY DEF Venues
<1>5. CASE RefundFromFunds(j, d)
  <2>1. /\ funds[j] >= amount
        /\ funds' = [funds EXCEPT ![j] = funds[j] - amount]
        /\ Debit(j, d, 0) /\ UNCHANGED position
    BY <1>5 DEF RefundFromFunds
  <2>2. position' \in [Jars -> [Venues -> Nat]]
    BY <2>1 DEF Inv, JarTypeOK
  <2>3. funds[j] - amount \in Nat /\ 0 \in Nat
    BY <1>2, <1>3, <2>1
  <2>4. QED
    BY <1>1, <2>1, <2>2, <2>3, DebitKeeps
<1>6. CASE RefundFromMarinade(j, d)
  <2>1. /\ jar[j].stake = "MarinadeSol"
        /\ position[j][Marinade] >= shares
        /\ position' = [position EXCEPT ![j][Marinade] =
                          position[j][Marinade] - shares]
        /\ Debit(j, d, shares) /\ UNCHANGED funds
    BY <1>6 DEF RefundFromMarinade
  <2>2. position[j][Marinade] - shares \in Nat
    BY <1>3, <1>4, <2>1, PositionTyped DEF Inv
  <2>3. position' \in [Jars -> [Venues -> Nat]]
    BY <1>4, <2>1, <2>2, PositionTyped DEF Inv
  <2>4. funds' = [funds EXCEPT ![j] = funds[j]] /\ jar[j].stake # "None"
    BY <1>2, <2>1
  <2>5. QED
    BY <1>1, <1>2, <1>3, <2>1, <2>3, <2>4, DebitKeeps
<1>7. CASE RefundFromMarginFi(j, d)
  <2>1. PICK bank \in Banks, p \in Prices :
          LET payout == UsdcFor(shares * SharesScale, p)
              burned == FineSharesFor(payout, p)
          IN  /\ position[j][bank] >= burned
              /\ position' = [position EXCEPT ![j][bank] =
                                position[j][bank] - burned]
    BY <1>7 DEF RefundFromMarginFi
  <2> DEFINE burned == FineSharesFor(UsdcFor(shares * SharesScale, p), p)
  <2>2. shares * SharesScale \in Nat
    BY <1>3, MulNat, JarAssumption
  <2>3. burned \in Nat
    BY <2>2, VenuesNat
  <2>4. bank \in Venues
    BY DEF Venues
  <2> HIDE DEF burned
  <2>5. /\ position[j][bank] >= burned
        /\ position' = [position EXCEPT ![j][bank] =
                          position[j][bank] - burned]
    BY <2>1 DEF burned
  <2>6. position[j][bank] - burned \in Nat
    BY <2>3, <2>4, <2>5, PositionTyped DEF Inv
  <2>7. position' \in [Jars -> [Venues -> Nat]]
    BY <2>4, <2>5, <2>6, PositionTyped DEF Inv
  <2>8. /\ funds' = [funds EXCEPT ![j] = funds[j]]
        /\ jar[j].stake # "None"
        /\ Debit(j, d, shares)
    BY <1>2, <1>7 DEF RefundFromMarginFi
  <2>9. QED
    BY <1>1, <1>2, <1>3, <2>7, <2>8, DebitKeeps
<1>8. CASE RefundFromNoBank(j, d)
  <2>1. /\ funds' = [funds EXCEPT ![j] = funds[j]]
        /\ jar[j].stake # "None"
        /\ Debit(j, d, shares)
    BY <1>2, <1>8 DEF RefundFromNoBank
  <2>2. position' \in [Jars -> [Venues -> Nat]]
    BY <1>8 DEF RefundFromNoBank, Inv, JarTypeOK
  <2>3. QED
    BY <1>1, <1>2, <1>3, <2>1, <2>2, DebitKeeps
<1>9. QED
  BY <1>5, <1>6, <1>7, <1>8 DEF Refund, PaidRefund

\* A payout out of custody m on the record r ends with the record settled.
LEMMA PayOwnerKeeps ==
    ASSUME Inv, NEW j \in Jars, NEW r \in Jar, NEW m \in Nat,
           NEW request \in Nat \union {WholeBalance},
           PayOwner(j, r, m, request),
           Bookkept(r, contribution[j], m),
           r.status = "Active", jar[j].status = "Active",
           UNCHANGED <<config, now, userState, contribution>>,
           position' \in [Jars -> [Venues -> Nat]]
    PROVE  Inv'
<1> DEFINE balance == Least(m, r.totalContributed)
           gross == IF request = WholeBalance THEN balance ELSE request
           r2 == Settled(r, gross, balance)
           c == contribution[j]
<1>1. /\ jar[j] \in Jar /\ c \in Contributions
      /\ contribution' = [contribution EXCEPT ![j] = c]
  BY JarTyped DEF Inv
<1>2. /\ balance \in Nat /\ balance <= m /\ balance <= r.totalContributed
  BY DEF Least, Jar
<1>3. /\ gross \in Nat /\ gross <= balance
      /\ r.type = "TimeLocked" => gross = balance
  BY <1>2 DEF PayOwner, WholeBalance
<1>4. /\ r2 \in Jar /\ Consistent(r2, c, m - gross)
  BY <1>1, <1>2, <1>3, SettleConsistent
<1>5. m - gross \in Nat
  BY <1>2, <1>3
<1>6. /\ jar' = [jar EXCEPT ![j] = r2]
      /\ funds' = [funds EXCEPT ![j] = m - gross]
  BY DEF PayOwner
<1>7. treasury' \in Nat
  <2>1. treasury \in Nat /\ Fee(gross) \in Nat
    BY <1>3, ConfigNat DEF Inv
  <2>2. treasury' = treasury + Fee(gross) \/ treasury' = treasury
    BY DEF PayOwner
  <2>3. QED
    BY <2>1, <2>2
<1> HIDE DEF r2, gross
<1>8. JarTypeOK' /\ JarsInv'
  BY <1>1, <1>4, <1>5, <1>6, LocalStep DEF Inv
<1>9. QED
  BY <1>7, <1>8, ConfigKept DEF Inv

LEMMA WithdrawKeeps ==
    ASSUME Inv, NEW j \in Jars, NEW request \in Nat \union {WholeBalance},
           Withdraw(j, request)
    PROVE  Inv'
<1> DEFINE c == contribution[j]
<1>1. /\ jar[j].status = "Active"
      /\ UNCHANGED <<config, now, userState, contribution>>
  BY DEF Withdraw, MayWithdraw
<1>2. /\ jar[j] \in Jar /\ c \in Contributions /\ funds[j] \in Nat
      /\ Consistent(jar[j], c, funds[j])
      /\ contribution' = [contribution EXCEPT ![j] = c]
      /\ funds = [funds EXCEPT ![j] = funds[j]]
  BY <1>1, JarTyped DEF Inv, JarsInv
<1>3. CASE jar[j].stake = "MarginFiUsdc" /\ WithdrawMarginFi(j, request)
  <2> DEFINE held(bank, p) == funds[j] + UsdcFor(position[j][bank], p)
             r(bank, p) == [ jar[j] EXCEPT !.sharesTotal = 0,
                                           !.totalContributed = held(bank, p) ]
  <2>1. PICK bank \in Banks, p \in Prices :
          /\ position' = [position EXCEPT ![j][bank] = 0]
          /\ PayOwner(j, r(bank, p), held(bank, p), request)
    BY <1>3 DEF WithdrawMarginFi
  <2> DEFINE m == held(bank, p)
             r1 == r(bank, p)
  <2>2. bank \in Venues
    BY DEF Venues
  <2>3. m \in Nat
    <3>1. position[j][bank] \in Nat
      BY <2>2, PositionTyped DEF Inv
    <3>2. UsdcFor(position[j][bank], p) \in Nat
      BY <3>1, VenuesNat
    <3>3. QED
      BY <1>2, <3>2
  <2>4. position' \in [Jars -> [Venues -> Nat]]
    BY <2>1, <2>2, PositionTyped DEF Inv
  <2>5. /\ r1 \in Jar /\ r1.status = jar[j].status
        /\ r1.type = jar[j].type /\ r1.unlock = jar[j].unlock
        /\ r1.stake = jar[j].stake
        /\ r1.totalContributed = m
        /\ r1.principalTotal = jar[j].principalTotal
        /\ r1.totalContributors = jar[j].totalContributors
    BY <1>2, <2>3 DEF Jar
  <2> HIDE DEF m, r1
  <2>6. Bookkept(r1, c, m)
    BY <1>1, <1>2, <1>3, <2>3, <2>5 DEF Consistent, Bookkept
  <2>7. QED
    BY <1>1, <2>1, <2>3, <2>4, <2>5, <2>6, PayOwnerKeeps DEF m, r1
<1>4. CASE jar[j].stake = "MarinadeSol" /\ WithdrawMarinade(j)
  <2>1. PICK p \in Prices :
          LET shares == jar[j].sharesTotal
              solOut == SolFor(shares, p)
          IN  /\ position[j][Marinade] >= shares
              /\ treasury' = treasury + Fee(solOut)
              /\ position' = [position EXCEPT ![j][Marinade] = 
                                position[j][Marinade] - shares]
              /\ jar' = [jar EXCEPT ![j] =
                           [ jar[j] EXCEPT !.totalContributed = 0,
                                           !.sharesTotal = 0,
                                           !.status = "Withdrawn" ]]
              /\ UNCHANGED funds
    BY <1>4 DEF WithdrawMarinade
  <2> DEFINE r2 == [ jar[j] EXCEPT !.totalContributed = 0,
                                   !.sharesTotal = 0,
                                   !.status = "Withdrawn" ]
  <2>2. jar[j].sharesTotal \in Nat
    BY <1>2 DEF Jar
  <2>3. position' \in [Jars -> [Venues -> Nat]]
    <3>1. Marinade \in Venues
      BY DEF Venues
    <3>2. position[j][Marinade] - jar[j].sharesTotal \in Nat
      BY <2>1, <2>2, <3>1, PositionTyped DEF Inv
    <3>3. QED
      BY <2>1, <3>1, <3>2, PositionTyped DEF Inv
  <2>4. treasury' \in Nat
    <3>1. SolFor(jar[j].sharesTotal, p) \in Nat
      BY <2>2, VenuesNat
    <3>2. treasury \in Nat /\ Fee(SolFor(jar[j].sharesTotal, p)) \in Nat
      BY <3>1, ConfigNat DEF Inv
    <3>3. treasury' = treasury + Fee(SolFor(jar[j].sharesTotal, p))
      BY <2>1
    <3>4. QED
      BY <3>2, <3>3
  <2>5. /\ r2 \in Jar /\ r2.status = "Withdrawn"
        /\ r2.type = jar[j].type /\ r2.unlock = jar[j].unlock
        /\ r2.stake = jar[j].stake
        /\ r2.totalContributed = 0
        /\ r2.totalContributors = jar[j].totalContributors
    BY <1>2 DEF Jar
  <2> HIDE DEF r2
  <2>6. Consistent(r2, c, funds[j])
    BY <1>1, <1>2, <1>4, <2>5 DEF Consistent, Bookkept
  <2>7. jar' = [jar EXCEPT ![j] = r2] /\ funds' = [funds EXCEPT ![j] = funds[j]]
    BY <1>2, <2>1 DEF r2
  <2>8. JarTypeOK' /\ JarsInv'
    BY <1>1, <1>2, <2>3, <2>5, <2>6, <2>7, LocalStep DEF Inv
  <2>9. QED
    BY <1>1, <2>4, <2>8, ConfigKept DEF Inv
<1>5. CASE /\ jar[j].stake # "MarginFiUsdc"
           /\ PayOwner(j, jar[j], funds[j], request)
           /\ UNCHANGED position
  <2>1. position' \in [Jars -> [Venues -> Nat]]
    BY <1>5 DEF Inv, JarTypeOK
  <2>2. Bookkept(jar[j], c, funds[j])
    BY <1>2 DEF Consistent
  <2>3. QED
    BY <1>1, <1>2, <1>5, <2>1, <2>2, PayOwnerKeeps
<1>6. QED
  BY <1>3, <1>4, <1>5 DEF Withdraw

LEMMA CancelJarKeeps ==
    ASSUME Inv, NEW j \in Jars, CancelJar(j)
    PROVE  Inv'
<1> DEFINE r2 == [jar[j] EXCEPT !.status = "Cancelled"]
           c == contribution[j]
           f == funds[j]
<1>1. /\ jar[j] \in Jar /\ c \in Contributions /\ f \in Nat
      /\ Consistent(jar[j], c, f)
      /\ contribution = [contribution EXCEPT ![j] = c]
      /\ funds = [funds EXCEPT ![j] = f]
  BY JarTyped DEF Inv, JarsInv
<1>2. /\ jar' = [jar EXCEPT ![j] = r2]
      /\ jar[j].status = "Active" /\ jar[j].type = "TimeLocked"
      /\ UNCHANGED <<config, treasury, now, userState, contribution, funds,
                     position>>
  BY DEF CancelJar, MayCancel
<1>3. /\ r2 \in Jar /\ r2.status = "Cancelled" /\ r2.type = jar[j].type
      /\ r2.unlock = jar[j].unlock /\ r2.stake = jar[j].stake
      /\ r2.totalContributed = jar[j].totalContributed
      /\ r2.principalTotal = jar[j].principalTotal
      /\ r2.totalContributors = jar[j].totalContributors
  BY <1>1 DEF Jar
<1> HIDE DEF r2, c, f
<1>4. Consistent(r2, c, f)
  BY <1>1, <1>2, <1>3 DEF Consistent, Bookkept
<1>5. position' \in [Jars -> [Venues -> Nat]] /\ treasury' \in Nat
  BY <1>2, ConfigNat DEF Inv, JarTypeOK
<1>6. /\ contribution' = [contribution EXCEPT ![j] = c]
      /\ funds' = [funds EXCEPT ![j] = f]
  BY <1>1, <1>2
<1>7. JarTypeOK' /\ JarsInv'
  BY <1>1, <1>2, <1>3, <1>4, <1>5, <1>6, LocalStep DEF Inv
<1>8. QED
  BY <1>2, <1>5, <1>7, ConfigKept DEF Inv

LEMMA CloseContributionKeeps ==
    ASSUME Inv, NEW j \in Jars, NEW d \in Donors, CloseContribution(j, d)
    PROVE  Inv'
<1> DEFINE c == contribution[j]
           c2 == Cleared(c, d)
           r2 == [jar[j] EXCEPT !.totalContributors =
                    jar[j].totalContributors - 1]
           f == funds[j]
<1>1. /\ jar[j] \in Jar /\ c \in Contributions /\ f \in Nat
      /\ Consistent(jar[j], c, f)
      /\ funds = [funds EXCEPT ![j] = f]
  BY JarTyped DEF Inv, JarsInv
<1>2. /\ jar' = [jar EXCEPT ![j] = r2]
      /\ contribution' = [contribution EXCEPT ![j] = c2]
      /\ jar[j].status = "Withdrawn" /\ c[d].version = 1
      /\ jar[j].totalContributors >= 1
      /\ UNCHANGED <<config, treasury, now, userState, funds, position>>
  BY DEF CloseContribution, Cleared
<1>3. /\ r2 \in Jar /\ r2.status = "Withdrawn" /\ r2.type = jar[j].type
      /\ r2.unlock = jar[j].unlock /\ r2.stake = jar[j].stake
      /\ r2.totalContributed = jar[j].totalContributed
      /\ r2.totalContributors = jar[j].totalContributors - 1
  BY <1>1, <1>2 DEF Jar
<1>4. NoContribution \in Contribution /\ NoContribution.version = 0
      /\ NoContribution.amount = 0
  BY DEF NoContribution, Contribution
<1>5. c2 \in Contributions /\ Claims(c2) = Claims(c) \ {d}
  BY <1>1, <1>4, AccountReplaced DEF Cleared
<1>6. \A e \in Donors : c2[e].amount > 0 <=> c2[e].version = 1
  BY <1>1, <1>4 DEF Consistent, Bookkept, Cleared, Contributions
<1>7. r2.totalContributors = Cardinality(Claims(c2))
  <2>1. d \in Claims(c)
    BY <1>2 DEF Claims
  <2>2. Cardinality(Claims(c) \ {d}) = Cardinality(Claims(c)) - 1
    BY <2>1, ClaimsFinite, FS_RemoveElement
  <2>3. jar[j].totalContributors = Cardinality(Claims(c))
    BY <1>1, <1>2 DEF Consistent, Bookkept
  <2> HIDE DEF c, c2, r2
  <2>4. QED
    BY <1>3, <1>5, <2>2, <2>3
<1> HIDE DEF r2, c2, c, f
<1>8. Consistent(r2, c2, f)
  BY <1>1, <1>3, <1>6, <1>7 DEF Consistent, Bookkept
<1>9. position' \in [Jars -> [Venues -> Nat]] /\ treasury' \in Nat
      /\ funds' = [funds EXCEPT ![j] = f]
  BY <1>1, <1>2, ConfigNat DEF Inv, JarTypeOK
<1>10. JarTypeOK' /\ JarsInv'
  BY <1>1, <1>2, <1>3, <1>5, <1>8, <1>9, LocalStep DEF Inv
<1>11. QED
  BY <1>2, <1>9, <1>10, ConfigKept DEF Inv

LEMMA CloseJarKeeps ==
    ASSUME Inv, NEW j \in Jars, CloseJar(j)
    PROVE  Inv'
<1> DEFINE c == contribution[j]
<1>1. /\ jar[j] \in Jar /\ c \in Contributions
      /\ Consistent(jar[j], c, funds[j])
      /\ contribution = [contribution EXCEPT ![j] = c]
  BY JarTyped DEF Inv, JarsInv
<1>2. /\ jar' = [jar EXCEPT ![j] = NoJar]
      /\ funds' = [funds EXCEPT ![j] = 0]
      /\ jar[j].status # "None" /\ jar[j].totalContributors = 0
      /\ UNCHANGED <<config, treasury, now, userState, contribution>>
  BY DEF CloseJar, Terminal
<1>3. Claims(c) = {}
  <2>1. Cardinality(Claims(c)) = 0
    BY <1>1, <1>2 DEF Consistent, Bookkept
  <2>2. QED
    BY <2>1, ClaimsFinite, FS_EmptySet
<1>4. Consistent(NoJar, c, 0)
  <2>1. \A e \in Donors : c[e].amount > 0 <=> c[e].version = 1
    BY <1>1 DEF Consistent, Bookkept
  <2>2. QED
    BY <1>3, <2>1 DEF NoJar, Consistent, Bookkept
<1>5. position' \in [Jars -> [Venues -> Nat]]
  <2>1. Marinade \in Venues
    BY DEF Venues
  <2>2. QED
    BY <2>1, PositionTyped DEF CloseJar, Inv, JarTypeOK
<1>6. treasury' \in Nat /\ contribution' = [contribution EXCEPT ![j] = c]
  BY <1>1, <1>2, ConfigNat DEF Inv
<1>7. JarTypeOK' /\ JarsInv'
  <2> HIDE DEF c
  <2>1. NoJar \in Jar /\ 0 \in Nat
        /\ (NoJar.status # "None" => jar[j].status # "None")
    BY NoJarConsistent
  <2>2. UNCHANGED <<now, userState>>
    BY <1>2
  <2>3. JarTypeOK /\ JarsInv
    BY DEF Inv
  <2>4. QED
    BY <1>1, <1>2, <1>4, <1>5, <1>6, <2>1, <2>2, <2>3, LocalStep
<1>8. QED
  BY <1>2, <1>6, <1>7, ConfigKept DEF Inv

LEMMA EnvironmentKeeps ==
    ASSUME Inv, EnvironmentNext
    PROVE  Inv'
<1>1. CASE Tick
  <2>1. UNCHANGED <<config, treasury, userState, jar, contribution, funds,
                    position>>
    BY <1>1 DEF Tick
  <2>2. now' \in Nat
    BY <1>1 DEF Tick, Inv, JarTypeOK
  <2>3. JarTypeOK' /\ JarsInv'
    BY <2>1, <2>2 DEF Inv, JarTypeOK, JarsInv
  <2>4. QED
    BY <2>1, <2>3, ConfigNat, ConfigKept DEF Inv
<1>2. ASSUME NEW j \in Jars, NEW amount \in DirectAmounts,
             DirectTransfer(j, amount)
      PROVE  Inv'
  <2> DEFINE c == contribution[j]
             r == jar[j]
             f == funds[j]
  <2>1. /\ r \in Jar /\ c \in Contributions /\ f \in Nat
        /\ Consistent(r, c, f)
        /\ jar = [jar EXCEPT ![j] = r]
        /\ contribution = [contribution EXCEPT ![j] = c]
    BY JarTyped DEF Inv, JarsInv
  <2>2. /\ r.status # "None" /\ funds' = [funds EXCEPT ![j] = f + amount]
        /\ UNCHANGED <<config, treasury, now, userState, jar, contribution,
                       position>>
    BY <1>2 DEF DirectTransfer
  <2>3. f + amount \in Nat /\ f + amount >= f
    BY <2>1, JarAssumption
  <2>4. Consistent(r, c, f + amount)
    BY <2>1, <2>2, <2>3 DEF Consistent, Bookkept, Jar
  <2>5. position' \in [Jars -> [Venues -> Nat]] /\ treasury' \in Nat
    BY <2>2, ConfigNat DEF Inv, JarTypeOK
  <2>6. JarTypeOK' /\ JarsInv'
    BY <2>1, <2>2, <2>3, <2>4, <2>5, LocalStep DEF Inv
  <2>7. QED
    BY <2>2, <2>5, <2>6, ConfigKept DEF Inv
<1>3. ASSUME NEW j \in Jars, NEW amount \in DirectAmounts,
             DirectMsol(j, amount)
      PROVE  Inv'
  <2>1. UNCHANGED <<config, treasury, now, userState, jar, contribution, funds>>
    BY <1>3 DEF DirectMsol
  <2>2. Marinade \in Venues
    BY DEF Venues
  <2>3. position[j][Marinade] + amount \in Nat
    BY <2>2, PositionTyped, JarAssumption DEF Inv
  <2>4. position' \in [Jars -> [Venues -> Nat]]
    BY <1>3, <2>2, <2>3, PositionTyped DEF DirectMsol, Inv
  <2>5. JarTypeOK' /\ JarsInv'
    BY <2>1, <2>4 DEF Inv, JarTypeOK, JarsInv
  <2>6. QED
    BY <2>1, <2>5, ConfigNat, ConfigKept DEF Inv
<1>4. QED
  BY <1>1, <1>2, <1>3 DEF EnvironmentNext

LEMMA InvStep == Inv /\ [Next]_vars => Inv'
<1> SUFFICES ASSUME Inv, [Next]_vars PROVE Inv'
  OBVIOUS
<1>1. CASE OwnerNext
  <2>1. \A unlock \in 0 .. MaxNow : unlock \in Nat
    BY JarAssumption
  <2>2. \A request \in Amounts \union {0, WholeBalance} :
          request \in Nat \union {WholeBalance}
    BY JarAssumption
  <2>3. \A autoStake \in AutoStakeInputs : autoStake \in BOOLEAN
    BY JarAssumption
  <2>4. QED
    BY <1>1, <2>1, <2>2, <2>3, InitUserStateKeeps, CreateJarKeeps,
       WithdrawKeeps, CancelJarKeeps, CloseJarKeeps DEF OwnerNext
<1>2. CASE DonorNext
  BY <1>2, ContributeSolKeeps, ContributeSplKeeps, RefundKeeps,
     CloseContributionKeeps DEF DonorNext
<1>3. CASE EnvironmentNext
  BY <1>3, EnvironmentKeeps
<1>4. CASE AdminNext /\ UNCHANGED jarVars
  <2>1. ConfigInv'
    BY <1>4, ConfigInvAdminStep DEF Inv
  <2>2. JarTypeOK' /\ JarsInv'
    BY <1>4 DEF jarVars, Inv, JarTypeOK, JarsInv
  <2>3. QED
    BY <2>1, <2>2 DEF Inv
<1>5. CASE UNCHANGED vars
  <2>1. UNCHANGED <<config, treasury, now, userState, jar, contribution,
                    funds, position>>
    BY <1>5 DEF vars, jarVars
  <2>2. JarTypeOK' /\ JarsInv'
    BY <2>1 DEF Inv, JarTypeOK, JarsInv
  <2>3. QED
    BY <2>1, <2>2, ConfigNat, ConfigKept DEF Inv
<1>6. QED
  BY <1>1, <1>2, <1>3, <1>4, <1>5 DEF Next

LEMMA AlwaysInv == Spec => []Inv
  BY InvInit, InvStep, PTL DEF Spec

\* The treasury's tokens and the history of mSOL minted elsewhere.
LEMMA PayOwnerLedger ==
    ASSUME Inv, LedgerTypeOK, NEW j \in Jars, NEW r, NEW held \in Nat,
           NEW request \in Nat \union {WholeBalance},
           r.totalContributed \in Nat, PayOwner(j, r, held, request)
    PROVE  treasuryUsdc' \in Nat
<1> DEFINE balance == Least(held, r.totalContributed)
           gross == IF request = WholeBalance THEN balance ELSE request
<1>1. gross \in Nat
  BY DEF Least
<1>2. Fee(gross) \in Nat /\ treasuryUsdc \in Nat
  BY <1>1, ConfigNat DEF Inv, LedgerTypeOK
<1>3. treasuryUsdc' = treasuryUsdc + Fee(gross) \/ treasuryUsdc' = treasuryUsdc
  BY DEF PayOwner
<1>4. QED
  BY <1>2, <1>3

LEMMA WithdrawLedger ==
    ASSUME Inv, LedgerTypeOK, NEW j \in Jars,
           NEW request \in Nat \union {WholeBalance}, Withdraw(j, request)
    PROVE  LedgerTypeOK'
<1>1. /\ jar[j] \in Jar /\ jar[j].totalContributed \in Nat /\ funds[j] \in Nat
      /\ elsewhere' = elsewhere
  BY JarTyped DEF Inv, Jar, Withdraw
<1>2. CASE WithdrawMarginFi(j, request)
  <2>1. PICK bank \in Banks, p \in Prices :
          PayOwner(j, [ jar[j] EXCEPT !.sharesTotal = 0, !.totalContributed =
                          funds[j] + UsdcFor(position[j][bank], p) ],
                   funds[j] + UsdcFor(position[j][bank], p), request)
    BY <1>2 DEF WithdrawMarginFi
  <2> DEFINE held == funds[j] + UsdcFor(position[j][bank], p)
             r == [jar[j] EXCEPT !.sharesTotal = 0, !.totalContributed = held]
  <2>2. held \in Nat
    <3>1. position[j][bank] \in Nat
      BY PositionTyped DEF Inv, Venues
    <3>2. QED
      BY <1>1, <3>1, VenuesNat
  <2>3. r.totalContributed = held
    BY <1>1 DEF Jar
  <2>4. PayOwner(j, r, held, request)
    BY <2>1
  <2> HIDE DEF held, r
  <2>5. QED
    BY <1>1, <2>2, <2>3, <2>4, PayOwnerLedger DEF LedgerTypeOK
<1>3. CASE WithdrawMarinade(j)
  BY <1>1, <1>3 DEF WithdrawMarinade, LedgerTypeOK
<1>4. CASE PayOwner(j, jar[j], funds[j], request)
  BY <1>1, <1>4, PayOwnerLedger DEF LedgerTypeOK
<1>5. QED
  BY <1>2, <1>3, <1>4 DEF Withdraw

LEMMA LedgerStep == Inv /\ LedgerTypeOK /\ [Next]_vars => LedgerTypeOK'
<1> SUFFICES ASSUME Inv, LedgerTypeOK, [Next]_vars PROVE LedgerTypeOK'
  OBVIOUS
<1>1. ASSUME UNCHANGED <<treasuryUsdc, elsewhere>> PROVE LedgerTypeOK'
  BY <1>1 DEF LedgerTypeOK
<1>2. CASE OwnerNext
  <2>1. \A request \in Amounts \union {0, WholeBalance} :
          request \in Nat \union {WholeBalance}
    BY JarAssumption
  <2>2. ASSUME NEW j \in Jars, CloseJar(j) PROVE LedgerTypeOK'
    BY <2>2 DEF CloseJar, LedgerTypeOK
  <2>3. ASSUME NEW o \in Owners, InitUserState(o) PROVE LedgerTypeOK'
    BY <1>1, <2>3 DEF InitUserState
  <2>4. ASSUME NEW o \in Owners, NEW type, NEW asset, NEW unlock, NEW autoStake,
               CreateJar(o, type, asset, unlock, autoStake)
        PROVE  LedgerTypeOK'
    BY <1>1, <2>4 DEF CreateJar
  <2>5. ASSUME NEW j \in Jars, CancelJar(j) PROVE LedgerTypeOK'
    BY <1>1, <2>5 DEF CancelJar
  <2>6. QED
    BY <1>2, <2>1, <2>2, <2>3, <2>4, <2>5, WithdrawLedger DEF OwnerNext
<1>3. CASE DonorNext
  <2>1. ASSUME NEW j \in Jars, NEW d \in Donors, NEW amount \in Amounts,
               ContributeSol(j, d, amount)
        PROVE  LedgerTypeOK'
    <3>1. ASSUME NEW p \in Prices, MintMsol(j, MsolFor(amount, p)),
                 UNCHANGED treasuryUsdc
          PROVE  LedgerTypeOK'
      <4>1. MsolFor(amount, p) \in Nat /\ elsewhere[j] \in Nat
        BY VenuesNat, JarAssumption DEF LedgerTypeOK
      <4>2. QED
        BY <3>1, <4>1 DEF MintMsol, LedgerTypeOK
    <3>2. QED
      BY <1>1, <2>1, <3>1 DEF ContributeSol
  <2>2. QED
    BY <1>1, <1>3, <2>1
    DEF DonorNext, ContributeSpl, Refund, PaidRefund, CloseContribution
<1>4. CASE EnvironmentNext
  BY <1>1, <1>4 DEF EnvironmentNext, Tick, DirectTransfer, DirectMsol
<1>5. CASE UNCHANGED jarVars
  BY <1>1, <1>5 DEF jarVars
<1>6. QED
  BY <1>2, <1>3, <1>4, <1>5 DEF Next, vars

LEMMA AlwaysLedgers == Spec => [](Inv /\ LedgerTypeOK)
<1>1. Init => LedgerTypeOK
  BY DEF Init, LedgerTypeOK
<1>2. QED
  BY <1>1, InvInit, InvStep, LedgerStep, PTL DEF Spec

---------------------------------------------------------------------------
(* The invariants that the runs check.                                     *)

LEMMA OpenIsClaims == \A j \in Jars : Open(j) = Claims(contribution[j])
  BY DEF Open, Claims

LEMMA PledgedIsPrincipal ==
    \A j \in Jars : Pledged(j) = Principal(contribution[j])
  BY DEF Pledged, Principal

\* Every account keeps its type: in particular no total goes negative.
THEOREM TypeCorrect == Spec => []TypeOK
<1>1. Inv /\ LedgerTypeOK => TypeOK
  BY DEF Inv, ConfigInv, TypeOK
<1>2. QED
  BY <1>1, AlwaysLedgers, PTL

\* total_contributors counts exactly the accounts that close_jar must wait
\* for, for any number of donors and any interleaving.
THEOREM ContributorsAreCounted == Spec => []ContributorsCounted
<1>1. Inv => ContributorsCounted
  BY OpenIsClaims
  DEF Inv, JarsInv, Consistent, Bookkept, ContributorsCounted
<1>2. QED
  BY <1>1, AlwaysInv, PTL

\* Closing a jar orphans neither a claim nor money.
THEOREM NothingIsOrphaned == Spec => []NothingOutlivesJar
<1>1. Inv => NothingOutlivesJar
  BY OpenIsClaims
  DEF Inv, JarsInv, Consistent, Bookkept, NothingOutlivesJar
<1>2. QED
  BY <1>1, AlwaysInv, PTL

\* The recorded principal is the sum of the donors' own records.
THEOREM PrincipalAddsUp == Spec => []PrincipalIsPledged
<1>1. Inv => PrincipalIsPledged
  BY PledgedIsPrincipal
  DEF Inv, JarsInv, Consistent, Bookkept, PrincipalIsPledged
<1>2. QED
  BY <1>1, AlwaysInv, PTL

\* An unstaked jar never records more than it holds.
THEOREM JarIsSolvent == Spec => []HoldsWhatItRecords
<1>1. Inv => HoldsWhatItRecords
  BY DEF Inv, JarsInv, Consistent, Bookkept, HoldsWhatItRecords
<1>2. QED
  BY <1>1, AlwaysInv, PTL

\* A cancelled jar can pay back every one of its donors in full.
THEOREM CancelledJarCanRefund == Spec => []RefundsCovered
<1>1. Inv => RefundsCovered
  <2> SUFFICES ASSUME Inv, NEW j \in Jars, jar[j].status = "Cancelled"
               PROVE  /\ jar[j].totalContributed = Pledged(j)
                      /\ jar[j].principalTotal = Pledged(j)
                      /\ jar[j].stake = "None" => funds[j] >= Pledged(j)
    BY DEF RefundsCovered
  <2>1. Consistent(jar[j], contribution[j], funds[j])
    BY DEF Inv, JarsInv
  <2>2. QED
    BY <2>1, PledgedIsPrincipal DEF Consistent, Bookkept
<1>2. QED
  BY <1>1, AlwaysInv, PTL

---------------------------------------------------------------------------
(* What one instruction does to the jar it names, and to no other.         *)

Frame(j) == \A i \in Jars \ {j} : /\ jar'[i] = jar[i]
                                   /\ contribution'[i] = contribution[i]
                                   /\ funds'[i] = funds[i]

SameKind(r, q) == /\ r.type = q.type /\ r.asset = q.asset
                  /\ r.stake = q.stake /\ r.unlock = q.unlock

SetsJar(j, r, c, f) == /\ jar' = [jar EXCEPT ![j] = r]
                       /\ contribution' = [contribution EXCEPT ![j] = c]
                       /\ funds' = [funds EXCEPT ![j] = f]

LEMMA SetsFrame ==
    ASSUME JarTypeOK, NEW j \in Jars, NEW r, NEW c, NEW f, SetsJar(j, r, c, f)
    PROVE  Frame(j) /\ jar'[j] = r /\ contribution'[j] = c /\ funds'[j] = f
  BY DEF JarTypeOK, SetsJar, Frame

JarFields == DOMAIN NoJar

LEMMA RecordFields ==
    ASSUME Inv, NEW j \in Jars
    PROVE  /\ DOMAIN jar[j] = JarFields /\ jar[j] \in Jar
           /\ contribution[j] \in Contributions /\ funds[j] \in Nat
           /\ Consistent(jar[j], contribution[j], funds[j])
<1>1. jar[j] \in Jar
  BY JarTyped DEF Inv
<1>2. DOMAIN jar[j] = JarFields
  BY <1>1 DEF Jar, JarFields, NoJar
<1>3. QED
  BY <1>1, <1>2, JarTyped DEF Inv, JarsInv

LEMMA ContributeMoves ==
    ASSUME Inv, NEW j \in Jars, NEW d \in Donors, NEW amount \in Nat,
           ContributeSol(j, d, amount) \/ ContributeSpl(j, d, amount)
    PROVE  /\ amount > 0 /\ jar[j].status = "Active" /\ jar'[j].status = "Active"
           /\ Frame(j) /\ SameKind(jar'[j], jar[j]) /\ funds'[j] >= funds[j]
           /\ \E s : contribution'[j] =
                  [contribution[j] EXCEPT ![d] =
                     [ version |-> 1, amount |-> contribution[j][d].amount + amount,
                       shares |-> s ]]
           /\ UNCHANGED <<config, treasury, now, userState>>
<1>1. /\ amount > 0 /\ jar[j].status = "Active"
      /\ UNCHANGED <<config, treasury, now, userState>>
      /\ \E s : Credit(j, d, amount, s)
      /\ funds' \in {funds, [funds EXCEPT ![j] = funds[j] + amount]}
  BY DEF ContributeSol, ContributeSpl, MayContribute
<1>2. PICK s : Credit(j, d, amount, s)
  BY <1>1
<1>3. PICK newcomers : jar' = [jar EXCEPT ![j] = Credited(jar[j], amount, newcomers, s)]
  BY <1>2 DEF Credit
<1> DEFINE r == Credited(jar[j], amount, newcomers, s)
           a == [ version |-> 1, amount |-> contribution[j][d].amount + amount,
                  shares |-> contribution[j][d].shares + s ]
           c == [contribution[j] EXCEPT ![d] = a]
<1>4. contribution' = [contribution EXCEPT ![j] = c]
  <2>1. contribution' = [contribution EXCEPT ![j][d] = a]
    BY <1>2 DEF Credit
  <2>2. QED
    BY <2>1
<1>5. PICK f \in Nat : f >= funds[j] /\ funds' = [funds EXCEPT ![j] = f]
  BY <1>1, RecordFields, JarTyped DEF Inv
<1>6. SameKind(r, jar[j]) /\ r.status = jar[j].status
  BY RecordFields DEF Credited, SameKind, JarFields, NoJar
<1> HIDE DEF r, c
<1>7. Frame(j) /\ jar'[j] = r /\ contribution'[j] = c /\ funds'[j] = f
  BY <1>3, <1>4, <1>5, SetsFrame DEF SetsJar, Inv, r
<1>8. QED
  BY <1>1, <1>5, <1>6, <1>7 DEF c

LEMMA RefundMoves ==
    ASSUME Inv, NEW j \in Jars, NEW d \in Donors, Refund(j, d)
    PROVE  /\ jar[j].status = "Cancelled" /\ jar'[j].status = "Cancelled"
           /\ contribution[j][d].amount > 0
           /\ Frame(j) /\ SameKind(jar'[j], jar[j])
           /\ contribution'[j] = [contribution[j] EXCEPT ![d] = NoContribution]
           /\ funds'[j] \in {funds[j], funds[j] - contribution[j][d].amount}
           /\ UNCHANGED <<config, treasury, now, userState>>
<1> DEFINE amount == contribution[j][d].amount
<1>1. /\ amount > 0 /\ jar[j].status = "Cancelled"
      /\ UNCHANGED <<config, treasury, now, userState>>
      /\ \E s : Debit(j, d, s)
      /\ funds' \in {funds, [funds EXCEPT ![j] = funds[j] - amount]}
  BY DEF Refund, PaidRefund, MayRefund, RefundFromFunds, RefundFromMarinade,
         RefundFromMarginFi, RefundFromNoBank
<1>2. PICK s : Debit(j, d, s)
  BY <1>1
<1> DEFINE r == Debited(jar[j], amount, s)
           c == [contribution[j] EXCEPT ![d] = NoContribution]
<1>3. jar' = [jar EXCEPT ![j] = r]
  BY <1>2 DEF Debit
<1>4. contribution' = [contribution EXCEPT ![j] = c]
  <2>1. contribution' = [contribution EXCEPT ![j][d] = NoContribution]
    BY <1>2 DEF Debit
  <2>2. QED
    BY <2>1
<1>5. PICK f \in {funds[j], funds[j] - amount} : funds' = [funds EXCEPT ![j] = f]
  BY <1>1, JarTyped DEF Inv
<1>6. SameKind(r, jar[j]) /\ r.status = jar[j].status
  BY RecordFields DEF Debited, SameKind, JarFields, NoJar
<1> HIDE DEF r, c
<1>7. Frame(j) /\ jar'[j] = r /\ contribution'[j] = c /\ funds'[j] = f
  BY <1>3, <1>4, <1>5, SetsFrame DEF SetsJar, Inv
<1>8. QED
  BY <1>1, <1>5, <1>6, <1>7 DEF c

\* Only USDC is lent.
LentIsUsdc == \A j \in Jars : jar[j].stake = "MarginFiUsdc" => jar[j].asset = "Usdc"

LEMMA PayOwnerMoves ==
    ASSUME Inv, NEW j \in Jars, NEW r, NEW held \in Nat,
           NEW request \in Nat \union {WholeBalance},
           DOMAIN r = JarFields, r.totalContributed \in Nat,
           PayOwner(j, r, held, request), contribution' = contribution
    PROVE  /\ Frame(j) /\ SameKind(jar'[j], r)
           /\ jar'[j].status \in {"Active", "Withdrawn"}
           /\ \E gross \in Nat :
                 /\ funds'[j] = held - gross
                 /\ treasury' = IF r.asset = "Sol" THEN treasury + Fee(gross)
                                                   ELSE treasury
<1> DEFINE balance == Least(held, r.totalContributed)
           gross == IF request = WholeBalance THEN balance ELSE request
           r2 == Settled(r, gross, balance)
<1>1. gross \in Nat
  BY DEF Least
<1>2. /\ jar' = [jar EXCEPT ![j] = r2]
      /\ funds' = [funds EXCEPT ![j] = held - gross]
      /\ treasury' = IF r.asset = "Sol" THEN treasury + Fee(gross) ELSE treasury
  BY DEF PayOwner
<1>3. contribution' = [contribution EXCEPT ![j] = contribution[j]]
  BY JarTyped DEF Inv
<1>4. SameKind(r2, r) /\ r2.status \in {"Active", "Withdrawn"}
  BY DEF Settled, SameKind, JarFields, NoJar
<1> HIDE DEF r2, gross
<1>5. Frame(j) /\ jar'[j] = r2 /\ funds'[j] = held - gross
  BY <1>2, <1>3, SetsFrame DEF SetsJar, Inv
<1>6. QED
  BY <1>1, <1>2, <1>4, <1>5

LEMMA WithdrawMoves ==
    ASSUME Inv, LentIsUsdc, NEW j \in Jars,
           NEW request \in Nat \union {WholeBalance}, Withdraw(j, request)
    PROVE  /\ MayWithdraw(j) /\ jar'[j].status \in {"Active", "Withdrawn"}
           /\ Frame(j) /\ SameKind(jar'[j], jar[j])
           /\ UNCHANGED <<config, now, userState, contribution>>
<1>1. /\ MayWithdraw(j) /\ UNCHANGED <<config, now, userState, contribution>>
  BY DEF Withdraw
<1>2. CASE jar[j].stake = "MarginFiUsdc" /\ WithdrawMarginFi(j, request)
  <2>1. PICK bank \in Banks, p \in Prices :
          PayOwner(j, [ jar[j] EXCEPT !.sharesTotal = 0, !.totalContributed =
                          funds[j] + UsdcFor(position[j][bank], p) ],
                   funds[j] + UsdcFor(position[j][bank], p), request)
    BY <1>2 DEF WithdrawMarginFi
  <2> DEFINE held == funds[j] + UsdcFor(position[j][bank], p)
             r == [jar[j] EXCEPT !.sharesTotal = 0, !.totalContributed = held]
  <2>2. held \in Nat
    <3>1. position[j][bank] \in Nat
      BY PositionTyped DEF Inv, Venues
    <3>2. QED
      BY <3>1, VenuesNat, RecordFields
  <2>3. /\ DOMAIN r = JarFields /\ r.totalContributed = held
        /\ SameKind(r, jar[j]) /\ r.asset = "Usdc"
    BY <1>2, RecordFields DEF SameKind, JarFields, NoJar, LentIsUsdc
  <2>4. PayOwner(j, r, held, request)
    BY <2>1
  <2> HIDE DEF held, r
  <2>5. /\ Frame(j) /\ SameKind(jar'[j], r) /\ treasury' = treasury
        /\ jar'[j].status \in {"Active", "Withdrawn"}
    BY <1>1, <2>2, <2>3, <2>4, PayOwnerMoves
  <2>6. QED
    BY <1>1, <2>3, <2>5 DEF SameKind
<1>3. CASE jar[j].stake = "MarinadeSol" /\ WithdrawMarinade(j)
  <2> DEFINE r == [ jar[j] EXCEPT !.totalContributed = 0, !.sharesTotal = 0,
                                  !.status = "Withdrawn" ]
  <2>1. jar' = [jar EXCEPT ![j] = r] /\ funds' = funds
    BY <1>3 DEF WithdrawMarinade
  <2>2. SameKind(r, jar[j]) /\ r.status = "Withdrawn"
    BY RecordFields DEF SameKind, JarFields, NoJar
  <2> HIDE DEF r
  <2>3. SetsJar(j, r, contribution[j], funds[j])
    BY <1>1, <2>1, JarTyped DEF SetsJar, Inv
  <2>4. Frame(j) /\ jar'[j] = r /\ funds'[j] = funds[j]
    BY <2>3, SetsFrame DEF Inv
  <2>5. QED
    BY <1>1, <2>2, <2>4
<1>4. CASE PayOwner(j, jar[j], funds[j], request)
  <2>1. jar[j].totalContributed \in Nat /\ DOMAIN jar[j] = JarFields /\ funds[j] \in Nat
    BY RecordFields DEF Jar
  <2>2. QED
    BY <1>1, <1>4, <2>1, PayOwnerMoves
<1>5. QED
  BY <1>2, <1>3, <1>4 DEF Withdraw

LEMMA CreateMoves ==
    ASSUME Inv, NEW o \in Owners, NEW type, NEW asset, NEW unlock, NEW autoStake,
           autoStake \in BOOLEAN, asset \in {"Sol", "Usdc"},
           CreateJar(o, type, asset, unlock, autoStake)
    PROVE  LET j == <<o, userState[o].jarCount>>
           IN  /\ j \in Jars /\ jar[j].status = "None"
               /\ jar'[j].status = "Active" /\ jar'[j].unlock = unlock
               /\ jar'[j].stake = "MarginFiUsdc" => jar'[j].asset = "Usdc"
               /\ unlock = 0 \/ now < unlock
               /\ \A i \in Jars \ {j} : jar'[i] = jar[i]
               /\ userState' = [userState EXCEPT ![o].jarCount =
                                   userState[o].jarCount + 1]
               /\ UNCHANGED <<config, now, contribution, funds>>
<1> DEFINE j == <<o, userState[o].jarCount>>
           stake == StakeProtocol(asset, autoStake)
           r == [ NoJar EXCEPT !.status = "Active", !.type = type,
                               !.asset = asset, !.stake = stake,
                               !.unlock = unlock,
                               !.marginfiGroup = IF stake = "MarginFiUsdc"
                                                 THEN config.marginfiGroup
                                                 ELSE NoKey ]
<1>1. /\ jar' = [jar EXCEPT ![j] = r] /\ UNCHANGED <<config, now, contribution, funds>>
      /\ UnlockAllowed(type, unlock) /\ userState[o].jarCount < MaxJars
      /\ userState' = [userState EXCEPT ![o].jarCount = userState[o].jarCount + 1]
  BY DEF CreateJar
<1>2. userState[o].jarCount \in Nat
  BY DEF Inv, JarTypeOK, UserState
<1>3. j \in Jars
  BY <1>1, <1>2, JarAssumption DEF Jars
<1>4. jar[j].status = "None"
  BY <1>2, <1>3 DEF Inv, JarsInv
<1>5. jar \in [Jars -> Jar]
  BY DEF Inv, JarTypeOK
<1>6. jar'[j] = r /\ \A i \in Jars \ {j} : jar'[i] = jar[i]
  BY <1>1, <1>3, <1>5
<1>7. r.status = "Active" /\ r.unlock = unlock /\ r.stake = stake /\ r.asset = asset
  BY DEF NoJar
<1>8. stake = "MarginFiUsdc" => asset = "Usdc"
  BY DEF StakeProtocol
<1>9. unlock = 0 \/ now < unlock
  BY <1>1 DEF UnlockAllowed
<1>10. QED
  BY <1>1, <1>3, <1>4, <1>6, <1>7, <1>8, <1>9

LEMMA OtherMoves ==
    ASSUME Inv, NEW j \in Jars
    PROVE  /\ CancelJar(j) =>
                /\ jar[j].status = "Active" /\ now < jar[j].unlock
                /\ Frame(j) /\ jar'[j].status = "Cancelled"
                /\ SameKind(jar'[j], jar[j]) /\ funds'[j] = funds[j]
                /\ UNCHANGED <<config, treasury, now, userState, contribution>>
           /\ CloseJar(j) =>
                /\ Terminal(j) /\ Frame(j) /\ jar'[j] = NoJar
                /\ UNCHANGED <<config, treasury, now, userState, contribution>>
           /\ \A d \in Donors : CloseContribution(j, d) =>
                /\ jar[j].status = "Withdrawn" /\ jar'[j].status = "Withdrawn"
                /\ contribution[j][d].version = 1
                /\ Frame(j) /\ SameKind(jar'[j], jar[j]) /\ funds'[j] = funds[j]
                /\ contribution'[j] = [contribution[j] EXCEPT ![d] = NoContribution]
                /\ UNCHANGED <<config, treasury, now, userState>>
<1>1. ASSUME CancelJar(j)
      PROVE  /\ jar[j].status = "Active" /\ now < jar[j].unlock
             /\ Frame(j) /\ jar'[j].status = "Cancelled"
             /\ SameKind(jar'[j], jar[j]) /\ funds'[j] = funds[j]
             /\ UNCHANGED <<config, treasury, now, userState, contribution>>
  <2> DEFINE r == [jar[j] EXCEPT !.status = "Cancelled"]
  <2>1. jar' = [jar EXCEPT ![j] = r] /\ MayCancel(j)
        /\ UNCHANGED <<config, treasury, now, userState, contribution, funds>>
    BY <1>1 DEF CancelJar
  <2>2. SameKind(r, jar[j]) /\ r.status = "Cancelled"
    BY RecordFields DEF SameKind, JarFields, NoJar
  <2> HIDE DEF r
  <2>3. SetsJar(j, r, contribution[j], funds[j])
    BY <2>1, JarTyped DEF SetsJar, Inv
  <2>4. QED
    BY <2>1, <2>2, <2>3, SetsFrame DEF Inv, MayCancel
<1>2. ASSUME CloseJar(j)
      PROVE  /\ Terminal(j) /\ Frame(j) /\ jar'[j] = NoJar
             /\ UNCHANGED <<config, treasury, now, userState, contribution>>
  <2>1. SetsJar(j, NoJar, contribution[j], 0)
    BY <1>2, JarTyped DEF SetsJar, Inv, CloseJar
  <2>2. QED
    BY <1>2, <2>1, SetsFrame DEF Inv, CloseJar
<1>3. ASSUME NEW d \in Donors, CloseContribution(j, d)
      PROVE  /\ jar[j].status = "Withdrawn" /\ jar'[j].status = "Withdrawn"
             /\ contribution[j][d].version = 1
             /\ Frame(j) /\ SameKind(jar'[j], jar[j]) /\ funds'[j] = funds[j]
             /\ contribution'[j] = [contribution[j] EXCEPT ![d] = NoContribution]
             /\ UNCHANGED <<config, treasury, now, userState>>
  <2> DEFINE r == [jar[j] EXCEPT !.totalContributors = jar[j].totalContributors - 1]
             c == [contribution[j] EXCEPT ![d] = NoContribution]
  <2>1. /\ jar' = [jar EXCEPT ![j] = r]
        /\ contribution' = [contribution EXCEPT ![j] = c]
        /\ jar[j].status = "Withdrawn" /\ contribution[j][d].version = 1
        /\ UNCHANGED <<config, treasury, now, userState, funds>>
    BY <1>3 DEF CloseContribution
  <2>2. SameKind(r, jar[j]) /\ r.status = jar[j].status
    BY RecordFields DEF SameKind, JarFields, NoJar
  <2> HIDE DEF r, c
  <2>3. SetsJar(j, r, c, funds[j])
    BY <2>1, JarTyped DEF SetsJar, Inv
  <2>4. QED
    BY <2>1, <2>2, <2>3, SetsFrame DEF Inv, c
<1>4. QED
  BY <1>1, <1>2, <1>3

---------------------------------------------------------------------------
(* What a step may never do.                                               *)

\* The step of an instruction that names a jar.
JarStep(j) ==
    \/ \E request \in Nat \union {WholeBalance} : Withdraw(j, request)
    \/ CancelJar(j) \/ CloseJar(j)
    \/ \E d \in Donors :
          \/ \E amount \in Amounts : ContributeSol(j, d, amount)
                                     \/ ContributeSpl(j, d, amount)
          \/ Refund(j, d) \/ CloseContribution(j, d)

\* Any other step leaves every jar's record and claims alone.
Aside ==
    /\ UNCHANGED <<jar, contribution, elsewhere>>
    /\ \A j \in Jars :
          /\ funds'[j] >= funds[j]
          /\ position'[j][Marinade] >= position[j][Marinade]
          /\ \A bank \in Banks : position'[j][bank] = position[j][bank]
    /\ \/ UNCHANGED <<now, userState>>
       \/ now < MaxNow /\ now' = now + 1 /\ UNCHANGED userState
       \/ /\ UNCHANGED now
          /\ \E o \in Owners : /\ userState[o].jarCount = 0
                               /\ userState' = [userState EXCEPT ![o] =
                                      [version |-> 1, jarCount |-> 0]]

Created ==
    \E o \in Owners, type \in {"Flexible", "TimeLocked"}, asset \in Assets,
       unlock \in 0 .. MaxNow, autoStake \in AutoStakeInputs :
        CreateJar(o, type, asset, unlock, autoStake)

LEMMA StepCases ==
    ASSUME Inv, [Next]_vars
    PROVE  Aside \/ Created \/ \E j \in Jars : JarStep(j)
<1>1. \A request \in Amounts \union {0, WholeBalance} :
         request \in Nat \union {WholeBalance}
  BY JarAssumption
<1>2. /\ funds \in [Jars -> Nat]
      /\ position \in [Jars -> [Venues -> Nat]]
      /\ \A j \in Jars : position[j][Marinade] \in Nat
  BY PositionTyped DEF Inv, JarTypeOK, Venues
<1>3. CASE OwnerNext
  <2>1. ASSUME NEW o \in Owners, InitUserState(o) PROVE Aside
    <3>1. userState[o].jarCount = 0
      BY <2>1 DEF InitUserState, Inv, JarsInv
    <3>2. /\ UNCHANGED <<jar, contribution, funds, now, position, elsewhere>>
          /\ userState' = [userState EXCEPT ![o] = [version |-> 1, jarCount |-> 0]]
      BY <2>1 DEF InitUserState
    <3>3. \A j \in Jars : /\ funds'[j] >= funds[j]
                          /\ position'[j][Marinade] >= position[j][Marinade]
      BY <1>2, <3>2
    <3>4. QED
      BY <3>1, <3>2, <3>3 DEF Aside
  <2>2. QED
    BY <1>1, <1>3, <2>1 DEF OwnerNext, Created, JarStep
<1>4. CASE DonorNext
  BY <1>4 DEF DonorNext, JarStep
<1>5. CASE EnvironmentNext
  <2>1. CASE Tick
    <3>1. /\ UNCHANGED <<userState, jar, contribution, funds, position, elsewhere>>
          /\ now < MaxNow /\ now' = now + 1
      BY <2>1 DEF Tick
    <3>2. \A j \in Jars :
             /\ funds'[j] >= funds[j]
             /\ position'[j][Marinade] >= position[j][Marinade]
             /\ \A bank \in Banks : position'[j][bank] = position[j][bank]
      BY <1>2, <3>1
    <3>3. QED
      BY <3>1, <3>2 DEF Aside
  <2>2. ASSUME NEW j \in Jars, NEW amount \in DirectAmounts, DirectTransfer(j, amount)
        PROVE  Aside
    <3>1. amount \in Nat
      BY JarAssumption
    <3>2. \A i \in Jars : funds'[i] >= funds[i]
      BY <1>2, <2>2, <3>1 DEF DirectTransfer
    <3>3. /\ UNCHANGED <<jar, contribution, now, userState, position, elsewhere>>
          /\ \A i \in Jars : position'[i][Marinade] >= position[i][Marinade]
      BY <1>2, <2>2 DEF DirectTransfer
    <3>4. QED
      BY <3>2, <3>3 DEF Aside
  <2>3. ASSUME NEW j \in Jars, NEW amount \in DirectAmounts, DirectMsol(j, amount)
        PROVE  Aside
    <3>1. amount \in Nat /\ Marinade \notin Banks
      BY JarAssumption
    <3>2. position' = [position EXCEPT ![j][Marinade] =
                           position[j][Marinade] + amount]
      BY <2>3 DEF DirectMsol
    <3>3. \A i \in Jars :
             /\ position'[i][Marinade] >= position[i][Marinade]
             /\ \A bank \in Banks : position'[i][bank] = position[i][bank]
      BY <1>2, <3>1, <3>2 DEF Venues
    <3>4. QED
      BY <1>2, <2>3, <3>3 DEF DirectMsol, Aside
  <2>4. QED
    BY <1>5, <2>1, <2>2, <2>3 DEF EnvironmentNext
<1>6. CASE UNCHANGED jarVars
  BY <1>2, <1>6 DEF jarVars, Aside
<1>7. QED
  BY <1>3, <1>4, <1>5, <1>6 DEF Next, vars

LEMMA LentStep == Inv /\ LentIsUsdc /\ [Next]_vars => LentIsUsdc'
<1> SUFFICES ASSUME Inv, LentIsUsdc, [Next]_vars PROVE LentIsUsdc'
  OBVIOUS
<1>1. CASE Aside
  BY <1>1 DEF Aside, LentIsUsdc
<1>2. CASE Created
  <2>1. PICK o \in Owners, type \in {"Flexible", "TimeLocked"}, asset \in Assets,
             unlock \in 0 .. MaxNow, autoStake \in AutoStakeInputs :
          CreateJar(o, type, asset, unlock, autoStake)
    BY <1>2 DEF Created
  <2>2. asset \in {"Sol", "Usdc"} /\ autoStake \in BOOLEAN
    BY JarAssumption
  <2> DEFINE j == <<o, userState[o].jarCount>>
  <2>3. /\ jar'[j].stake = "MarginFiUsdc" => jar'[j].asset = "Usdc"
        /\ \A i \in Jars \ {j} : jar'[i] = jar[i]
    BY <2>1, <2>2, CreateMoves
  <2> HIDE DEF j
  <2>4. QED
    BY <2>3 DEF LentIsUsdc
<1>3. ASSUME NEW j \in Jars, JarStep(j) PROVE LentIsUsdc'
  <2>1. Frame(j) /\ (SameKind(jar'[j], jar[j]) \/ jar'[j] = NoJar)
    <3>1. \A amount \in Amounts : amount \in Nat
      BY JarAssumption
    <3>2. QED
      BY <1>3, <3>1, ContributeMoves, RefundMoves, WithdrawMoves, OtherMoves DEF JarStep
  <2>2. QED
    BY <2>1 DEF Frame, SameKind, LentIsUsdc, NoJar
<1>4. QED
  BY <1>1, <1>2, <1>3, StepCases

LEMMA AlwaysLent == Spec => [](Inv /\ LentIsUsdc)
<1>1. Init => LentIsUsdc
  BY DEF Init, LentIsUsdc, NoJar
<1>2. QED
  BY <1>1, InvInit, InvStep, LentStep, PTL DEF Spec

\* Money leaves a jar that stays by a withdrawal or a refund.
LEMMA Outflows ==
    ASSUME Inv, LentIsUsdc, [Next]_vars, NEW j \in Jars,
           funds'[j] < funds[j], jar'[j].status # "None"
    PROVE  \/ \E request \in Nat \union {WholeBalance} : Withdraw(j, request)
           \/ \E d \in Donors : Refund(j, d)
<1>0. \A i \in Jars : funds[i] \in Nat /\ funds'[i] \in Nat
  BY InvStep DEF Inv, JarTypeOK
<1>1. ~Aside
  BY <1>0 DEF Aside
<1>2. ~Created
  <2> SUFFICES ASSUME NEW o \in Owners, NEW type, NEW asset \in Assets, NEW unlock,
                      NEW autoStake \in AutoStakeInputs,
                      CreateJar(o, type, asset, unlock, autoStake)
               PROVE  FALSE
    BY DEF Created
  <2>1. funds' = funds
    BY DEF CreateJar
  <2>2. QED
    BY <1>0, <2>1
<1>3. PICK i \in Jars : JarStep(i)
  BY <1>1, <1>2, StepCases
<1>4. \A amount \in Amounts : amount \in Nat
  BY JarAssumption
<1>5. i = j
  <2>1. Frame(i)
    BY <1>3, <1>4, ContributeMoves, RefundMoves, WithdrawMoves, OtherMoves DEF JarStep
  <2>2. QED
    BY <1>0, <2>1 DEF Frame
<1>6. ~CancelJar(j) /\ ~CloseJar(j) /\ \A d \in Donors : ~CloseContribution(j, d)
  <2>1. funds'[j] # funds[j] /\ jar'[j] # NoJar
    BY <1>0 DEF NoJar
  <2>2. QED
    BY <2>1, OtherMoves
<1>7. \A d \in Donors, amount \in Amounts :
         ~ContributeSol(j, d, amount) /\ ~ContributeSpl(j, d, amount)
  BY <1>0, <1>4, ContributeMoves
<1>8. QED
  BY <1>3, <1>5, <1>6, <1>7 DEF JarStep

\* Before its unlock time a locked jar pays nobody but a donor it refunds.
THEOREM LockedMoneyIsSafe == Spec => LockedFundsMoveOnlyToDonors
<1> DEFINE Held == \A j \in Jars :
          jar[j].type = "TimeLocked" /\ now < jar[j].unlock
            /\ funds'[j] < funds[j] /\ jar'[j].status # "None" =>
              /\ jar[j].status = "Cancelled"
              /\ \E d \in Donors :
                    /\ Open(j)' = Open(j) \ {d}
                    /\ funds[j] - funds'[j] = contribution[j][d].amount
<1>1. Inv /\ LentIsUsdc /\ [Next]_vars => [Held]_vars
  <2> SUFFICES ASSUME Inv, LentIsUsdc, [Next]_vars, NEW j \in Jars,
                      jar[j].type = "TimeLocked", now < jar[j].unlock,
                      funds'[j] < funds[j], jar'[j].status # "None"
               PROVE  /\ jar[j].status = "Cancelled"
                      /\ \E d \in Donors :
                            /\ Open(j)' = Open(j) \ {d}
                            /\ funds[j] - funds'[j] = contribution[j][d].amount
    OBVIOUS
  <2>1. \A request : ~Withdraw(j, request)
    <3>1. jar[j].unlock \in Nat /\ now \in Nat
      BY RecordFields DEF Jar, Inv, JarTypeOK
    <3>2. ~MayWithdraw(j)
      BY <3>1 DEF MayWithdraw
    <3>3. QED
      BY <3>2 DEF Withdraw
  <2>2. PICK d \in Donors : Refund(j, d)
    BY <2>1, Outflows
  <2>3. /\ jar[j].status = "Cancelled"
        /\ contribution'[j] = [contribution[j] EXCEPT ![d] = NoContribution]
        /\ funds'[j] \in {funds[j], funds[j] - contribution[j][d].amount}
    BY <2>2, RefundMoves
  <2>4. funds[j] \in Nat /\ contribution[j] \in Contributions
    BY RecordFields
  <2>5. contribution[j][d].amount \in Nat
    BY <2>4 DEF Contributions, Contribution
  <2>6. funds[j] - funds'[j] = contribution[j][d].amount
    BY <2>3, <2>4, <2>5
  <2>7. Open(j)' = Open(j) \ {d}
    <3>1. /\ contribution'[j][d].version = 0
          /\ \A e \in Donors \ {d} : contribution'[j][e] = contribution[j][e]
      BY <2>3, <2>4 DEF Contributions, NoContribution
    <3>2. QED
      BY <3>1 DEF Open
  <2>8. QED
    BY <2>3, <2>6, <2>7
<1>2. QED
  BY <1>1, AlwaysLent, PTL DEF Spec, LockedFundsMoveOnlyToDonors

\* Scaling keeps an order.
LEMMA MulMonotone ==
    ASSUME NEW a \in Nat, NEW b \in Nat, NEW c \in Nat, a <= b
    PROVE  c * a <= c * b
<1>1. c * (b - a) >= 0
  BY MulNat
<1>2. c * (b - a) = c * b - c * a
  OBVIOUS
<1>3. c * a \in Nat /\ c * b \in Nat
  BY MulNat
<1>4. QED
  BY <1>1, <1>2, <1>3

LEMMA FeeIsCapped ==
    ASSUME ConfigInv, NEW gross \in Nat
    PROVE  /\ Fee(gross) \in Nat
           /\ Fee(gross) * BPS_DENOMINATOR <= gross * MAX_WITHDRAW_FEE_BPS
<1>1. /\ FeeBps \in Nat /\ FeeBps <= MAX_WITHDRAW_FEE_BPS
      /\ BPS_DENOMINATOR \in Nat \ {0} /\ MAX_WITHDRAW_FEE_BPS \in Nat
  BY ConfigNat, ConfigAssumption, JarAssumption
  DEF FeeBps, ConfigInv, FeesNeverExceedCaps
<1> DEFINE m == gross * FeeBps
           q == m \div BPS_DENOMINATOR
<1>2. m \in Nat /\ m <= gross * MAX_WITHDRAW_FEE_BPS
  BY <1>1, MulNat, MulMonotone
<1>3. q \in Nat /\ Fee(gross) = q
  BY <1>1, <1>2, DivNat DEF Fee
<1> HIDE DEF m
<1>4. q * BPS_DENOMINATOR <= m
  BY <1>1, <1>2
<1> HIDE DEF q
<1>5. q * BPS_DENOMINATOR \in Nat /\ gross * MAX_WITHDRAW_FEE_BPS \in Nat
  BY <1>1, <1>3, MulNat
<1>6. QED
  BY <1>2, <1>3, <1>4, <1>5

\* What the treasury gets of a payout is the fee on what was paid out, be it
\* the jar's own money, its USDC at MarginFi or its SOL at Marinade.
PaidOut(j) ==
    \E gross \in Nat, fetched \in Fetched(j) :
        /\ gross = funds[j] + fetched - funds'[j]
        /\ FeeTaken = Fee(gross)

LEMMA PayOwnerPays ==
    ASSUME Inv, LedgerTypeOK, NEW j \in Jars, NEW r, NEW fetched \in Nat,
           fetched \in Fetched(j), r.totalContributed \in Nat,
           NEW request \in Nat \union {WholeBalance},
           PayOwner(j, r, funds[j] + fetched, request)
    PROVE  PaidOut(j)
<1> DEFINE held == funds[j] + fetched
           balance == Least(held, r.totalContributed)
           gross == IF request = WholeBalance THEN balance ELSE request
<1>1. funds[j] \in Nat /\ held \in Nat
  BY RecordFields
<1>2. gross \in Nat
  BY <1>1 DEF Least
<1>3. funds' = [funds EXCEPT ![j] = held - gross]
  BY DEF PayOwner
<1>4. funds'[j] = held - gross
  BY <1>3 DEF Inv, JarTypeOK
<1>5. Fee(gross) \in Nat /\ treasury \in Nat /\ treasuryUsdc \in Nat
  BY <1>2, ConfigNat DEF Inv, LedgerTypeOK
<1>6. \/ treasury' = treasury + Fee(gross) /\ treasuryUsdc' = treasuryUsdc
      \/ treasuryUsdc' = treasuryUsdc + Fee(gross) /\ treasury' = treasury
  BY DEF PayOwner
<1> HIDE DEF gross
<1>7. gross = funds[j] + fetched - funds'[j] /\ FeeTaken = Fee(gross)
  BY <1>1, <1>2, <1>4, <1>5, <1>6 DEF FeeTaken
<1>8. QED
  BY <1>2, <1>7 DEF PaidOut

LEMMA WithdrawPays ==
    ASSUME Inv, LedgerTypeOK, NEW j \in Jars,
           NEW request \in Nat \union {WholeBalance}, Withdraw(j, request)
    PROVE  PaidOut(j)
<1>1. /\ jar[j] \in Jar /\ jar[j].totalContributed \in Nat
      /\ jar[j].sharesTotal \in Nat /\ funds[j] \in Nat
  BY RecordFields DEF Jar
<1>2. CASE WithdrawMarginFi(j, request)
  <2>1. PICK bank \in Banks, p \in Prices :
          /\ position' = [position EXCEPT ![j][bank] = 0]
          /\ PayOwner(j, [ jar[j] EXCEPT !.sharesTotal = 0, !.totalContributed =
                             funds[j] + UsdcFor(position[j][bank], p) ],
                      funds[j] + UsdcFor(position[j][bank], p), request)
    BY <1>2 DEF WithdrawMarginFi
  <2> DEFINE fetched == UsdcFor(position[j][bank], p)
             r == [ jar[j] EXCEPT !.sharesTotal = 0,
                                  !.totalContributed = funds[j] + fetched ]
  <2>2. bank \in Venues /\ position[j][bank] \in Nat
    BY PositionTyped DEF Inv, Venues
  <2>3. fetched \in Nat
    BY <2>2, VenuesNat
  <2>4. fetched \in Fetched(j)
    <3>1. position'[j][bank] = 0
      BY <2>1, <2>2 DEF Inv, JarTypeOK
    <3>2. position[j][bank] - position'[j][bank] = position[j][bank]
      BY <2>2, <3>1
    <3>3. QED
      BY <3>2 DEF Fetched
  <2>5. r.totalContributed = funds[j] + fetched /\ r.totalContributed \in Nat
    BY <1>1, <2>3 DEF Jar
  <2>6. PayOwner(j, r, funds[j] + fetched, request)
    BY <2>1
  <2> HIDE DEF fetched, r
  <2>7. QED
    BY <2>3, <2>4, <2>5, <2>6, PayOwnerPays
<1>3. CASE WithdrawMarinade(j)
  <2>1. PICK p \in Prices :
          /\ position[j][Marinade] >= jar[j].sharesTotal
          /\ treasury' = treasury + Fee(SolFor(jar[j].sharesTotal, p))
          /\ position' = [position EXCEPT ![j][Marinade] =
                             position[j][Marinade] - jar[j].sharesTotal]
          /\ UNCHANGED <<funds, treasuryUsdc>>
    BY <1>3 DEF WithdrawMarinade
  <2> DEFINE gross == SolFor(jar[j].sharesTotal, p)
  <2>2. gross \in Nat
    BY <1>1, VenuesNat
  <2>3. gross \in Fetched(j)
    <3>1. position[j][Marinade] \in Nat
      BY PositionTyped DEF Inv, Venues
    <3>2. position'[j][Marinade] = position[j][Marinade] - jar[j].sharesTotal
      BY <2>1 DEF Inv, JarTypeOK, Venues
    <3>3. position[j][Marinade] - position'[j][Marinade] = jar[j].sharesTotal
      BY <1>1, <3>1, <3>2
    <3>4. QED
      BY <3>3 DEF Fetched
  <2>4. Fee(gross) \in Nat /\ treasury \in Nat /\ treasuryUsdc \in Nat
    BY <2>2, ConfigNat DEF Inv, LedgerTypeOK
  <2>5. treasury' = treasury + Fee(gross)
    BY <2>1
  <2> HIDE DEF gross
  <2>6. gross = funds[j] + gross - funds'[j] /\ FeeTaken = Fee(gross)
    BY <1>1, <2>1, <2>2, <2>4, <2>5 DEF FeeTaken
  <2>7. QED
    BY <2>2, <2>3, <2>6 DEF PaidOut
<1>4. CASE PayOwner(j, jar[j], funds[j], request)
  <2>1. PICK fetched \in Nat : fetched = 0
    OBVIOUS
  <2>2. fetched \in Fetched(j) /\ funds[j] + fetched = funds[j]
    BY <1>1, <2>1 DEF Fetched
  <2>3. QED
    BY <1>1, <1>4, <2>2, PayOwnerPays
<1>5. QED
  BY <1>2, <1>3, <1>4 DEF Withdraw

\* No other instruction on an existing jar brings the treasury anything.
LEMMA FeesAreOfPayouts ==
    ASSUME Inv, LedgerTypeOK, LentIsUsdc, [Next]_vars, NEW j \in Jars,
           jar[j].status # "None", jar'[j] # jar[j], FeeTaken > 0
    PROVE  PaidOut(j)
<1>1. ~Aside
  BY DEF Aside
<1>2. ~Created
  <2> SUFFICES ASSUME NEW o \in Owners, NEW type \in {"Flexible", "TimeLocked"},
                      NEW asset \in Assets, NEW unlock \in 0 .. MaxNow,
                      NEW autoStake \in AutoStakeInputs,
                      CreateJar(o, type, asset, unlock, autoStake)
               PROVE  FALSE
    BY DEF Created
  <2>1. asset \in {"Sol", "Usdc"} /\ autoStake \in BOOLEAN
    BY JarAssumption
  <2> DEFINE i == <<o, userState[o].jarCount>>
  <2>2. jar[i].status = "None" /\ \A k \in Jars \ {i} : jar'[k] = jar[k]
    BY <2>1, CreateMoves
  <2> HIDE DEF i
  <2>3. QED
    BY <2>2
<1>3. PICK i \in Jars : JarStep(i)
  BY <1>1, <1>2, StepCases
<1>4. \A amount \in Amounts : amount \in Nat
  BY JarAssumption
<1>5. i = j
  <2>1. Frame(i)
    BY <1>3, <1>4, ContributeMoves, RefundMoves, WithdrawMoves, OtherMoves DEF JarStep
  <2>2. QED
    BY <2>1 DEF Frame
<1>6. ~(treasury' = treasury /\ treasuryUsdc' = treasuryUsdc)
  BY ConfigNat DEF Inv, LedgerTypeOK, FeeTaken
<1>7. ~CancelJar(j) /\ ~CloseJar(j)
  BY <1>6 DEF CancelJar, CloseJar
<1>8. \A d \in Donors : ~Refund(j, d) /\ ~CloseContribution(j, d)
  BY <1>6 DEF Refund, PaidRefund, CloseContribution
<1>9. \A d \in Donors, amount \in Amounts :
         ~ContributeSol(j, d, amount) /\ ~ContributeSpl(j, d, amount)
  BY <1>6 DEF ContributeSol, ContributeSpl
<1>10. PICK request \in Nat \union {WholeBalance} : Withdraw(j, request)
  BY <1>3, <1>5, <1>7, <1>8, <1>9 DEF JarStep
<1>11. QED
  BY <1>10, WithdrawPays

\* Whatever a step on an existing jar brings the treasury, in SOL or USDC, is
\* within the compiled share of what that jar and its venue paid out.
THEOREM FeeStaysUnderCap == Spec => FeeWithinCap
<1> DEFINE Capped == \A j \in Jars :
          jar[j].status # "None" /\ jar'[j] # jar[j] /\ FeeTaken > 0 =>
              \E fetched \in Fetched(j) :
                  FeeTaken * BPS_DENOMINATOR <=
                      (funds[j] + fetched - funds'[j])
                          * MAX_WITHDRAW_FEE_BPS
<1>1. Inv /\ LedgerTypeOK /\ LentIsUsdc /\ [Next]_vars => [Capped]_vars
  <2> SUFFICES ASSUME Inv, LedgerTypeOK, LentIsUsdc, [Next]_vars, NEW j \in Jars,
                      jar[j].status # "None", jar'[j] # jar[j], FeeTaken > 0
               PROVE  \E fetched \in Fetched(j) :
                         FeeTaken * BPS_DENOMINATOR <=
                             (funds[j] + fetched - funds'[j])
                                 * MAX_WITHDRAW_FEE_BPS
    OBVIOUS
  <2>1. PICK gross \in Nat, fetched \in Fetched(j) :
          /\ gross = funds[j] + fetched - funds'[j]
          /\ FeeTaken = Fee(gross)
    BY FeesAreOfPayouts DEF PaidOut
  <2>2. Fee(gross) * BPS_DENOMINATOR <= gross * MAX_WITHDRAW_FEE_BPS
    BY FeeIsCapped DEF Inv
  <2>3. QED
    BY <2>1, <2>2
<1>2. QED
  BY <1>1, AlwaysLent, AlwaysLedgers, PTL DEF Spec, FeeWithinCap

---------------------------------------------------------------------------
(* The instructions implement the escrow.                                  *)

PhaseMap == [j \in Jars |-> jar[j].status]
LockMap == [j \in Jars |-> jar[j].unlock]
PledgeMap == [j \in Jars |-> [d \in Donors |-> contribution[j][d].amount]]
RetiredSet == {j \in Jars : /\ jar[j].status = "None"
                            /\ j[2] < userState[j[1]].jarCount}

Repledged(j, d, n) == PledgeMap' = [PledgeMap EXCEPT ![j][d] = n]

\* The escrow's actions, told of these maps.
LEMMA EscrowActions ==
    /\ \A j, t : Escrow!Open(j, t) <=>
         /\ PhaseMap[j] = "None" /\ j \notin RetiredSet /\ (t = 0 \/ t > now)
         /\ PhaseMap' = [PhaseMap EXCEPT ![j] = "Active"]
         /\ LockMap' = [LockMap EXCEPT ![j] = t]
         /\ UNCHANGED <<now, PledgeMap, RetiredSet>>
    /\ \A j, d, amount : Escrow!Pledge(j, d, amount) <=>
         /\ PhaseMap[j] = "Active" /\ amount > 0
         /\ Repledged(j, d, PledgeMap[j][d] + amount)
         /\ UNCHANGED <<now, PhaseMap, LockMap, RetiredSet>>
    /\ \A j : Escrow!Take(j) <=>
         /\ PhaseMap[j] = "Active" /\ now >= LockMap[j]
         /\ PhaseMap' = [PhaseMap EXCEPT ![j] = "Withdrawn"]
         /\ UNCHANGED <<now, LockMap, PledgeMap, RetiredSet>>
    /\ \A j : Escrow!CallOff(j) <=>
         /\ PhaseMap[j] = "Active" /\ now < LockMap[j]
         /\ PhaseMap' = [PhaseMap EXCEPT ![j] = "Cancelled"]
         /\ UNCHANGED <<now, LockMap, PledgeMap, RetiredSet>>
    /\ \A j, d : Escrow!Clear(j, d) <=>
         /\ PhaseMap[j] \in {"Withdrawn", "Cancelled"} /\ PledgeMap[j][d] > 0
         /\ Repledged(j, d, 0)
         /\ UNCHANGED <<now, PhaseMap, LockMap, RetiredSet>>
    /\ \A j : Escrow!Retire(j) <=>
         /\ PhaseMap[j] \in {"Withdrawn", "Cancelled"}
         /\ \A e \in Donors : PledgeMap[j][e] = 0
         /\ PhaseMap' = [PhaseMap EXCEPT ![j] = "None"]
         /\ LockMap' = [LockMap EXCEPT ![j] = 0]
         /\ RetiredSet' = RetiredSet \union {j}
         /\ UNCHANGED <<now, PledgeMap>>
    /\ Escrow!Elapse <=>
         /\ now' \in 0 .. MaxNow /\ now' > now
         /\ UNCHANGED <<PhaseMap, LockMap, PledgeMap, RetiredSet>>
    /\ UNCHANGED Escrow!escrowVars <=>
         UNCHANGED <<now, PhaseMap, LockMap, PledgeMap, RetiredSet>>
  BY DEF Escrow!Open, Escrow!Pledge, Escrow!Take, Escrow!CallOff, Escrow!Clear,
         Escrow!Retire, Escrow!Elapse, Escrow!escrowVars,
         PhaseMap, LockMap, PledgeMap, RetiredSet, Repledged

\* The maps after a step about one jar.
LEMMA MapsMove ==
    ASSUME Inv, NEW j \in Jars, Frame(j), userState' = userState
    PROVE  /\ PhaseMap' = [PhaseMap EXCEPT ![j] = jar'[j].status]
           /\ LockMap' = [LockMap EXCEPT ![j] = jar'[j].unlock]
           /\ PledgeMap' = [PledgeMap EXCEPT ![j] =
                               [d \in Donors |-> contribution'[j][d].amount]]
           /\ jar[j].status # "None" /\ jar'[j].status # "None" =>
                RetiredSet' = RetiredSet
           /\ jar[j].status # "None" /\ jar'[j].status = "None" =>
                RetiredSet' = RetiredSet \union {j}
<1>1. /\ PhaseMap' = [PhaseMap EXCEPT ![j] = jar'[j].status]
      /\ LockMap' = [LockMap EXCEPT ![j] = jar'[j].unlock]
  BY DEF Frame, PhaseMap, LockMap
<1>2. PledgeMap' = [PledgeMap EXCEPT ![j] =
                      [d \in Donors |-> contribution'[j][d].amount]]
  BY DEF Frame, PledgeMap
<1>3. jar[j].status # "None" => j[2] < userState[j[1]].jarCount
  BY DEF Inv, JarsInv
<1>4. QED
  BY <1>1, <1>2, <1>3 DEF Frame, RetiredSet

\* The pledges after a step that moves one donor's.
LEMMA PledgeMoves ==
    ASSUME Inv, NEW j \in Jars, Frame(j), NEW d \in Donors, NEW n,
           \A e \in Donors : contribution'[j][e].amount =
               IF e = d THEN n ELSE contribution[j][e].amount
    PROVE  Repledged(j, d, n)
<1> DEFINE g == [e \in Donors |-> contribution[j][e].amount]
           h == [e \in Donors |-> contribution'[j][e].amount]
<1>1. h = [g EXCEPT ![d] = n]
  OBVIOUS
<1>2. PledgeMap[j] = g
  BY DEF PledgeMap
<1>3. PledgeMap' = [PledgeMap EXCEPT ![j] = h]
  BY DEF Frame, PledgeMap
<1> HIDE DEF g, h
<1>4. PledgeMap' = [PledgeMap EXCEPT ![j] = [PledgeMap[j] EXCEPT ![d] = n]]
  BY <1>1, <1>2, <1>3
<1>5. QED
  BY <1>4 DEF Repledged

LEMMA MapsInit == Init => Escrow!EscrowInit
<1> SUFFICES ASSUME Init PROVE Escrow!EscrowInit
  OBVIOUS
<1>1. \A j \in Jars : /\ jar[j] = NoJar /\ j[2] \in Nat
                      /\ userState[j[1]].jarCount = 0
                      /\ \A d \in Donors : contribution[j][d] = NoContribution
  BY JarAssumption DEF Init, Jars
<1>2. \A j \in Jars : /\ jar[j].status = "None" /\ jar[j].unlock = 0
                      /\ ~(j[2] < userState[j[1]].jarCount)
                      /\ \A d \in Donors : contribution[j][d].amount = 0
  BY <1>1 DEF NoJar, NoContribution
<1>3. now = 0
  BY DEF Init
<1>4. QED
  BY <1>2, <1>3 DEF Escrow!EscrowInit

LEMMA AsideMaps ==
    ASSUME Inv, Aside
    PROVE  Escrow!Elapse \/ UNCHANGED Escrow!escrowVars
<1>1. UNCHANGED <<PhaseMap, LockMap, PledgeMap>>
  BY DEF Aside, PhaseMap, LockMap, PledgeMap
<1>2. CASE UNCHANGED userState
  <2>1. UNCHANGED RetiredSet
    BY <1>2 DEF Aside, RetiredSet
  <2>2. now \in Nat /\ MaxNow \in Nat
    BY JarAssumption DEF Inv, JarTypeOK
  <2>3. now' = now \/ (now' \in 0 .. MaxNow /\ now' > now)
    BY <2>2 DEF Aside
  <2>4. QED
    BY <1>1, <2>1, <2>3, EscrowActions
<1>3. ASSUME NEW o \in Owners, userState[o].jarCount = 0, UNCHANGED now,
             userState' = [userState EXCEPT ![o] = [version |-> 1, jarCount |-> 0]]
      PROVE  UNCHANGED Escrow!escrowVars
  <2>1. \A q \in Owners : userState'[q].jarCount = userState[q].jarCount
    BY <1>3 DEF Inv, JarTypeOK
  <2>2. \A j \in Jars : j[1] \in Owners
    BY DEF Jars
  <2>3. UNCHANGED RetiredSet
    BY <2>1, <2>2 DEF Aside, RetiredSet
  <2>4. QED
    BY <1>1, <1>3, <2>3, EscrowActions
<1>4. QED
  BY <1>2, <1>3 DEF Aside

LEMMA CreatedMaps ==
    ASSUME Inv, Created
    PROVE  \E j \in Jars, t \in 0 .. MaxNow : Escrow!Open(j, t)
<1>1. PICK o \in Owners, type \in {"Flexible", "TimeLocked"}, asset \in Assets,
           unlock \in 0 .. MaxNow, autoStake \in AutoStakeInputs :
        CreateJar(o, type, asset, unlock, autoStake)
  BY DEF Created
<1>2. asset \in {"Sol", "Usdc"} /\ autoStake \in BOOLEAN
  BY JarAssumption
<1> DEFINE n == userState[o].jarCount
           j == <<o, n>>
<1>3. /\ j \in Jars /\ jar[j].status = "None"
      /\ jar'[j].status = "Active" /\ jar'[j].unlock = unlock
      /\ unlock = 0 \/ now < unlock
      /\ \A i \in Jars \ {j} : jar'[i] = jar[i]
      /\ userState' = [userState EXCEPT ![o].jarCount = n + 1]
      /\ UNCHANGED <<now, contribution>>
  BY <1>1, <1>2, CreateMoves
<1>4. userState \in [Owners -> UserState] /\ now \in Nat
  BY DEF Inv, JarTypeOK
<1>5. n \in Nat /\ userState'[o].jarCount = n + 1
      /\ \A q \in Owners \ {o} : userState'[q] = userState[q]
  BY <1>3, <1>4 DEF UserState
<1>6. \A i \in Jars : /\ i[1] \in Owners /\ i[2] \in Nat
                      /\ i = <<i[1], i[2]>>
  BY JarAssumption DEF Jars
<1>7. j \notin RetiredSet
  BY <1>4 DEF RetiredSet, UserState
<1>8. RetiredSet' = RetiredSet
  <2>1. ASSUME NEW i \in Jars, i # j
        PROVE  i[2] < userState'[i[1]].jarCount <=> i[2] < userState[i[1]].jarCount
    <3>1. CASE i[1] = o
      <4>1. i[2] # n
        BY <1>6, <2>1, <3>1
      <4>2. QED
        BY <1>5, <1>6, <3>1, <4>1
    <3>2. CASE i[1] # o
      BY <1>5, <1>6, <3>2
    <3>3. QED
      BY <3>1, <3>2
  <2> HIDE DEF j
  <2>2. QED
    BY <1>3, <1>7, <2>1 DEF RetiredSet
<1> HIDE DEF j
<1>9. /\ PhaseMap' = [PhaseMap EXCEPT ![j] = "Active"]
      /\ LockMap' = [LockMap EXCEPT ![j] = unlock]
      /\ PledgeMap' = PledgeMap
      /\ PhaseMap[j] = "None"
  BY <1>3 DEF PhaseMap, LockMap, PledgeMap
<1>10. unlock = 0 \/ unlock > now
  BY <1>3, <1>4
<1>11. Escrow!Open(j, unlock)
  BY <1>3, <1>7, <1>8, <1>9, <1>10, EscrowActions
<1>12. QED
  BY <1>3, <1>11

LEMMA JarStepMaps ==
    ASSUME Inv, LentIsUsdc, NEW j \in Jars, JarStep(j)
    PROVE  \/ UNCHANGED Escrow!escrowVars
           \/ Escrow!Take(j) \/ Escrow!CallOff(j) \/ Escrow!Retire(j)
           \/ \E d \in Donors : \/ \E amount \in Amounts : Escrow!Pledge(j, d, amount)
                                \/ Escrow!Clear(j, d)
<1>1. /\ jar[j] \in Jar /\ contribution[j] \in Contributions /\ now \in Nat
      /\ Consistent(jar[j], contribution[j], funds[j])
  BY RecordFields DEF Inv, JarTypeOK
<1>2. /\ PhaseMap[j] = jar[j].status /\ LockMap[j] = jar[j].unlock
      /\ PledgeMap[j] = [d \in Donors |-> contribution[j][d].amount]
      /\ PhaseMap = [PhaseMap EXCEPT ![j] = jar[j].status]
      /\ LockMap = [LockMap EXCEPT ![j] = jar[j].unlock]
      /\ PledgeMap = [PledgeMap EXCEPT ![j] =
                         [d \in Donors |-> contribution[j][d].amount]]
  BY DEF PhaseMap, LockMap, PledgeMap
<1>3. ASSUME NEW request \in Nat \union {WholeBalance}, Withdraw(j, request)
      PROVE  Escrow!Take(j) \/ UNCHANGED Escrow!escrowVars
  <2>1. /\ MayWithdraw(j) /\ jar'[j].status \in {"Active", "Withdrawn"}
        /\ Frame(j) /\ SameKind(jar'[j], jar[j])
        /\ UNCHANGED <<now, userState, contribution>>
    BY <1>3, WithdrawMoves
  <2>2. now >= jar[j].unlock
    BY <1>1, <2>1 DEF MayWithdraw, Consistent, Bookkept, Jar
  <2>3. UNCHANGED <<now, LockMap, PledgeMap, RetiredSet>>
    BY <1>2, <2>1, MapsMove DEF SameKind, MayWithdraw
  <2>4. PhaseMap' = [PhaseMap EXCEPT ![j] = jar'[j].status] /\ PhaseMap[j] = "Active"
    BY <1>2, <2>1, MapsMove DEF MayWithdraw
  <2>5. QED
    BY <1>2, <2>1, <2>2, <2>3, <2>4, EscrowActions
<1>4. ASSUME CancelJar(j) PROVE Escrow!CallOff(j)
  <2>1. /\ jar[j].status = "Active" /\ now < jar[j].unlock
        /\ Frame(j) /\ jar'[j].status = "Cancelled"
        /\ SameKind(jar'[j], jar[j])
        /\ UNCHANGED <<now, userState, contribution>>
    BY <1>4, OtherMoves
  <2>2. UNCHANGED <<now, LockMap, PledgeMap, RetiredSet>>
    BY <1>2, <2>1, MapsMove DEF SameKind
  <2>3. QED
    BY <1>2, <2>1, <2>2, MapsMove, EscrowActions
<1>5. ASSUME CloseJar(j) PROVE Escrow!Retire(j)
  <2>1. /\ Terminal(j) /\ Frame(j) /\ jar'[j].status = "None" /\ jar'[j].unlock = 0
        /\ UNCHANGED <<now, userState, contribution>>
    BY <1>5, OtherMoves DEF NoJar
  <2>2. \A d \in Donors : contribution[j][d].amount = 0
    <3>1. Cardinality(Claims(contribution[j])) = 0
      BY <1>1, <2>1 DEF Terminal, Consistent, Bookkept
    <3>2. Claims(contribution[j]) = {}
      BY <3>1, ClaimsFinite, FS_EmptySet
    <3>3. QED
      BY <1>1, <3>2 DEF Consistent, Bookkept, Claims, Contributions, Contribution
  <2>3. UNCHANGED <<now, PledgeMap>> /\ RetiredSet' = RetiredSet \union {j}
    BY <1>2, <2>1, MapsMove DEF Terminal
  <2>4. \A d \in Donors : PledgeMap[j][d] = 0
    BY <1>2, <2>2
  <2>5. /\ PhaseMap' = [PhaseMap EXCEPT ![j] = "None"]
        /\ LockMap' = [LockMap EXCEPT ![j] = 0]
    BY <2>1, MapsMove
  <2>6. QED
    BY <1>2, <2>1, <2>3, <2>4, <2>5, EscrowActions DEF Terminal
<1>6. ASSUME NEW d \in Donors, NEW amount \in Amounts,
             ContributeSol(j, d, amount) \/ ContributeSpl(j, d, amount)
      PROVE  Escrow!Pledge(j, d, amount)
  <2>1. amount \in Nat
    BY JarAssumption
  <2>2. /\ amount > 0 /\ jar[j].status = "Active" /\ jar'[j].status = "Active"
        /\ Frame(j) /\ SameKind(jar'[j], jar[j])
        /\ \E s : contribution'[j] =
               [contribution[j] EXCEPT ![d] =
                  [ version |-> 1, amount |-> contribution[j][d].amount + amount,
                    shares |-> s ]]
        /\ UNCHANGED <<now, userState>>
    BY <1>6, <2>1, ContributeMoves
  <2>3. \A e \in Donors : contribution'[j][e].amount =
           IF e = d THEN contribution[j][d].amount + amount ELSE contribution[j][e].amount
    BY <1>1, <2>2 DEF Contributions
  <2>4. Repledged(j, d, PledgeMap[j][d] + amount)
    <3> DEFINE n == PledgeMap[j][d] + amount
    <3>1. n = contribution[j][d].amount + amount
      BY <1>2
    <3> HIDE DEF n
    <3>2. \A e \in Donors : contribution'[j][e].amount =
             IF e = d THEN n ELSE contribution[j][e].amount
      BY <2>3, <3>1
    <3>3. Repledged(j, d, n)
      BY <2>2, <3>2, PledgeMoves
    <3>4. QED
      BY <3>3 DEF n
  <2>5. UNCHANGED <<now, PhaseMap, LockMap, RetiredSet>>
    BY <1>2, <2>2, MapsMove DEF SameKind
  <2>6. QED
    BY <1>2, <2>2, <2>4, <2>5, EscrowActions
<1>7. ASSUME NEW d \in Donors, Refund(j, d) \/ CloseContribution(j, d)
      PROVE  Escrow!Clear(j, d)
  <2>1. /\ jar[j].status \in {"Withdrawn", "Cancelled"}
        /\ jar'[j].status = jar[j].status
        /\ Frame(j) /\ SameKind(jar'[j], jar[j])
        /\ contribution'[j] = [contribution[j] EXCEPT ![d] = NoContribution]
        /\ contribution[j][d].amount > 0 \/ contribution[j][d].version = 1
        /\ UNCHANGED <<now, userState>>
    BY <1>7, RefundMoves, OtherMoves
  <2>2. contribution[j][d].amount > 0
    BY <1>1, <2>1 DEF Consistent, Bookkept
  <2>3. \A e \in Donors : contribution'[j][e].amount =
           IF e = d THEN 0 ELSE contribution[j][e].amount
    BY <1>1, <2>1 DEF Contributions, NoContribution
  <2>4. Repledged(j, d, 0)
    BY <2>1, <2>3, PledgeMoves
  <2>5. UNCHANGED <<now, PhaseMap, LockMap, RetiredSet>>
    BY <1>2, <2>1, MapsMove DEF SameKind
  <2>6. PledgeMap[j][d] > 0 /\ PhaseMap[j] \in {"Withdrawn", "Cancelled"}
    BY <1>2, <2>1, <2>2
  <2>7. QED
    BY <2>4, <2>5, <2>6, EscrowActions
<1>8. QED
  BY <1>3, <1>4, <1>5, <1>6, <1>7 DEF JarStep

\* For any donors, amounts, prices, fees and administrators the instructions do
\* nothing the escrow does not allow.
THEOREM KeepsTheEscrow == Spec => ImplementsEscrow
<1>1. Inv /\ LentIsUsdc /\ [Next]_vars => [Escrow!EscrowNext]_(Escrow!escrowVars)
  BY StepCases, AsideMaps, CreatedMaps, JarStepMaps DEF Escrow!EscrowNext
<1>2. QED
  BY <1>1, MapsInit, AlwaysLent, PTL DEF Spec, ImplementsEscrow, Escrow!EscrowSpec

---------------------------------------------------------------------------
(* The shares a jar records are held at its venue.                         *)

\* The shares a jar's contributions are owed, and the whole shares in its banks.
Owed(c) == SumOf([d \in Donors |-> c[d].shares])

Whole(p) == SumOf([bank \in Banks |-> WholeShares(p[bank])])

Positions == [Venues -> Nat]

\* One jar: what its record r says of its contributions c, its positions p and
\* the mSOL e that its contributors had minted elsewhere.
\* The program reads whole shares where the venue keeps fractions, so the bound
\* is about whole shares; a contribution that was not made has none.
Backed(r, c, p, e) ==
    /\ r.stake = "MarinadeSol" => r.sharesTotal <= p[Marinade] + e
    /\ r.stake = "MarginFiUsdc" => r.sharesTotal <= Whole(p)
    /\ r.type = "TimeLocked" /\ r.status \in {"Active", "Cancelled"} =>
          r.sharesTotal = Owed(c)
    /\ \A d \in Donors :
          c[d].version # 1 \/ r.stake = "None" => c[d].shares = 0

AllBacked ==
    \A j \in Jars : Backed(jar[j], contribution[j], position[j], elsewhere[j])

LEMMA OwedReplaced ==
    ASSUME NEW c \in Contributions, NEW d \in Donors, NEW a \in Contribution
    PROVE  LET c2 == [c EXCEPT ![d] = a]
           IN  /\ Owed(c2) = Owed(c) + a.shares - c[d].shares
               /\ Owed(c) \in Nat
<1> DEFINE c2 == [c EXCEPT ![d] = a]
           f == [e \in Donors |-> c[e].shares]
           g == [e \in Donors |-> c2[e].shares]
<1>1. c2 \in Contributions /\ c2[d] = a
      /\ \A e \in Donors \ {d} : c2[e] = c[e]
  BY DEF Contributions
<1>2. f \in [Donors -> Nat] /\ g \in [Donors -> Nat]
  BY <1>1 DEF Contributions, Contribution
<1>3. \A e \in Donors \ {d} : g[e] = f[e]
  BY <1>1
<1>4. IsFiniteSet(Donors)
  BY JarAssumption
<1>5. g[d] = a.shares /\ f[d] = c[d].shares
  BY <1>1
<1>6. SumOf(g) = SumOf(f) + g[d] - f[d]
  BY <1>2, <1>3, <1>4, SumChange
<1>7. SumOf(f) \in Nat
  BY <1>2, <1>4, SumNat
<1>8. QED
  BY <1>5, <1>6, <1>7 DEF Owed

LEMMA OwedNothing ==
    ASSUME NEW c, \A d \in Donors : c[d].shares = 0
    PROVE  Owed(c) = 0
<1> DEFINE f == [d \in Donors |-> c[d].shares]
<1>1. f \in [Donors -> Nat] /\ \A d \in Donors : f[d] = 0
  OBVIOUS
<1> HIDE DEF f
<1>2. SumOf(f) = 0
  BY <1>1, SumZero
<1>3. QED
  BY <1>2 DEF Owed, f

\* The whole shares after the position in one bank becomes n.
LEMMA WholeReplaced ==
    ASSUME NEW p \in Positions, NEW bank \in Banks, NEW n \in Nat
    PROVE  LET q == [p EXCEPT ![bank] = n]
           IN  /\ q \in Positions
               /\ Whole(q) = Whole(p) + WholeShares(n) - WholeShares(p[bank])
               /\ Whole(p) \in Nat
<1> DEFINE q == [p EXCEPT ![bank] = n]
           f == [b \in Banks |-> WholeShares(p[b])]
           g == [b \in Banks |-> WholeShares(q[b])]
<1>1. Banks \subseteq Venues /\ IsFiniteSet(Banks)
  BY JarAssumption DEF Venues
<1>2. q \in Positions /\ q[bank] = n
      /\ \A b \in Banks \ {bank} : q[b] = p[b]
  BY <1>1 DEF Positions
<1>3. \A m \in Nat : WholeShares(m) \in Nat
  BY JarAssumption, DivNat DEF WholeShares
<1>4. f \in [Banks -> Nat] /\ g \in [Banks -> Nat]
  BY <1>1, <1>2, <1>3 DEF Positions
<1>5. \A b \in Banks \ {bank} : g[b] = f[b]
  BY <1>2
<1>6. g[bank] = WholeShares(n) /\ f[bank] = WholeShares(p[bank])
  BY <1>2
<1>7. SumOf(g) = SumOf(f) + g[bank] - f[bank]
  BY <1>1, <1>4, <1>5, SumChange
<1>8. SumOf(f) \in Nat
  BY <1>1, <1>4, SumNat
<1>9. QED
  BY <1>2, <1>6, <1>7, <1>8 DEF Whole

\* A gift of shares that its venue minted.
LEMMA CreditBacked ==
    ASSUME NEW r \in Jar, NEW c \in Contributions, NEW p, NEW q,
           NEW e1 \in Nat, NEW e2 \in Nat,
           Backed(r, c, p, e1), r.status = "Active",
           p[Marinade] \in Nat, Whole(p) \in Nat, q[Marinade] \in Nat,
           NEW d \in Donors, NEW amount \in Nat, NEW shares \in Nat,
           r.stake = "None" => shares = 0,
           r.stake = "MarinadeSol" =>
              q[Marinade] + e2 = p[Marinade] + e1 + shares,
           r.stake = "MarginFiUsdc" => Whole(q) = Whole(p) + shares
    PROVE  Backed(RecordAfter(r, c, d, amount, shares),
                  After(c, d, amount, shares), q, e2)
<1> DEFINE a == [ version |-> 1, amount |-> c[d].amount + amount,
                  shares |-> c[d].shares + shares ]
           r2 == RecordAfter(r, c, d, amount, shares)
           c2 == After(c, d, amount, shares)
<1>1. c[d] \in Contribution /\ c[d].shares \in Nat /\ c[d].amount \in Nat
  BY DEF Contributions, Contribution
<1>2. a \in Contribution
  BY <1>1 DEF Contribution
<1>3. Owed(c2) = Owed(c) + shares /\ Owed(c) \in Nat
  <2>1. Owed([c EXCEPT ![d] = a]) = Owed(c) + a.shares - c[d].shares
        /\ Owed(c) \in Nat
    BY <1>2, OwedReplaced
  <2>2. QED
    BY <1>1, <2>1 DEF After
<1>4. c2[d] = a /\ \A e \in Donors \ {d} : c2[e] = c[e]
  BY DEF After, Contributions
<1>5. /\ r2.stake = r.stake /\ r2.type = r.type /\ r2.status = r.status
      /\ r2.sharesTotal = r.sharesTotal + shares /\ r.sharesTotal \in Nat
  BY DEF RecordAfter, Credited, Jar
<1> HIDE DEF r2, c2
<1>6. \A e \in Donors : c2[e].version # 1 \/ r2.stake = "None" => c2[e].shares = 0
  BY <1>1, <1>4, <1>5 DEF Backed
<1>7. Backed(r2, c2, q, e2)
  BY <1>3, <1>5, <1>6 DEF Backed
<1>8. QED
  BY <1>7 DEF r2, c2

\* A refund that takes no more shares from the venue than the donor's.
LEMMA DebitBacked ==
    ASSUME NEW r \in Jar, NEW c \in Contributions, NEW p, NEW q,
           NEW e1 \in Nat,
           Backed(r, c, p, e1), r.status = "Cancelled", r.type = "TimeLocked",
           p[Marinade] \in Nat, Whole(p) \in Nat,
           NEW d \in Donors, NEW amount, NEW shares, shares = c[d].shares,
           r.sharesTotal >= shares,
           q[Marinade] \in Nat, Whole(q) \in Nat,
           r.stake = "MarinadeSol" => q[Marinade] + shares >= p[Marinade],
           r.stake = "MarginFiUsdc" => Whole(q) + shares >= Whole(p)
    PROVE  Backed(Debited(r, amount, shares), Cleared(c, d), q, e1)
<1> DEFINE r2 == Debited(r, amount, shares)
           c2 == Cleared(c, d)
<1>1. c[d] \in Contribution /\ shares \in Nat
  BY DEF Contributions, Contribution
<1>2. NoContribution \in Contribution /\ NoContribution.shares = 0
  BY DEF Contribution, NoContribution
<1>3. Owed(c2) = Owed(c) - shares /\ Owed(c) \in Nat
  <2>1. Owed(c2) = Owed(c) + NoContribution.shares - c[d].shares
        /\ Owed(c) \in Nat
    BY <1>2, OwedReplaced DEF Cleared
  <2>2. QED
    BY <1>1, <1>2, <2>1
<1>4. c2[d] = NoContribution /\ \A e \in Donors \ {d} : c2[e] = c[e]
  BY DEF Cleared, Contributions
<1>5. /\ r2.stake = r.stake /\ r2.type = r.type /\ r2.status = r.status
      /\ r2.sharesTotal = r.sharesTotal - shares /\ r.sharesTotal \in Nat
  BY DEF Debited, Jar
<1> HIDE DEF r2, c2
<1>6. \A e \in Donors : c2[e].version # 1 \/ r2.stake = "None" => c2[e].shares = 0
  BY <1>2, <1>4, <1>5 DEF Backed
<1>7. Backed(r2, c2, q, e1)
  BY <1>1, <1>3, <1>5, <1>6 DEF Backed
<1>8. QED
  BY <1>7 DEF r2, c2

\* A jar that is paid out, and accounts closed after that.
LEMMA SettledBacked ==
    ASSUME NEW r, NEW c, NEW p, NEW r2, NEW c2, NEW q, NEW e1 \in Nat,
           Backed(r, c, p, e1), r2.stake = r.stake, r2.type = r.type,
           \/ r2.sharesTotal = 0 /\ q[Marinade] \in Nat /\ Whole(q) >= 0
           \/ r2.sharesTotal = r.sharesTotal /\ q = p,
           r.type = "TimeLocked" => r2.status = "Withdrawn",
           \A d \in Donors : c2[d] = c[d] \/ c2[d].shares = 0
    PROVE  Backed(r2, c2, q, e1)
  BY DEF Backed

\* A multiple cancels from an order.
LEMMA MulCancel ==
    ASSUME NEW a \in Nat, NEW b \in Nat, NEW c \in Nat \ {0}, a * c <= b * c
    PROVE  a <= b
<1> SUFFICES ASSUME b + 1 <= a PROVE FALSE
  OBVIOUS
<1>1. c * (b + 1) <= c * a
  BY MulMonotone
<1>2. c * (b + 1) = b * c + c /\ c * a = a * c
  OBVIOUS
<1>3. a * c \in Nat /\ b * c \in Nat
  BY MulNat
<1>4. QED
  BY <1>1, <1>2, <1>3

\* MarginFi never burns more than the shares whose worth it pays out.
LEMMA BurnsAtMost ==
    ASSUME NEW n \in Nat, NEW p \in Prices
    PROVE  FineSharesFor(UsdcFor(n * SharesScale, p), p) <= n * SharesScale
<1> DEFINE m == n * SharesScale
           one == SharesScale * PriceOne
           payout == (m * p) \div one
           worth == payout * SharesScale * PriceOne
           burned == worth \div p
<1>1. /\ p \in Nat \ {0} /\ PriceOne \in Nat \ {0} /\ SharesScale \in Nat \ {0}
      /\ one \in Nat \ {0}
  BY JarAssumption
<1>2. m \in Nat /\ m * p \in Nat
  BY <1>1, MulNat
<1>3. payout \in Nat
  BY <1>1, <1>2, DivNat
<1>4. payout * one <= m * p
  <2> HIDE DEF m, one
  <2> DEFINE a == m * p
  <2>1. a \in Nat
    BY <1>2
  <2> HIDE DEF a
  <2>2. (a \div one) * one <= a
    BY <1>1, <2>1
  <2>3. QED
    BY <2>2 DEF a
<1> HIDE DEF payout
<1>5. worth = payout * one
  BY <1>1, <1>3
<1>6. worth \in Nat
  BY <1>1, <1>3, MulNat
<1> HIDE DEF worth
<1>7. burned \in Nat /\ burned * p <= worth
  BY <1>1, <1>6, DivNat
<1> HIDE DEF burned, one, m
<1>8. burned * p <= m * p
  <2>1. burned * p \in Nat
    BY <1>1, <1>7, MulNat
  <2>2. QED
    BY <1>2, <1>4, <1>5, <1>6, <1>7, <2>1
<1>9. burned <= m
  BY <1>1, <1>2, <1>7, <1>8, MulCancel
<1>10. QED
  BY <1>9 DEF FineSharesFor, UsdcFor, burned, worth, payout, one, m

\* Taking at most n shares' fractions takes at most n whole shares.
LEMMA WholeDrops ==
    ASSUME NEW a \in Nat, NEW b \in Nat, NEW n \in Nat,
           b <= a, b <= n * SharesScale
    PROVE  WholeShares(a - b) + n >= WholeShares(a)
<1> DEFINE s == SharesScale
           v == a \div s
           w == (a - b) \div s
<1>1. s \in Nat \ {0} /\ a - b \in Nat
  BY JarAssumption
<1> HIDE DEF s
<1>2. v \in Nat /\ w \in Nat
  BY <1>1, DivNat
<1>3. v * s <= a
  BY <1>1
<1>4. a - b < (w + 1) * s
  <2> DEFINE k == a - b
  <2>1. k \in Nat
    BY <1>1
  <2> HIDE DEF k
  <2>2. k < (k \div s + 1) * s
    BY <1>1, <2>1
  <2>3. QED
    BY <2>2 DEF k
<1> HIDE DEF v, w
<1>5. (w + 1) * s + n * s = (w + n + 1) * s
  BY <1>1, <1>2
<1>6. /\ v * s \in Nat /\ n * s \in Nat /\ (w + 1) * s \in Nat
      /\ (w + n + 1) * s \in Nat
  BY <1>1, <1>2, MulNat
<1>7. b <= n * s
  BY DEF s
<1>8. v * s <= (w + n + 1) * s /\ v * s # (w + n + 1) * s
  BY <1>3, <1>4, <1>5, <1>6, <1>7
<1>9. v <= w + n + 1
  BY <1>1, <1>2, <1>8, MulCancel
<1>10. v # w + n + 1
  BY <1>8
<1>11. QED
  BY <1>2, <1>9, <1>10 DEF WholeShares, v, w, s

\* Whole shares only grow with the fractions.
LEMMA WholeRises ==
    ASSUME NEW a \in Nat, NEW b \in Nat
    PROVE  WholeShares(a + b) - WholeShares(a) \in Nat
<1>1. SharesScale \in Nat \ {0} /\ a + b \in Nat
  BY JarAssumption
<1>2. WholeShares(a) <= WholeShares(a + b)
  BY <1>1, DivMonotone DEF WholeShares
<1>3. WholeShares(a) \in Nat /\ WholeShares(a + b) \in Nat
  BY <1>1, DivNat DEF WholeShares
<1>4. QED
  BY <1>2, <1>3

LEMMA WholeNat ==
    ASSUME NEW p \in Positions
    PROVE  Whole(p) \in Nat
<1> DEFINE f == [b \in Banks |-> WholeShares(p[b])]
<1>1. \A m \in Nat : WholeShares(m) \in Nat
  BY JarAssumption, DivNat DEF WholeShares
<1>2. f \in [Banks -> Nat]
  BY <1>1 DEF Positions, Venues
<1>3. IsFiniteSet(Banks)
  BY JarAssumption
<1>4. SumOf(f) \in Nat
  BY <1>2, <1>3, SumNat
<1>5. QED
  BY <1>4 DEF Whole

\* The positions of the jar that an instruction names, and of the others.
LEMMA PositionFacts ==
    ASSUME JarTypeOK, NEW j \in Jars
    PROVE  /\ position[j] \in Positions
           /\ position[j][Marinade] \in Nat /\ Whole(position[j]) \in Nat
           /\ position' = position => /\ position'[j] = position[j]
                                      /\ \A i \in Jars \ {j} :
                                            position'[i] = position[i]
           /\ \A v \in Venues : \A n : position' = [position EXCEPT ![j][v] = n] =>
                 /\ position'[j] = [position[j] EXCEPT ![v] = n]
                 /\ \A i \in Jars \ {j} : position'[i] = position[i]
<1>1. position[j] \in Positions /\ position \in [Jars -> Positions]
  BY DEF JarTypeOK, Positions
<1>2. position[j][Marinade] \in Nat
  BY <1>1 DEF Positions, Venues
<1>3. Whole(position[j]) \in Nat
  BY <1>1, WholeNat
<1>4. QED
  BY <1>1, <1>2, <1>3

\* A contribution is credited the shares its venue minted for it.
LEMMA ContributeBacks ==
    ASSUME Inv, LedgerTypeOK, LentIsUsdc, AllBacked, NEW j \in Jars, NEW d \in Donors,
           NEW amount \in Nat,
           ContributeSol(j, d, amount) \/ ContributeSpl(j, d, amount)
    PROVE  /\ Backed(jar'[j], contribution'[j], position'[j], elsewhere'[j])
           /\ \A i \in Jars \ {j} : /\ position'[i] = position[i]
                                    /\ elsewhere'[i] = elsewhere[i]
<1> DEFINE p == position[j]
           q == position'[j]
           e == elsewhere[j]
           f == elsewhere'[j]
           Minted(shares) ==
             /\ q[Marinade] \in Nat /\ f \in Nat
             /\ jar[j].stake = "None" => shares = 0
             /\ jar[j].stake = "MarinadeSol" =>
                   q[Marinade] + f = p[Marinade] + e + shares
             /\ jar[j].stake = "MarginFiUsdc" => Whole(q) = Whole(p) + shares
           Others == \A i \in Jars \ {j} : /\ position'[i] = position[i]
                                           /\ elsewhere'[i] = elsewhere[i]
<1>1. /\ jar[j] \in Jar /\ contribution[j] \in Contributions
      /\ Backed(jar[j], contribution[j], p, e)
  BY RecordFields DEF AllBacked
<1>2. p \in Positions /\ p[Marinade] \in Nat /\ Whole(p) \in Nat /\ e \in Nat
  BY PositionFacts DEF Inv, LedgerTypeOK
<1>3. \E shares \in Nat : Credit(j, d, amount, shares) /\ Minted(shares) /\ Others
  <2>1. CASE /\ jar[j].stake = "None"
             /\ Credit(j, d, amount, 0) /\ UNCHANGED <<position, elsewhere>>
    BY <1>2, <2>1
  <2>2. ASSUME NEW price \in Prices, jar[j].stake = "MarinadeSol",
               MintMsol(j, MsolFor(amount, price)),
               Credit(j, d, amount, MsolFor(amount, price))
        PROVE  \E shares \in Nat : Credit(j, d, amount, shares) /\ Minted(shares)
                                    /\ Others
    <3> DEFINE shares == MsolFor(amount, price)
    <3>1. shares \in Nat
      BY VenuesNat
    <3>2. CASE position' = [position EXCEPT ![j][Marinade] = p[Marinade] + shares]
               /\ elsewhere' = elsewhere
      <4> DEFINE n == p[Marinade] + shares
      <4>1. position' = [position EXCEPT ![j][Marinade] = n]
        BY <3>2
      <4>2. n \in Nat
        BY <1>2, <3>1
      <4> HIDE DEF n
      <4>3. q = [position[j] EXCEPT ![Marinade] = n] /\ Others
        <5>1. /\ q = [position[j] EXCEPT ![Marinade] = n]
              /\ \A i \in Jars \ {j} : position'[i] = position[i]
          BY <4>1, PositionFacts DEF Inv, Venues
        <5>2. QED
          BY <3>2, <5>1
      <4>4. q[Marinade] = n
        BY <1>2, <4>3 DEF Positions, Venues
      <4>5. f = e
        BY <3>2
      <4> HIDE DEF p, q, e, f, shares
      <4>6. q[Marinade] + f = p[Marinade] + e + shares
        BY <1>2, <3>1, <4>4, <4>5 DEF n
      <4>7. Minted(shares)
        BY <1>2, <2>2, <4>2, <4>4, <4>5, <4>6
      <4>8. QED
        BY <2>2, <3>1, <4>3, <4>7 DEF shares
    <3>3. CASE elsewhere' = [elsewhere EXCEPT ![j] = e + shares]
               /\ position' = position
      <4>1. q = p /\ Others /\ f = e + shares
        BY <3>3 DEF LedgerTypeOK
      <4> HIDE DEF p, q, e, f, shares
      <4>2. f \in Nat
        BY <1>2, <3>1, <4>1
      <4>3. q[Marinade] + f = p[Marinade] + e + shares
        BY <1>2, <3>1, <4>1
      <4>4. Minted(shares)
        BY <1>2, <2>2, <4>1, <4>2, <4>3
      <4>5. QED
        BY <2>2, <3>1, <4>1, <4>4 DEF shares
    <3>4. QED
      BY <2>2, <3>2, <3>3 DEF MintMsol
  <2>3. ASSUME NEW bank \in Banks, NEW price \in Prices,
               jar[j].stake = "MarginFiUsdc",
               position' = [position EXCEPT ![j][bank] =
                                p[bank] + FineSharesFor(amount, price)],
               elsewhere' = elsewhere,
               Credit(j, d, amount,
                      WholeShares(p[bank] + FineSharesFor(amount, price))
                        - WholeShares(p[bank]))
        PROVE  \E shares \in Nat : Credit(j, d, amount, shares) /\ Minted(shares)
                                    /\ Others
    <3> DEFINE fine == FineSharesFor(amount, price)
               n == p[bank] + fine
               shares == WholeShares(n) - WholeShares(p[bank])
    <3>1. p[bank] \in Nat /\ fine \in Nat
      BY <1>2, VenuesNat DEF Positions, Venues
    <3>2. n \in Nat /\ shares \in Nat
      BY <3>1, WholeRises
    <3>3. position' = [position EXCEPT ![j][bank] = n]
      BY <2>3
    <3>4. Credit(j, d, amount, shares)
      BY <2>3
    <3>5. WholeShares(n) \in Nat /\ WholeShares(p[bank]) \in Nat
      BY <3>1, <3>2, JarAssumption, DivNat DEF WholeShares
    <3> HIDE DEF n
    <3>6. q = [p EXCEPT ![bank] = n] /\ Others /\ f = e
      <4>1. /\ q = [position[j] EXCEPT ![bank] = n]
            /\ \A i \in Jars \ {j} : position'[i] = position[i]
        BY <3>3, PositionFacts DEF Inv, Venues
      <4>2. QED
        BY <2>3, <4>1
    <3>7. q[Marinade] = p[Marinade]
      BY <1>2, <3>6, JarAssumption DEF Positions, Venues
    <3> HIDE DEF p, q, e, f
    <3>8. Whole(q) = Whole(p) + WholeShares(n) - WholeShares(p[bank])
      BY <1>2, <3>2, <3>6, WholeReplaced
    <3>9. Minted(shares)
      BY <1>2, <2>3, <3>5, <3>6, <3>7, <3>8
    <3>10. QED
      BY <3>2, <3>4, <3>6, <3>9
  <2>4. CASE ContributeSol(j, d, amount)
    <3>1. jar[j].stake # "MarginFiUsdc"
      BY <2>4 DEF ContributeSol, LentIsUsdc
    <3>2. jar[j].stake \in {"None", "MarinadeSol"}
      BY <1>1, <3>1 DEF Jar
    <3>3. QED
      BY <2>1, <2>2, <2>4, <3>2 DEF ContributeSol
  <2>5. CASE ContributeSpl(j, d, amount)
    BY <2>1, <2>3, <2>5 DEF ContributeSpl
  <2>6. QED
    BY <2>4, <2>5
<1>4. PICK shares \in Nat : Credit(j, d, amount, shares) /\ Minted(shares) /\ Others
  BY <1>3
<1> DEFINE r2 == RecordAfter(jar[j], contribution[j], d, amount, shares)
           c2 == After(contribution[j], d, amount, shares)
<1>5. jar'[j] = r2 /\ contribution'[j] = c2 /\ jar[j].status = "Active"
  <2>1. jar' = [jar EXCEPT ![j] = r2]
    BY <1>4 DEF Credit, RecordAfter, Newcomers
  <2>2. contribution' = [contribution EXCEPT ![j] = c2]
    <3>1. contribution' = [contribution EXCEPT ![j][d] =
                              [ version |-> 1,
                                amount |-> contribution[j][d].amount + amount,
                                shares |-> contribution[j][d].shares + shares ]]
      BY <1>4 DEF Credit
    <3>2. QED
      BY <3>1 DEF After
  <2> HIDE DEF r2, c2
  <2>3. jar \in [Jars -> Jar] /\ contribution \in [Jars -> [Donors -> Contribution]]
    BY DEF Inv, JarTypeOK
  <2>4. jar[j].status = "Active"
    BY DEF ContributeSol, ContributeSpl, MayContribute
  <2>5. QED
    BY <2>1, <2>2, <2>3, <2>4
<1> HIDE DEF p, q, e, f
<1>6. Backed(r2, c2, q, f)
  BY <1>1, <1>2, <1>4, <1>5, CreditBacked
<1>7. QED
  BY <1>4, <1>5, <1>6 DEF q, f

LEMMA RefundBacks ==
    ASSUME Inv, LedgerTypeOK, AllBacked, NEW j \in Jars, NEW d \in Donors, Refund(j, d)
    PROVE  /\ Backed(jar'[j], contribution'[j], position'[j], elsewhere'[j])
           /\ \A i \in Jars \ {j} : /\ position'[i] = position[i]
                                    /\ elsewhere'[i] = elsewhere[i]
<1> DEFINE p == position[j]
           q == position'[j]
           e == elsewhere[j]
           shares == contribution[j][d].shares
           Taken ==
             /\ q[Marinade] \in Nat /\ Whole(q) \in Nat
             /\ jar[j].stake = "MarinadeSol" => q[Marinade] + shares >= p[Marinade]
             /\ jar[j].stake = "MarginFiUsdc" => Whole(q) + shares >= Whole(p)
           Others == \A i \in Jars \ {j} : position'[i] = position[i]
<1>0. elsewhere' = elsewhere /\ e \in Nat
  BY DEF Refund, PaidRefund, LedgerTypeOK
<1>1. /\ jar[j] \in Jar /\ contribution[j] \in Contributions
      /\ Backed(jar[j], contribution[j], p, e)
      /\ jar[j].status = "Cancelled" /\ jar[j].type = "TimeLocked"
  BY RecordFields
  DEF AllBacked, Refund, PaidRefund, MayRefund, Consistent, Bookkept
<1>2. p \in Positions /\ p[Marinade] \in Nat /\ Whole(p) \in Nat
  BY PositionFacts DEF Inv
<1>3. shares \in Nat
  BY <1>1 DEF Contributions, Contribution
<1>4. Debit(j, d, shares) /\ Taken /\ Others
  <2>1. CASE RefundFromFunds(j, d)
    <3>1. position' = position /\ Debit(j, d, 0) /\ jar[j].stake # "MarginFiUsdc"
          /\ (jar[j].stake = "MarinadeSol" => shares = 0)
      BY <2>1 DEF RefundFromFunds
    <3>2. shares = 0
      BY <1>1, <3>1 DEF Backed, Jar
    <3>3. QED
      BY <1>2, <3>1, <3>2
  <2>2. CASE RefundFromMarinade(j, d)
    <3> DEFINE n == p[Marinade] - shares
    <3>1. /\ position' = [position EXCEPT ![j][Marinade] = n]
          /\ p[Marinade] >= shares /\ Debit(j, d, shares)
          /\ jar[j].stake = "MarinadeSol"
      BY <2>2 DEF RefundFromMarinade
    <3>2. n \in Nat
      BY <1>2, <1>3, <3>1
    <3>3. n + shares = p[Marinade]
      BY <1>2, <1>3
    <3> HIDE DEF n
    <3>4. q = [position[j] EXCEPT ![Marinade] = n] /\ Others
      BY <3>1, PositionFacts DEF Inv, Venues
    <3>5. q[Marinade] = n /\ \A bank \in Banks : q[bank] = p[bank]
      BY <1>2, <3>4, JarAssumption DEF Positions, Venues
    <3>6. Whole(q) = Whole(p)
      BY <3>5 DEF Whole
    <3>7. Taken
      BY <1>2, <3>1, <3>2, <3>3, <3>5, <3>6
    <3>8. QED
      BY <3>1, <3>4, <3>7
  <2>3. CASE RefundFromMarginFi(j, d)
    <3>1. PICK bank \in Banks, price \in Prices :
            LET payout == UsdcFor(shares * SharesScale, price)
                burned == FineSharesFor(payout, price)
            IN  /\ p[bank] >= burned
                /\ position' = [position EXCEPT ![j][bank] = p[bank] - burned]
      BY <2>3 DEF RefundFromMarginFi
    <3> DEFINE burned == FineSharesFor(UsdcFor(shares * SharesScale, price), price)
               n == p[bank] - burned
    <3>2. burned \in Nat /\ burned <= shares * SharesScale
      <4>1. shares * SharesScale \in Nat
        BY <1>3, JarAssumption, MulNat
      <4>2. UsdcFor(shares * SharesScale, price) \in Nat
        BY <4>1, VenuesNat
      <4>3. burned \in Nat
        BY <4>2, VenuesNat
      <4>4. QED
        BY <1>3, <4>3, BurnsAtMost
    <3>3. p[bank] \in Nat /\ p[bank] >= burned
          /\ position' = [position EXCEPT ![j][bank] = n]
      BY <1>2, <3>1 DEF Positions, Venues
    <3>4. Debit(j, d, shares) /\ jar[j].stake = "MarginFiUsdc"
      BY <2>3 DEF RefundFromMarginFi
    <3> HIDE DEF burned, shares
    <3>5. n \in Nat /\ WholeShares(n) + shares >= WholeShares(p[bank])
      BY <1>3, <3>2, <3>3, WholeDrops
    <3> HIDE DEF n
    <3>6. q = [position[j] EXCEPT ![bank] = n] /\ Others
      BY <3>3, PositionFacts DEF Inv, Venues
    <3>7. q[Marinade] \in Nat
      BY <1>2, <3>6, JarAssumption DEF Positions, Venues
    <3>8. WholeShares(n) \in Nat /\ WholeShares(p[bank]) \in Nat
      BY <3>3, <3>5, JarAssumption, DivNat DEF WholeShares
    <3> HIDE DEF q
    <3>9. Whole(q) = Whole(p) + WholeShares(n) - WholeShares(p[bank])
      BY <1>2, <3>5, <3>6, WholeReplaced
    <3>10. Whole(q) \in Nat
      <4>1. q \in Positions
        BY <1>2, <3>5, <3>6, WholeReplaced
      <4>2. QED
        BY <4>1, WholeNat
    <3>11. Taken
      BY <1>2, <1>3, <3>4, <3>5, <3>7, <3>8, <3>9, <3>10
    <3>12. QED
      BY <3>4, <3>6, <3>11 DEF shares
  <2>4. CASE RefundFromNoBank(j, d)
    <3>1. /\ position' = position /\ Debit(j, d, shares)
          /\ jar[j].stake = "MarginFiUsdc"
      BY <2>4 DEF RefundFromNoBank
    <3>2. q = p /\ Others
      BY <3>1
    <3> HIDE DEF p, q, shares
    <3>3. QED
      BY <1>2, <1>3, <3>1, <3>2 DEF shares
  <2>5. QED
    BY <2>1, <2>2, <2>3, <2>4 DEF Refund, PaidRefund
<1> DEFINE amount == contribution[j][d].amount
           r2 == Debited(jar[j], amount, shares)
           c2 == Cleared(contribution[j], d)
<1>5. jar'[j] = r2 /\ contribution'[j] = c2 /\ jar[j].sharesTotal >= shares
  <2>1. jar' = [jar EXCEPT ![j] = r2] /\ jar[j].sharesTotal >= shares
    BY <1>4 DEF Debit
  <2>2. contribution' = [contribution EXCEPT ![j] = c2]
    BY <1>4 DEF Debit, Cleared
  <2> HIDE DEF r2, c2
  <2>3. jar \in [Jars -> Jar] /\ contribution \in [Jars -> [Donors -> Contribution]]
    BY DEF Inv, JarTypeOK
  <2>4. QED
    BY <2>1, <2>2, <2>3
<1> HIDE DEF p, q, e
<1>6. Backed(r2, c2, q, e)
  BY <1>0, <1>1, <1>2, <1>4, <1>5, DebitBacked
<1>7. QED
  BY <1>0, <1>4, <1>5, <1>6 DEF q, e

LEMMA PayOwnerBacks ==
    ASSUME Inv, LedgerTypeOK, NEW j \in Jars, NEW r \in Jar, NEW held,
           elsewhere' = elsewhere,
           NEW request, PayOwner(j, r, held, request),
           Backed(jar[j], contribution[j], position[j], elsewhere[j]),
           r.stake = jar[j].stake, r.type = jar[j].type,
           \/ r.sharesTotal = 0
           \/ r.sharesTotal = jar[j].sharesTotal /\ position'[j] = position[j],
           position'[j] \in Positions, contribution' = contribution
    PROVE  Backed(jar'[j], contribution'[j], position'[j], elsewhere'[j])
<1> DEFINE balance == Least(held, r.totalContributed)
           gross == IF request = WholeBalance THEN balance ELSE request
           r2 == Settled(r, gross, balance)
<1>1. /\ jar' = [jar EXCEPT ![j] = r2]
      /\ r.type = "TimeLocked" => gross = balance
  BY DEF PayOwner
<1>2. jar'[j] = r2
  BY <1>1 DEF Inv, JarTypeOK
<1>3. /\ r2.stake = r.stake /\ r2.type = r.type /\ r2.sharesTotal = r.sharesTotal
      /\ r2.status = IF gross = balance THEN "Withdrawn" ELSE "Active"
  BY DEF Settled, Jar
<1>4. /\ Whole(position'[j]) >= 0 /\ position'[j][Marinade] \in Nat
      /\ elsewhere[j] \in Nat
  BY WholeNat DEF Positions, Venues, LedgerTypeOK
<1> HIDE DEF r2, gross
<1>5. Backed(r2, contribution[j], position'[j], elsewhere[j])
  BY <1>1, <1>3, <1>4, SettledBacked
<1>6. QED
  BY <1>2, <1>5

LEMMA WithdrawBacks ==
    ASSUME Inv, LedgerTypeOK, AllBacked, NEW j \in Jars, NEW request, Withdraw(j, request)
    PROVE  /\ Backed(jar'[j], contribution'[j], position'[j], elsewhere'[j])
           /\ \A i \in Jars \ {j} : /\ position'[i] = position[i]
                                    /\ elsewhere'[i] = elsewhere[i]
<1>1. /\ jar[j] \in Jar /\ Backed(jar[j], contribution[j], position[j], elsewhere[j])
      /\ contribution' = contribution /\ elsewhere' = elsewhere
  BY RecordFields DEF AllBacked, Withdraw
<1>2. position[j] \in Positions /\ elsewhere[j] \in Nat
  BY PositionFacts DEF Inv, LedgerTypeOK
<1>3. CASE WithdrawMarginFi(j, request)
  <2>1. PICK bank \in Banks, p \in Prices :
          /\ position' = [position EXCEPT ![j][bank] = 0]
          /\ PayOwner(j, [ jar[j] EXCEPT !.sharesTotal = 0, !.totalContributed =
                             funds[j] + UsdcFor(position[j][bank], p) ],
                      funds[j] + UsdcFor(position[j][bank], p), request)
    BY <1>3 DEF WithdrawMarginFi
  <2> DEFINE held == funds[j] + UsdcFor(position[j][bank], p)
             r == [jar[j] EXCEPT !.sharesTotal = 0, !.totalContributed = held]
  <2>2. held \in Nat
    <3>1. position[j][bank] \in Nat
      BY PositionTyped DEF Inv, Venues
    <3>2. QED
      BY <3>1, VenuesNat, RecordFields
  <2> HIDE DEF held
  <2>3. /\ r \in Jar /\ r.stake = jar[j].stake /\ r.type = jar[j].type
        /\ r.sharesTotal = 0
    BY <1>1, <2>2 DEF Jar
  <2>4. PayOwner(j, r, held, request)
    BY <2>1 DEF held
  <2> HIDE DEF r
  <2>5. /\ position'[j] = [position[j] EXCEPT ![bank] = 0]
        /\ \A i \in Jars \ {j} : position'[i] = position[i]
    BY <2>1, PositionFacts DEF Inv, Venues
  <2>6. position'[j] \in Positions
    <3>1. PICK n \in Nat : n = 0
      OBVIOUS
    <3>2. position'[j] = [position[j] EXCEPT ![bank] = n]
      BY <2>5, <3>1
    <3>3. QED
      BY <1>2, <3>2, WholeReplaced
  <2>7. QED
    BY <1>1, <2>3, <2>4, <2>5, <2>6, PayOwnerBacks
<1>4. CASE WithdrawMarinade(j)
  <2> DEFINE r == [ jar[j] EXCEPT !.totalContributed = 0, !.sharesTotal = 0,
                                  !.status = "Withdrawn" ]
             n == position[j][Marinade] - jar[j].sharesTotal
  <2>1. /\ jar' = [jar EXCEPT ![j] = r]
        /\ position[j][Marinade] >= jar[j].sharesTotal
        /\ position' = [position EXCEPT ![j][Marinade] = n]
    BY <1>4 DEF WithdrawMarinade
  <2>2. n \in Nat
    BY <1>1, <1>2, <2>1 DEF Positions, Venues, Jar
  <2> HIDE DEF n
  <2>3. /\ r.stake = jar[j].stake /\ r.type = jar[j].type
        /\ r.sharesTotal = 0 /\ r.status = "Withdrawn"
    BY <1>1 DEF Jar
  <2> HIDE DEF r
  <2>4. jar'[j] = r
    BY <2>1 DEF Inv, JarTypeOK
  <2>5. /\ position'[j] = [position[j] EXCEPT ![Marinade] = n]
        /\ \A i \in Jars \ {j} : position'[i] = position[i]
    BY <2>1, PositionFacts DEF Inv, Venues
  <2>6. position'[j] \in Positions
    BY <1>2, <2>2, <2>5 DEF Positions
  <2>7. Whole(position'[j]) >= 0 /\ position'[j][Marinade] \in Nat
    BY <2>6, WholeNat DEF Positions, Venues
  <2>8. Backed(r, contribution[j], position'[j], elsewhere[j])
    BY <1>1, <1>2, <2>3, <2>7, SettledBacked
  <2>9. QED
    BY <1>1, <2>4, <2>5, <2>8
<1>5. CASE PayOwner(j, jar[j], funds[j], request) /\ UNCHANGED position
  <2>1. position'[j] = position[j] /\ \A i \in Jars \ {j} : position'[i] = position[i]
    BY <1>5
  <2>2. QED
    BY <1>1, <1>2, <1>5, <2>1, PayOwnerBacks
<1>6. QED
  BY <1>3, <1>4, <1>5 DEF Withdraw

\* The instructions that mint and burn nothing.
LEMMA OthersBack ==
    ASSUME Inv, LedgerTypeOK, AllBacked, NEW j \in Jars,
           \/ CancelJar(j) \/ CloseJar(j)
           \/ \E d \in Donors : CloseContribution(j, d)
    PROVE  /\ Backed(jar'[j], contribution'[j], position'[j], elsewhere'[j])
           /\ \A i \in Jars \ {j} : /\ position'[i] = position[i]
                                    /\ elsewhere'[i] = elsewhere[i]
<1>1. /\ jar[j] \in Jar /\ Backed(jar[j], contribution[j], position[j], elsewhere[j])
      /\ Consistent(jar[j], contribution[j], funds[j])
      /\ contribution[j] \in Contributions
  BY RecordFields DEF AllBacked
<1>2. /\ jar \in [Jars -> Jar]
      /\ contribution \in [Jars -> [Donors -> Contribution]]
      /\ elsewhere \in [Jars -> Nat]
  BY DEF Inv, JarTypeOK, LedgerTypeOK
<1>3. CASE CancelJar(j)
  <2> DEFINE r == [jar[j] EXCEPT !.status = "Cancelled"]
  <2>1. /\ jar' = [jar EXCEPT ![j] = r] /\ jar[j].status = "Active"
        /\ UNCHANGED <<contribution, position, elsewhere>>
    BY <1>3 DEF CancelJar, MayCancel
  <2>2. /\ r.stake = jar[j].stake /\ r.type = jar[j].type
        /\ r.sharesTotal = jar[j].sharesTotal
    BY <1>1 DEF Jar
  <2> HIDE DEF r
  <2>3. Backed(r, contribution[j], position[j], elsewhere[j])
    BY <1>1, <2>1, <2>2 DEF Backed
  <2>4. jar'[j] = r
    BY <1>2, <2>1
  <2>5. QED
    BY <2>1, <2>3, <2>4
<1>4. CASE CloseJar(j)
  <2>1. /\ jar' = [jar EXCEPT ![j] = NoJar] /\ contribution' = contribution
        /\ Terminal(j)
        /\ position' \in {position, [position EXCEPT ![j][Marinade] = 0]}
        /\ elsewhere' = [elsewhere EXCEPT ![j] = 0]
    BY <1>4 DEF CloseJar
  <2>2. Claims(contribution[j]) = {}
    <3>1. Cardinality(Claims(contribution[j])) = 0
      BY <1>1, <2>1 DEF Terminal, Consistent, Bookkept
    <3>2. QED
      BY <3>1, ClaimsFinite, FS_EmptySet
  <2>3. \A d \in Donors : contribution[j][d].shares = 0
    BY <1>1, <2>2 DEF Claims, Backed
  <2>4. Backed(NoJar, contribution[j], position'[j], elsewhere'[j])
    BY <2>3 DEF Backed, NoJar
  <2>5. \A i \in Jars \ {j} : /\ position'[i] = position[i]
                              /\ elsewhere'[i] = elsewhere[i]
    BY <1>2, <2>1, PositionFacts DEF Inv, Venues
  <2>6. jar'[j] = NoJar
    BY <1>2, <2>1
  <2>7. QED
    BY <2>1, <2>4, <2>5, <2>6
<1>5. ASSUME NEW d \in Donors, CloseContribution(j, d)
      PROVE  /\ Backed(jar'[j], contribution'[j], position'[j], elsewhere'[j])
             /\ \A i \in Jars \ {j} : /\ position'[i] = position[i]
                                      /\ elsewhere'[i] = elsewhere[i]
  <2> DEFINE r == [jar[j] EXCEPT !.totalContributors = jar[j].totalContributors - 1]
             c == [contribution[j] EXCEPT ![d] = NoContribution]
  <2>1. /\ jar' = [jar EXCEPT ![j] = r] /\ contribution' = [contribution EXCEPT ![j] = c]
        /\ jar[j].status = "Withdrawn" /\ UNCHANGED <<position, elsewhere>>
    BY <1>5 DEF CloseContribution
  <2>2. /\ r.stake = jar[j].stake /\ r.type = jar[j].type
        /\ r.sharesTotal = jar[j].sharesTotal /\ r.status = jar[j].status
    BY <1>1 DEF Jar
  <2>3. \A e \in Donors : c[e] = contribution[j][e] \/ c[e].shares = 0
    BY <1>1 DEF Contributions, NoContribution
  <2> HIDE DEF r, c
  <2>4. Backed(r, c, position[j], elsewhere[j])
    BY <1>1, <1>2, <2>1, <2>2, <2>3, SettledBacked
  <2>5. jar'[j] = r /\ contribution'[j] = c
    BY <1>2, <2>1
  <2>6. QED
    BY <2>1, <2>4, <2>5
<1>6. QED
  BY <1>3, <1>4, <1>5

\* A new jar finds no contribution and no shares at its address.
LEMMA CreateBacks ==
    ASSUME Inv, LedgerTypeOK, AllBacked, Created
    PROVE  AllBacked'
<1>1. PICK o \in Owners, type \in {"Flexible", "TimeLocked"}, asset \in Assets,
           unlock \in 0 .. MaxNow, autoStake \in AutoStakeInputs :
        CreateJar(o, type, asset, unlock, autoStake)
  BY DEF Created
<1>2. asset \in {"Sol", "Usdc"} /\ autoStake \in BOOLEAN
  BY JarAssumption
<1> DEFINE j == <<o, userState[o].jarCount>>
<1>3. j \in Jars /\ jar[j].status = "None"
      /\ \A i \in Jars \ {j} : jar'[i] = jar[i]
  BY <1>1, <1>2, CreateMoves
<1>4. /\ UNCHANGED <<contribution, position, elsewhere>>
      /\ jar'[j].sharesTotal = 0
  <2> DEFINE stake == StakeProtocol(asset, autoStake)
             group == IF stake = "MarginFiUsdc" THEN config.marginfiGroup ELSE NoKey
             r == [ NoJar EXCEPT !.status = "Active", !.type = type,
                                 !.asset = asset, !.stake = stake,
                                 !.unlock = unlock, !.marginfiGroup = group ]
  <2>1. /\ jar' = [jar EXCEPT ![j] = r]
        /\ UNCHANGED <<contribution, position, elsewhere>>
    BY <1>1 DEF CreateJar
  <2>2. r.sharesTotal = 0
    BY DEF NoJar
  <2> HIDE DEF r, j
  <2>3. QED
    BY <1>3, <2>1, <2>2 DEF Inv, JarTypeOK
<1> HIDE DEF j
<1>5. \A d \in Donors : contribution[j][d].shares = 0
  <2>1. Claims(contribution[j]) = {}
    BY <1>3, RecordFields DEF Consistent, Bookkept
  <2>2. Backed(jar[j], contribution[j], position[j], elsewhere[j])
    BY <1>3 DEF AllBacked
  <2>3. QED
    BY <2>1, <2>2 DEF Claims, Backed
<1>6. Owed(contribution[j]) = 0
  BY <1>5, OwedNothing
<1>7. /\ Whole(position[j]) \in Nat /\ position[j][Marinade] \in Nat
      /\ elsewhere[j] \in Nat
  BY <1>3, PositionFacts DEF Inv, LedgerTypeOK
<1>8. Backed(jar'[j], contribution[j], position[j], elsewhere[j])
  BY <1>4, <1>5, <1>6, <1>7 DEF Backed
<1>9. QED
  BY <1>3, <1>4, <1>8 DEF AllBacked

LEMMA AsideBacks ==
    ASSUME Inv, LedgerTypeOK, AllBacked, Aside, Inv'
    PROVE  AllBacked'
<1> SUFFICES ASSUME NEW j \in Jars
             PROVE  Backed(jar'[j], contribution'[j], position'[j], elsewhere'[j])
  BY DEF AllBacked
<1>1. /\ jar' = jar /\ contribution' = contribution /\ elsewhere' = elsewhere
      /\ position'[j][Marinade] >= position[j][Marinade]
      /\ \A bank \in Banks : position'[j][bank] = position[j][bank]
  BY DEF Aside
<1>2. Whole(position'[j]) = Whole(position[j])
  BY <1>1 DEF Whole
<1>3. /\ Backed(jar[j], contribution[j], position[j], elsewhere[j])
      /\ jar[j].sharesTotal \in Nat /\ position[j][Marinade] \in Nat
      /\ elsewhere[j] \in Nat
  BY RecordFields, PositionFacts DEF AllBacked, Inv, Jar, LedgerTypeOK
<1>4. jar[j].stake = "MarinadeSol" =>
        jar[j].sharesTotal <= position'[j][Marinade] + elsewhere[j]
  <2>1. position'[j][Marinade] \in Nat
    BY DEF Inv, JarTypeOK, Venues
  <2>2. QED
    BY <1>1, <1>3, <2>1 DEF Backed
<1>5. QED
  BY <1>1, <1>2, <1>3, <1>4 DEF Backed

LEMMA BackedStep ==
    Inv /\ LedgerTypeOK /\ LentIsUsdc /\ AllBacked /\ [Next]_vars => AllBacked'
<1> SUFFICES ASSUME Inv, LedgerTypeOK, LentIsUsdc, AllBacked, [Next]_vars
             PROVE  AllBacked'
  OBVIOUS
<1>1. CASE Aside
  BY <1>1, InvStep, AsideBacks
<1>2. CASE Created
  BY <1>2, CreateBacks
<1>3. ASSUME NEW j \in Jars, JarStep(j) PROVE AllBacked'
  <2>1. \A amount \in Amounts : amount \in Nat
    BY JarAssumption
  <2>2. /\ Backed(jar'[j], contribution'[j], position'[j], elsewhere'[j])
        /\ \A i \in Jars \ {j} : /\ position'[i] = position[i]
                                 /\ elsewhere'[i] = elsewhere[i]
    BY <1>3, <2>1, ContributeBacks, RefundBacks, WithdrawBacks, OthersBack
    DEF JarStep
  <2>3. Frame(j)
    BY <1>3, <2>1, ContributeMoves, RefundMoves, WithdrawMoves, OtherMoves
    DEF JarStep
  <2>4. QED
    BY <2>2, <2>3 DEF Frame, AllBacked
<1>4. QED
  BY <1>1, <1>2, <1>3, StepCases

LEMMA BackedInit == Init => AllBacked
<1> SUFFICES ASSUME Init, NEW j \in Jars
             PROVE  Backed(jar[j], contribution[j], position[j], elsewhere[j])
  BY DEF AllBacked
<1>1. Inv /\ elsewhere[j] = 0 /\ position[j][Marinade] = 0
  BY InvInit DEF Init, Venues
<1>2. jar[j] = NoJar /\ \A d \in Donors : contribution[j][d] = NoContribution
  BY DEF Init
<1>3. QED
  BY <1>1, <1>2 DEF Backed, NoJar, NoContribution

LEMMA AlwaysBacked == Spec => [](Inv /\ AllBacked)
  BY InvInit, InvStep, BackedInit, BackedStep, AlwaysLent, AlwaysLedgers, PTL
  DEF Spec

\* The shares a jar records are at its venue, but for the mSOL its contributors
\* had minted elsewhere, whatever prices, fractions, refunds that pay nothing
\* and changes of bank there were; of a jar that can be cancelled they are
\* those its donors are owed.
THEOREM SharesAreHeld == Spec => []SharesBacked
<1>1. Inv /\ AllBacked => SharesBacked
  <2> SUFFICES ASSUME Inv, AllBacked, NEW j \in Jars
               PROVE  /\ jar[j].stake = "MarinadeSol" =>
                            jar[j].sharesTotal <=
                                position[j][Marinade] + elsewhere[j]
                      /\ jar[j].stake = "MarginFiUsdc" =>
                            jar[j].sharesTotal * SharesScale <=
                                SumOf([bank \in Banks |-> position[j][bank]])
                      /\ jar[j].type = "TimeLocked"
                            /\ jar[j].status \in {"Active", "Cancelled"} =>
                            jar[j].sharesTotal = SharesOwed(j)
    BY DEF SharesBacked
  <2>1. /\ Backed(jar[j], contribution[j], position[j], elsewhere[j])
        /\ jar[j].sharesTotal \in Nat /\ position[j] \in Positions
    BY RecordFields, PositionFacts DEF AllBacked, Inv, Jar
  <2>2. SharesOwed(j) = Owed(contribution[j])
    BY DEF SharesOwed, Owed
  <2>3. Whole(position[j]) * SharesScale <=
            SumOf([bank \in Banks |-> position[j][bank]])
    <3> DEFINE f == [bank \in Banks |-> WholeShares(position[j][bank])]
               g == [bank \in Banks |-> position[j][bank]]
    <3>1. SharesScale \in Nat \ {0} /\ IsFiniteSet(Banks)
      BY JarAssumption
    <3>2. \A n \in Nat : WholeShares(n) \in Nat /\ WholeShares(n) * SharesScale <= n
      BY <3>1, DivNat DEF WholeShares
    <3>3. \A bank \in Banks : position[j][bank] \in Nat
      BY <2>1 DEF Positions, Venues
    <3>4. /\ f \in [Banks -> Nat] /\ g \in [Banks -> Nat]
          /\ \A bank \in Banks : f[bank] * SharesScale <= g[bank]
      BY <3>2, <3>3
    <3> HIDE DEF f, g
    <3>5. SumOf(f) * SharesScale <= SumOf(g)
      BY <3>1, <3>4, SumScaled
    <3>6. QED
      BY <3>5 DEF Whole, f, g
  <2>4. jar[j].stake = "MarginFiUsdc" =>
          jar[j].sharesTotal * SharesScale <= Whole(position[j]) * SharesScale
    <3>1. SharesScale \in Nat /\ Whole(position[j]) \in Nat
      BY <2>1, JarAssumption, WholeNat
    <3>2. ASSUME jar[j].sharesTotal <= Whole(position[j])
          PROVE  jar[j].sharesTotal * SharesScale <= Whole(position[j]) * SharesScale
      <4> DEFINE a == jar[j].sharesTotal
                 b == Whole(position[j])
      <4> HIDE DEF a, b
      <4>1. a \in Nat /\ b \in Nat /\ a <= b
        BY <2>1, <3>1, <3>2 DEF a, b
      <4>2. SharesScale * a <= SharesScale * b
        BY <3>1, <4>1, MulMonotone
      <4>3. SharesScale * a = a * SharesScale /\ SharesScale * b = b * SharesScale
        BY <3>1, <4>1
      <4>4. QED
        BY <4>2, <4>3 DEF a, b
    <3>3. QED
      BY <2>1, <3>2 DEF Backed
  <2>5. jar[j].stake = "MarginFiUsdc" =>
          jar[j].sharesTotal * SharesScale <=
              SumOf([bank \in Banks |-> position[j][bank]])
    <3> DEFINE g == [bank \in Banks |-> position[j][bank]]
    <3>1. SharesScale \in Nat /\ Whole(position[j]) \in Nat /\ IsFiniteSet(Banks)
      BY <2>1, JarAssumption, WholeNat
    <3>2. g \in [Banks -> Nat]
      BY <2>1 DEF Positions, Venues
    <3> HIDE DEF g
    <3>3. SumOf(g) \in Nat /\ jar[j].sharesTotal * SharesScale \in Nat
          /\ Whole(position[j]) * SharesScale \in Nat
      BY <2>1, <3>1, <3>2, SumNat, MulNat
    <3>4. Whole(position[j]) * SharesScale <= SumOf(g)
      BY <2>3 DEF g
    <3>5. jar[j].stake = "MarginFiUsdc" => jar[j].sharesTotal * SharesScale <= SumOf(g)
      BY <2>4, <3>3, <3>4
    <3>6. QED
      BY <3>5 DEF g
  <2>6. QED
    BY <2>1, <2>2, <2>5 DEF Backed
<1>2. QED
  BY <1>1, AlwaysBacked, PTL
============================================================================

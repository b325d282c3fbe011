----------------------------- MODULE JarProgram -----------------------------
(***************************************************************************)
(* The jar instructions of the jarfi program: a jar collects contributions *)
(* from donors and is settled by exactly one of withdraw (the owner is     *)
(* paid) or cancel_jar followed by refunds (the donors are paid back).     *)
(*                                                                         *)
(* One action is one instruction, the whole handler, executed atomically;  *)
(* a failed require! or checked operation aborts the transaction, so it is *)
(* a guard.  Accounts that do not exist read as zeros (version = 0, status *)
(* "None").  Token and lamport balances are counted above the rent floor.  *)
(*                                                                         *)
(* External to the repository, and modelled from how the program uses it:  *)
(* the clock, plain transfers to a jar's address, and the two yield venues *)
(* (Marinade for SOL, a MarginFi bank for USDC), whose exchange rate is    *)
(* any of Prices at every call.                                            *)
(***************************************************************************)
EXTENDS JarConfig, FiniteSets

CONSTANTS
    Owners, Donors,         \* wallets
    MaxJars,                \* jars per owner (u64 counter)
    Assets,                 \* subset of {"Sol", "Usdc"} offered to creators
    AutoStakeInputs,        \* subset of BOOLEAN offered to creators
    Amounts,                \* contribution amounts, partial withdrawals
    DirectAmounts,          \* amounts sent to a jar by a plain transfer
    MaxNow, DAY, MAX_TIMELOCK_DURATION, BPS_DENOMINATOR,
    Prices, PriceOne,       \* a venue's tokens per share, in units of 1/PriceOne
    SharesScale,            \* 2^48: MarginFi's fractions of one share
    Marinade                \* the Marinade venue

ASSUME JarAssumption ==
    /\ MaxJars \in Nat /\ MaxNow \in Nat /\ DAY \in Nat
    /\ MAX_TIMELOCK_DURATION \in Nat
    /\ BPS_DENOMINATOR \in Nat \ {0}
    /\ MAX_WITHDRAW_FEE_BPS <= BPS_DENOMINATOR
    /\ Amounts \subseteq Nat /\ DirectAmounts \subseteq Nat
    /\ Prices \subseteq Nat \ {0} /\ PriceOne \in Nat \ {0}
    /\ SharesScale \in Nat \ {0}
    /\ IsFiniteSet(Donors) /\ IsFiniteSet(Banks)
    /\ Assets \subseteq {"Sol", "Usdc"}
    /\ AutoStakeInputs \subseteq BOOLEAN
    /\ Marinade \notin Banks

VARIABLES
    now,            \* unix_timestamp of the Clock sysvar
    userState,      \* per owner: UserState
    jar,            \* per address: Jar
    contribution,   \* per jar and donor: Contribution
    funds,          \* per jar: its lamports (Sol) or its vault's tokens (Usdc)
    position,       \* per jar and venue: mSOL held, or fractions of bank shares
    treasuryUsdc,   \* the treasury's token account
    elsewhere       \* history, per jar: mSOL its contributors had minted to
                    \* an account that is not the jar's

jarVars == <<now, userState, jar, contribution, funds, position,
             treasuryUsdc, elsewhere>>
vars == <<config, treasury, jarVars>>

Venues == Banks \union {Marinade}

\* The address of a jar: a PDA seeded by its owner and the owner's counter.
Jars == Owners \X (0 .. MaxJars - 1)

UserState == [version : {0, 1}, jarCount : Nat]

Jar == [ status : {"None", "Active", "Withdrawn", "Cancelled"},
         type : {"Flexible", "TimeLocked"},
         asset : {"Sol", "Usdc"},
         stake : {"None", "MarginFiUsdc", "MarinadeSol"},
         unlock : Nat,
         totalContributed : Nat,
         totalContributors : Nat,
         principalTotal : Nat,
         sharesTotal : Nat,
         marginfiGroup : Groups \union {NoKey} ]

NoJar == [ status |-> "None", type |-> "Flexible", asset |-> "Sol",
           stake |-> "None", unlock |-> 0,
           totalContributed |-> 0, totalContributors |-> 0,
           principalTotal |-> 0, sharesTotal |-> 0, marginfiGroup |-> NoKey ]

Contribution == [version : {0, 1}, amount : Nat, shares : Nat]

NoContribution == [version |-> 0, amount |-> 0, shares |-> 0]

JarTypeOK ==
    /\ now \in Nat
    /\ userState \in [Owners -> UserState]
    /\ jar \in [Jars -> Jar]
    /\ contribution \in [Jars -> [Donors -> Contribution]]
    /\ funds \in [Jars -> Nat]
    /\ position \in [Jars -> [Venues -> Nat]]

LedgerTypeOK ==
    /\ treasuryUsdc \in Nat
    /\ elsewhere \in [Jars -> Nat]

TypeOK == ConfigTypeOK /\ JarTypeOK /\ LedgerTypeOK

Init ==
    /\ ConfigInit
    /\ now = 0
    /\ userState = [o \in Owners |-> [version |-> 0, jarCount |-> 0]]
    /\ jar = [j \in Jars |-> NoJar]
    /\ contribution = [j \in Jars |-> [d \in Donors |-> NoContribution]]
    /\ funds = [j \in Jars |-> 0]
    /\ position = [j \in Jars |-> [v \in Venues |-> 0]]
    /\ treasuryUsdc = 0
    /\ elsewhere = [j \in Jars |-> 0]

Least(a, b) == IF a <= b THEN a ELSE b

---------------------------------------------------------------------------
(* The venues, at price p.                                                 *)

\* Marinade: mSOL minted for a deposit, lamports paid for an unstake.
MsolFor(amount, p) == (amount * PriceOne) \div p
SolFor(shares, p) == (shares * p) \div PriceOne

\* MarginFi keeps fractions of a share; the program reads whole shares only.
FineSharesFor(amount, p) == (amount * SharesScale * PriceOne) \div p
WholeShares(fine) == fine \div SharesScale
UsdcFor(fine, p) == (fine * p) \div (SharesScale * PriceOne)

---------------------------------------------------------------------------
(* create_jar                                                              *)

InitUserState(o) ==
    /\ userState[o].version = 0
    /\ userState' = [userState EXCEPT ![o] = [version |-> 1, jarCount |-> 0]]
    /\ UNCHANGED <<config, treasury, now, jar, contribution, funds, position,
                   treasuryUsdc, elsewhere>>

UnlockAllowed(type, unlock) ==
    \/ type = "Flexible" /\ unlock = 0
    \/ /\ type = "TimeLocked"
       /\ now < unlock
       /\ unlock - now <= MAX_TIMELOCK_DURATION

StakeProtocol(asset, autoStake) ==
    CASE ~autoStake -> "None"
      [] autoStake /\ asset = "Usdc" -> "MarginFiUsdc"
      [] autoStake /\ asset = "Sol" -> "MarinadeSol"

\* account_initialize needs a configured group to open the account under.
StakeAllowed(type, stake, unlock) ==
    \/ stake = "None"
    \/ /\ stake = "MarginFiUsdc"
       /\ config.autoStakeEnabled
       /\ config.marginfiGroup # NoKey
    \/ /\ stake = "MarinadeSol"
       /\ config.autoStakeEnabled
       /\ type = "TimeLocked"
       /\ unlock - now >= config.minAutoStakeLockDays * DAY

CreationFeeDue == IF config.feeEnabled THEN config.creationFee ELSE 0

CreateJar(o, type, asset, unlock, autoStake) ==
    LET j == <<o, userState[o].jarCount>>
        stake == StakeProtocol(asset, autoStake)
    IN  /\ Deployed /\ ~config.paused
        /\ userState[o].version = 1
        /\ userState[o].jarCount < MaxJars
        /\ UnlockAllowed(type, unlock)
        /\ asset = "Usdc" => config.allowedUsdcMint # NoKey
        /\ StakeAllowed(type, stake, unlock)
        /\ treasury + CreationFeeDue <= MaxAmount
        /\ treasury' = treasury + CreationFeeDue
        /\ userState' = [userState EXCEPT ![o].jarCount = @ + 1]
        /\ jar' = [jar EXCEPT ![j] =
                     [ NoJar EXCEPT !.status = "Active",
                                    !.type = type,
                                    !.asset = asset,
                                    !.stake = stake,
                                    !.unlock = unlock,
                                    !.marginfiGroup =
                                        IF stake = "MarginFiUsdc"
                                        THEN config.marginfiGroup
                                        ELSE NoKey ]]
        /\ UNCHANGED <<config, now, contribution, funds, position,
                       treasuryUsdc, elsewhere>>

---------------------------------------------------------------------------
(* contribute_sol and contribute_spl                                       *)

\* Mutation: every gift counts a contributor.
IsGift(c) == c.version \in {0, 1}

IsFirst(c) == c.amount = 0 /\ c.version = 0

\* Mutation: principal_total is forgotten.
CreditedNoPrincipal(r, amount, newcomers, shares) ==
    [ r EXCEPT !.totalContributed = @ + amount,
               !.totalContributors = @ + newcomers,
               !.sharesTotal = @ + shares ]

Credited(r, amount, newcomers, shares) ==
    [ r EXCEPT !.totalContributed = @ + amount,
               !.principalTotal = @ + amount,
               !.totalContributors = @ + newcomers,
               !.sharesTotal = @ + shares ]

\* The bookkeeping both handlers share: the donor's Contribution is created
\* on first use, and it and the jar's totals are credited (checked_add).
Credit(j, d, amount, shares) ==
    LET c == contribution[j][d]
        newcomers == IF IsFirst(c) THEN 1 ELSE 0
    IN  /\ jar[j].totalContributed + amount <= MaxAmount
        /\ jar[j].principalTotal + amount <= MaxAmount
        /\ jar[j].sharesTotal + shares <= MaxAmount
        /\ contribution' = [contribution EXCEPT ![j][d] =
                              [ version |-> 1,
                                amount |-> c.amount + amount,
                                shares |-> c.shares + shares ]]
        /\ jar' = [jar EXCEPT ![j] = Credited(@, amount, newcomers, shares)]

MayContribute(j, amount) ==
    /\ Deployed /\ ~config.paused
    /\ amount > 0
    /\ jar[j].status = "Active"

\* mint_to is an account the caller passes, and the one account the handler
\* compares with nothing: it reads how much that account gained.  Clients
\* pass the jar's mSOL account.
MintMsol(j, msol) ==
    \/ /\ position' = [position EXCEPT ![j][Marinade] = @ + msol]
       /\ UNCHANGED elsewhere
    \/ /\ elsewhere' = [elsewhere EXCEPT ![j] = @ + msol]
       /\ UNCHANGED position

ContributeSol(j, d, amount) ==
    /\ MayContribute(j, amount)
    /\ jar[j].asset = "Sol"
    /\ \/ /\ jar[j].stake # "MarinadeSol"
          /\ funds[j] + amount <= MaxAmount
          /\ funds' = [funds EXCEPT ![j] = @ + amount]
          /\ Credit(j, d, amount, 0)
          /\ UNCHANGED <<position, elsewhere>>
       \/ /\ jar[j].stake = "MarinadeSol"
          /\ \E p \in Prices :
                /\ MintMsol(j, MsolFor(amount, p))
                /\ Credit(j, d, amount, MsolFor(amount, p))
          /\ UNCHANGED funds
    /\ UNCHANGED <<config, treasury, now, userState, treasuryUsdc>>

\* The MarginFi accounts a caller passes must be the configured ones, and the
\* jar's MarginFi account must belong to that group.
MarginFiMatches(j, bank) ==
    /\ config.marginfiGroup = jar[j].marginfiGroup
    /\ bank = config.marginfiUsdcBank

ContributeSpl(j, d, amount) ==
    /\ MayContribute(j, amount)
    /\ jar[j].asset = "Usdc"
    /\ funds[j] + amount <= MaxAmount
    /\ \/ /\ jar[j].stake = "None"
          /\ funds' = [funds EXCEPT ![j] = @ + amount]
          /\ Credit(j, d, amount, 0)
          /\ UNCHANGED position
       \/ /\ jar[j].stake = "MarginFiUsdc"
          /\ \E bank \in Banks, p \in Prices :
                LET before == position[j][bank]
                    after == before + FineSharesFor(amount, p)
                IN  /\ MarginFiMatches(j, bank)
                    /\ position' = [position EXCEPT ![j][bank] = after]
                    /\ Credit(j, d, amount,
                              WholeShares(after) - WholeShares(before))
          /\ UNCHANGED funds
    /\ UNCHANGED <<config, treasury, now, userState, treasuryUsdc, elsewhere>>

---------------------------------------------------------------------------
(* withdraw                                                                *)

WholeBalance == -1      \* the amount argument None

FeeBps == IF config.feeEnabled THEN config.withdrawFeeBps ELSE 0

Fee(gross) == (gross * FeeBps) \div BPS_DENOMINATOR

\* Mutation: the unlock time is not looked at.
MayWithdrawEarly(j) ==
    /\ Deployed
    /\ jar[j].status = "Active"

MayWithdraw(j) ==
    /\ Deployed
    /\ jar[j].status = "Active"
    /\ jar[j].type = "TimeLocked" => now >= jar[j].unlock

\* Mutation: a partial withdrawal leaves total_contributed alone.
SettledTotalKept(r, gross, balance) ==
    [ r EXCEPT !.status = IF gross = balance THEN "Withdrawn" ELSE "Active" ]

Settled(r, gross, balance) ==
    [ r EXCEPT !.totalContributed = @ - gross,
               !.status = IF gross = balance THEN "Withdrawn" ELSE "Active" ]

\* The payout every custody but a staked Marinade jar ends in.  r is the jar
\* and held its balance once MarginFi has returned what it held.
PayOwner(j, r, held, request) ==
    LET balance == Least(held, r.totalContributed)
        gross == IF request = WholeBalance THEN balance ELSE request
    IN  /\ request # WholeBalance =>
              /\ request <= balance
              /\ r.type = "TimeLocked" => request = balance
        /\ gross * FeeBps <= MaxAmount
        /\ funds' = [funds EXCEPT ![j] = held - gross]
        /\ IF r.asset = "Sol"
           THEN /\ treasury + Fee(gross) <= MaxAmount
                /\ treasury' = treasury + Fee(gross)
                /\ UNCHANGED treasuryUsdc
           ELSE /\ treasuryUsdc + Fee(gross) <= MaxAmount
                /\ treasuryUsdc' = treasuryUsdc + Fee(gross)
                /\ UNCHANGED treasury
        /\ jar' = [jar EXCEPT ![j] = Settled(r, gross, balance)]

\* MarginFi first returns the whole position in the configured bank to the
\* vault, and the jar's total becomes the vault's balance.
WithdrawMarginFi(j, request) ==
    \E bank \in Banks, p \in Prices :
        LET held == funds[j] + UsdcFor(position[j][bank], p)
        IN  /\ MarginFiMatches(j, bank)
            /\ held <= MaxAmount
            /\ position' = [position EXCEPT ![j][bank] = 0]
            /\ PayOwner(j, [ jar[j] EXCEPT !.sharesTotal = 0,
                                           !.totalContributed = held ],
                        held, request)

\* Marinade pays the owner directly; the fee is taken from the owner, and
\* the amount asked for is ignored.
WithdrawMarinade(j) ==
    \E p \in Prices :
        LET shares == jar[j].sharesTotal
            solOut == SolFor(shares, p)
        IN  /\ shares > 0
            /\ position[j][Marinade] >= shares
            /\ solOut > 0
            /\ solOut * FeeBps <= MaxAmount
            /\ treasury + Fee(solOut) <= MaxAmount
            /\ treasury' = treasury + Fee(solOut)
            /\ position' = [position EXCEPT ![j][Marinade] = @ - shares]
            /\ jar' = [jar EXCEPT ![j] = [ @ EXCEPT !.totalContributed = 0,
                                                    !.sharesTotal = 0,
                                                    !.status = "Withdrawn" ]]
            /\ UNCHANGED <<funds, treasuryUsdc>>

Withdraw(j, request) ==
    /\ MayWithdraw(j)
    /\ \/ /\ jar[j].stake = "MarginFiUsdc"
          /\ WithdrawMarginFi(j, request)
       \/ /\ jar[j].stake = "MarinadeSol"
          /\ WithdrawMarinade(j)
       \/ /\ jar[j].stake = "MarinadeSol" => jar[j].sharesTotal = 0
          /\ jar[j].stake # "MarginFiUsdc"
          /\ PayOwner(j, jar[j], funds[j], request)
          /\ UNCHANGED position
    /\ UNCHANGED <<config, now, userState, contribution, elsewhere>>

---------------------------------------------------------------------------
(* cancel_jar and refund                                                   *)

\* Mutation: a flexible jar can be cancelled too.
MayCancelFlexible(j) ==
    /\ jar[j].status = "Active"
    /\ now < jar[j].unlock \/ jar[j].type = "Flexible"

\* Mutation: cancelling stays possible after the unlock time.
MayCancelLate(j) ==
    /\ jar[j].status = "Active"
    /\ jar[j].type = "TimeLocked"

MayCancel(j) ==
    /\ jar[j].status = "Active"
    /\ jar[j].type = "TimeLocked"
    /\ now < jar[j].unlock

CancelJar(j) ==
    /\ MayCancel(j)
    /\ jar' = [jar EXCEPT ![j].status = "Cancelled"]
    /\ UNCHANGED <<config, treasury, now, userState, contribution, funds,
                   position, treasuryUsdc, elsewhere>>

\* Mutation: the jar's shares stay.
DebitedSharesKept(r, amount, shares) ==
    [ r EXCEPT !.totalContributed = @ - amount,
               !.principalTotal = @ - amount,
               !.totalContributors = @ - 1 ]

Debited(r, amount, shares) ==
    [ r EXCEPT !.totalContributed = @ - amount,
               !.principalTotal = @ - amount,
               !.totalContributors = @ - 1,
               !.sharesTotal = @ - shares ]

\* The account is closed and the totals debited (checked_sub).
Debit(j, d, shares) ==
    LET amount == contribution[j][d].amount
    IN  /\ jar[j].totalContributed >= amount
        /\ jar[j].principalTotal >= amount
        /\ jar[j].totalContributors >= 1
        /\ jar[j].sharesTotal >= shares
        /\ contribution' = [contribution EXCEPT ![j][d] = NoContribution]
        /\ jar' = [jar EXCEPT ![j] = Debited(@, amount, shares)]

RefundFromFunds(j, d) ==
    /\ jar[j].stake # "MarginFiUsdc"
    /\ jar[j].stake = "MarinadeSol" => contribution[j][d].shares = 0
    /\ funds[j] >= contribution[j][d].amount
    /\ funds' = [funds EXCEPT ![j] = @ - contribution[j][d].amount]
    /\ Debit(j, d, 0)
    /\ UNCHANGED position

RefundFromMarinade(j, d) ==
    LET shares == contribution[j][d].shares
    IN  /\ jar[j].stake = "MarinadeSol"
        /\ shares > 0
        /\ \E p \in Prices : SolFor(shares, p) > 0
        /\ position[j][Marinade] >= shares
        /\ position' = [position EXCEPT ![j][Marinade] = @ - shares]
        /\ Debit(j, d, shares)
        /\ UNCHANGED funds

\* The donor's shares are priced in tokens and that many tokens withdrawn
\* from the bank they lie in: nothing is when they are worth less than one.
RefundFromMarginFi(j, d) ==
    LET shares == contribution[j][d].shares
    IN  /\ jar[j].stake = "MarginFiUsdc"
        /\ \E bank \in Banks, p \in Prices :
              LET payout == UsdcFor(shares * SharesScale, p)
                  burned == FineSharesFor(payout, p)
              IN  /\ position[j][bank] >= burned
                  /\ position' = [position EXCEPT ![j][bank] = @ - burned]
        /\ Debit(j, d, shares)
        /\ UNCHANGED funds

\* Of the venue's accounts refund compares only the jar's MarginFi account.
\* With others than the lending program and the bank the shares lie in, the
\* vault gains nothing, the donor is paid nothing, and the books are closed
\* all the same.  Clients pass the configured ones.
RefundFromNoBank(j, d) ==
    /\ jar[j].stake = "MarginFiUsdc"
    /\ Debit(j, d, contribution[j][d].shares)
    /\ UNCHANGED <<funds, position>>

MayRefund(j, d) ==
    /\ jar[j].status = "Cancelled"
    /\ contribution[j][d].amount > 0

\* A refund with the accounts the clients pass.
PaidRefund(j, d) ==
    /\ MayRefund(j, d)
    /\ \/ RefundFromFunds(j, d)
       \/ RefundFromMarinade(j, d)
       \/ RefundFromMarginFi(j, d)
    /\ UNCHANGED <<config, treasury, now, userState, treasuryUsdc, elsewhere>>

\* Any wallet may pay for the transaction.
Refund(j, d) ==
    \/ PaidRefund(j, d)
    \/ /\ MayRefund(j, d)
       /\ RefundFromNoBank(j, d)
       /\ UNCHANGED <<config, treasury, now, userState, treasuryUsdc,
                      elsewhere>>

---------------------------------------------------------------------------
(* close_contribution and close_jar                                        *)

CloseContribution(j, d) ==
    /\ jar[j].status = "Withdrawn"
    /\ contribution[j][d].version = 1
    /\ jar[j].totalContributors >= 1
    /\ jar' = [jar EXCEPT ![j].totalContributors = @ - 1]
    /\ contribution' = [contribution EXCEPT ![j][d] = NoContribution]
    /\ UNCHANGED <<config, treasury, now, userState, funds, position,
                   treasuryUsdc, elsewhere>>

\* Mutation: contributors are not looked at.
TerminalAnyContributors(j) == jar[j].status \in {"Withdrawn", "Cancelled"}

Terminal(j) ==
    /\ jar[j].status \in {"Withdrawn", "Cancelled"}
    /\ jar[j].totalContributors = 0

\* What is left in the jar (and, for Marinade, as mSOL dust) goes to the
\* owner.  A MarginFi position is left behind: it has no close instruction.
CloseJar(j) ==
    /\ Terminal(j)
    /\ jar' = [jar EXCEPT ![j] = NoJar]
    /\ funds' = [funds EXCEPT ![j] = 0]
    /\ position' = IF jar[j].stake = "MarinadeSol"
                   THEN [position EXCEPT ![j][Marinade] = 0]
                   ELSE position
    /\ elsewhere' = [elsewhere EXCEPT ![j] = 0]
    /\ UNCHANGED <<config, treasury, now, userState, contribution,
                   treasuryUsdc>>

---------------------------------------------------------------------------
(* The environment.                                                        *)

Tick ==
    /\ now < MaxNow
    /\ now' = now + 1
    /\ UNCHANGED <<config, treasury, userState, jar, contribution, funds,
                   position, treasuryUsdc, elsewhere>>

\* A plain transfer of the jar's asset to its address runs no instruction.
\* Money sent where no jar is yet is there when the jar is created, as if sent
\* just after; money sent where a jar was is nobody's: no instruction can
\* move it and it is left out.
DirectTransfer(j, amount) ==
    /\ jar[j].status # "None"
    /\ funds[j] + amount <= MaxAmount
    /\ funds' = [funds EXCEPT ![j] = @ + amount]
    /\ UNCHANGED <<config, treasury, now, userState, jar, contribution,
                   position, treasuryUsdc, elsewhere>>

DirectMsol(j, amount) ==
    /\ jar[j].status # "None"
    /\ jar[j].stake = "MarinadeSol"
    /\ position[j][Marinade] + amount <= MaxAmount
    /\ position' = [position EXCEPT ![j][Marinade] = @ + amount]
    /\ UNCHANGED <<config, treasury, now, userState, jar, contribution, funds,
                   treasuryUsdc, elsewhere>>

---------------------------------------------------------------------------

OwnerNext ==
    \/ \E o \in Owners :
          \/ InitUserState(o)
          \/ \E type \in {"Flexible", "TimeLocked"}, asset \in Assets,
                unlock \in 0 .. MaxNow, autoStake \in AutoStakeInputs :
                CreateJar(o, type, asset, unlock, autoStake)
    \/ \E j \in Jars :
          \/ \E request \in Amounts \union {0, WholeBalance} :
                Withdraw(j, request)
          \/ CancelJar(j)
          \/ CloseJar(j)

DonorNext ==
    \E j \in Jars, d \in Donors :
        \/ \E amount \in Amounts :
              \/ ContributeSol(j, d, amount)
              \/ ContributeSpl(j, d, amount)
        \/ Refund(j, d)
        \/ CloseContribution(j, d)

EnvironmentNext ==
    \/ Tick
    \/ \E j \in Jars, amount \in DirectAmounts :
          \/ DirectTransfer(j, amount)
          \/ DirectMsol(j, amount)

Next ==
    \/ OwnerNext
    \/ DonorNext
    \/ EnvironmentNext
    \/ AdminNext /\ UNCHANGED jarVars

Spec == Init /\ [][Next]_vars
====

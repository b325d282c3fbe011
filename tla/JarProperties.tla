--------------------------- MODULE JarProperties ---------------------------
(***************************************************************************)
(* What the jar instructions must guarantee, as invariants, action         *)
(* properties, a liveness property and an abstract specification.          *)
(***************************************************************************)
EXTENDS JarProgram, Sums

Open(j) == {d \in Donors : contribution[j][d].version = 1}

Pledged(j) == SumOf([d \in Donors |-> contribution[j][d].amount])

SharesOwed(j) == SumOf([d \in Donors |-> contribution[j][d].shares])

---------------------------------------------------------------------------
(* Bookkeeping.                                                            *)

\* total_contributors counts the Contribution accounts that exist.  close_jar
\* relies on it to know that no donor is left: a miscount either strands the
\* jar's rent for ever or closes a jar donors still have a claim on.
ContributorsCounted ==
    \A j \in Jars :
        jar[j].status # "None" =>
            jar[j].totalContributors = Cardinality(Open(j))

\* An address that holds no jar holds no claim, and no money a jar held:
\* closing a jar never orphans a donor's Contribution or leaves funds behind.
NothingOutlivesJar ==
    \A j \in Jars :
        jar[j].status = "None" => Open(j) = {} /\ funds[j] = 0

\* Until a jar is withdrawn its principal is the sum of what its donors gave,
\* whatever mix of contributions, partial withdrawals, cancellation and
\* refunds it went through.
PrincipalIsPledged ==
    \A j \in Jars :
        jar[j].status \in {"Active", "Cancelled"} =>
            jar[j].principalTotal = Pledged(j)

---------------------------------------------------------------------------
(* Solvency.                                                               *)

\* A jar whose money sits in its own account never records more than it
\* holds, so a withdrawal is never silently cut short by the min() in
\* withdraw.
HoldsWhatItRecords ==
    \A j \in Jars :
        jar[j].stake = "None" => funds[j] >= jar[j].totalContributed

\* Every donor of a cancelled jar can still be refunded in full, in any order
\* and whatever the others do: the money is there, and no total underflows.
RefundsCovered ==
    \A j \in Jars :
        jar[j].status = "Cancelled" =>
            /\ jar[j].totalContributed = Pledged(j)
            /\ jar[j].principalTotal = Pledged(j)
            /\ jar[j].stake = "None" => funds[j] >= Pledged(j)

\* The shares a jar records are held at the venue, but for the mSOL its
\* contributors themselves had minted elsewhere: through any prices, fractions,
\* refunds and changes of bank nothing else comes to be missing.  So while all
\* mSOL came to the jar neither the owner's unstaking nor any donor's refund
\* asks for more than there is.  For a jar that can be cancelled the recorded
\* shares are those its donors are owed.
SharesBacked ==
    \A j \in Jars :
        /\ jar[j].stake = "MarinadeSol" =>
              jar[j].sharesTotal <= position[j][Marinade] + elsewhere[j]
        /\ jar[j].stake = "MarginFiUsdc" =>
              jar[j].sharesTotal * SharesScale <=
                  SumOf([bank \in Banks |-> position[j][bank]])
        /\ jar[j].type = "TimeLocked"
              /\ jar[j].status \in {"Active", "Cancelled"} =>
              jar[j].sharesTotal = SharesOwed(j)

---------------------------------------------------------------------------
(* What a step may never do.                                               *)

\* The owner's promise to donors: from creation to its unlock time a locked
\* jar gives up money only after it was cancelled, and then only to return
\* one donor's whole contribution, closing that donor's claim.
LockedFundsMoveOnlyToDonors ==
    [][ \A j \in Jars :
          jar[j].type = "TimeLocked" /\ now < jar[j].unlock
            /\ funds'[j] < funds[j] /\ jar'[j].status # "None" =>
              /\ jar[j].status = "Cancelled"
              /\ \E d \in Donors :
                    /\ Open(j)' = Open(j) \ {d}
                    /\ funds[j] - funds'[j] = contribution[j][d].amount ]_vars

\* What a step brings the treasury, in lamports or in tokens.
FeeTaken == (treasury' - treasury) + (treasuryUsdc' - treasuryUsdc)

\* What a step may have fetched for jar j from a venue: nothing, or what its
\* position there fell by at a price of the venue.
Fetched(j) ==
    LET fall(v) == position[j][v] - position'[j][v]
    IN  {0} \union {SolFor(fall(Marinade), p) : p \in Prices}
            \union {UsdcFor(fall(bank), p) : bank \in Banks, p \in Prices}

\* Whenever an instruction on an existing jar brings the treasury anything, it
\* is within the compiled cap on what the jar and its venue paid out in that
\* step: for SOL, USDC and staked jars, whatever fees were configured before
\* or between partial withdrawals.
FeeWithinCap ==
    [][ \A j \in Jars :
          jar[j].status # "None" /\ jar'[j] # jar[j] /\ FeeTaken > 0 =>
              \E fetched \in Fetched(j) :
                  FeeTaken * BPS_DENOMINATOR <=
                      (funds[j] + fetched - funds'[j])
                          * MAX_WITHDRAW_FEE_BPS ]_vars

---------------------------------------------------------------------------
(* Escrow: the promise a jar makes, as a specification of its own.         *)

Escrow == INSTANCE JarEscrow WITH
    Times <- 0 .. MaxNow,
    time <- now,
    phase <- [j \in Jars |-> jar[j].status],
    lock <- [j \in Jars |-> jar[j].unlock],
    pledge <- [j \in Jars |-> [d \in Donors |-> contribution[j][d].amount]],
    retired <- {j \in Jars : /\ jar[j].status = "None"
                             /\ j[2] < userState[j[1]].jarCount}

\* The jar instructions, with all their bookkeeping, do nothing the escrow
\* does not allow.
ImplementsEscrow == Escrow!EscrowSpec

---------------------------------------------------------------------------
(* Liveness.                                                               *)

\* Refunding and closing a contribution are open to any wallet, and the owner
\* wants the jar's rent back, so each is eventually done while it can be; a
\* donor who wants the refund passes the accounts that pay it.
Fairness ==
    \A j \in Jars :
        /\ WF_vars(CloseJar(j))
        /\ \A d \in Donors :
              /\ WF_vars(PaidRefund(j, d))
              /\ WF_vars(CloseContribution(j, d))

FairSpec == Spec /\ Fairness

\* Three kinds of refund the program cannot promise: mSOL minted elsewhere is
\* not there to be unstaked; shares that lie in two banks, because the
\* administrator changed the bank between two gifts, are asked of one of them;
\* and gifts too small to have bought any mSOL are paid from lamports a staked
\* jar has only if somebody sent them.
RefundsPayable(j) ==
    /\ elsewhere[j] = 0
    /\ jar[j].stake = "MarginFiUsdc" =>
          Cardinality({bank \in Banks : position[j][bank] > 0}) <= 1
    /\ jar[j].stake = "MarinadeSol" /\ jar[j].status = "Cancelled" =>
          funds[j] >= SumOf([d \in Donors |-> IF contribution[j][d].shares = 0
                                              THEN contribution[j][d].amount ELSE 0])

\* With these exceptions a settled jar is eventually closed: nothing else the
\* donors, the owner or the administrator did before can block a refund or
\* leave the contributor count above zero, and neither pausing the program
\* nor changing its bank afterwards stops it.
SettledJarsClose ==
    \A j \in Jars :
        jar[j].status \in {"Withdrawn", "Cancelled"} /\ RefundsPayable(j)
            ~> jar[j].status = "None"
============================================================================

-------------------------- MODULE ConfigMigration --------------------------
(***************************************************************************)
(* migrate_config_v2: growing the Config account of JarConfig in place.    *)
(*                                                                         *)
(* The account is a row of bytes.  A program writes its Config from the    *)
(* start and leaves the bytes behind what it wrote as they were, and       *)
(* pending_admin is an Option whose key takes room only when it is there:  *)
(* accepting a proposal shifts every later field down and leaves a stale   *)
(* tail.  migrate_config_v2 works on the raw bytes of any of the four      *)
(* layouts the program ever had, each the previous one with more fields.   *)
(*                                                                         *)
(* A byte is <<NoKey, n>> for a small number n, or <<k, i>>, the i-th byte *)
(* of key k.  A key has PUBKEY_LEN bytes.  Scalars that the migration does *)
(* not look at are one byte; the three MarginFi keys are one key.          *)
(***************************************************************************)
EXTENDS JarConfig, Sequences, SequencesExt

CONSTANT PUBKEY_LEN

ASSUME MigrationAssumption == PUBKEY_LEN \in Nat \ {0}

VARIABLES
    data,       \* the bytes of the account
    layout      \* which program is deployed: "V1", "V2", "PreTask4", "Current"

migrationVars == <<data, layout>>

Number(n) == <<NoKey, n>>

Zeros(n) == [i \in 1 .. n |-> Number(0)]

KeyBytes(k) ==
    IF k = NoKey THEN Zeros(PUBKEY_LEN)
    ELSE [i \in 1 .. PUBKEY_LEN |-> <<k, i>>]

V1_SIZE == 1 + PUBKEY_LEN + 1 + PUBKEY_LEN + 1

V2_SIZE == V1_SIZE + PUBKEY_LEN

PRE_TASK4_SIZE == V2_SIZE + 1 + PUBKEY_LEN

ConfigSize == PRE_TASK4_SIZE + 1

SizeOf(l) == CASE l = "V1" -> V1_SIZE
               [] l = "V2" -> V2_SIZE
               [] l = "PreTask4" -> PRE_TASK4_SIZE
               [] l = "Current" -> ConfigSize

Fields == [ admin : Keys, pending : Keys \union {NoKey},
            mint : Keys \union {NoKey}, enabled : {0, 1},
            marginfi : Keys \union {NoKey}, lockDays : {0, 1} ]

\* The bytes a program with layout l writes for the fields it knows.
Encode(c, l) ==
    LET v1 == <<Number(1)>> \o KeyBytes(c.admin)
                \o (IF c.pending = NoKey THEN <<Number(0)>>
                    ELSE <<Number(1)>> \o KeyBytes(c.pending))
                \o <<Number(2)>>
        v2 == v1 \o KeyBytes(c.mint)
        pre == v2 \o <<Number(c.enabled)>> \o KeyBytes(c.marginfi)
    IN  CASE l = "V1" -> v1
          [] l = "V2" -> v2
          [] l = "PreTask4" -> pre
          [] l = "Current" -> pre \o <<Number(c.lockDays)>>

\* The account reads as c; it reads as nothing when a field holds no legal value.
Reads(bytes, l, c) == IsPrefix(Encode(c, l), bytes)

Overwrite(bytes, written) ==
    [i \in 1 .. Len(bytes) |-> IF i <= Len(written) THEN written[i] ELSE bytes[i]]

---------------------------------------------------------------------------

FreshConfig(admin) ==
    [ admin |-> admin, pending |-> NoKey, mint |-> NoKey, enabled |-> 0,
      marginfi |-> NoKey, lockDays |-> 0 ]

\* The account as some program's initialize_config left it.
MigrationInit ==
    /\ layout \in {"V1", "V2", "PreTask4", "Current"}
    /\ \E admin \in Keys :
          data = Overwrite(Zeros(SizeOf(layout)),
                           Encode(FreshConfig(admin), layout))

\* An instruction of the deployed program loads the Config, changes it from c
\* to d and writes it back.
Save(c, d) ==
    /\ Reads(data, layout, c)
    /\ Len(Encode(d, layout)) <= Len(data)
    /\ data' = Overwrite(data, Encode(d, layout))
    /\ UNCHANGED layout

SaveProposal(c, newAdmin) ==
    /\ newAdmin # c.admin
    /\ Save(c, [c EXCEPT !.pending = newAdmin])

SaveHandover(c) ==
    /\ c.pending # NoKey
    /\ Save(c, [c EXCEPT !.admin = c.pending, !.pending = NoKey])

SaveMint(c, mint) ==
    /\ layout # "V1"
    /\ Save(c, [c EXCEPT !.mint = mint])

SaveMarginFi(c, enabled, key) ==
    /\ layout \in {"PreTask4", "Current"}
    /\ Save(c, [c EXCEPT !.enabled = enabled, !.marginfi = key])

Deploy ==
    /\ layout' = "Current"
    /\ layout # "Current"
    /\ UNCHANGED data

AdminBytes == SubSeq(data, 2, 1 + PUBKEY_LEN)

PendingTag == data[2 + PUBKEY_LEN]

\* Where the V2 fields really end.
V2ActualEnd ==
    1 + PUBKEY_LEN + 1 + (IF PendingTag = Number(1) THEN PUBKEY_LEN ELSE 0)
        + 1 + PUBKEY_LEN

\* Mutation: the length the account had is not looked at.
ZeroFromV2End == V2ActualEnd

ZeroStart == IF V2ActualEnd > Len(data) THEN V2ActualEnd ELSE Len(data)

MigrateConfigV2(admin) ==
    /\ layout = "Current"
    /\ Len(data) \in {V1_SIZE, V2_SIZE, PRE_TASK4_SIZE, ConfigSize}
    /\ AdminBytes = KeyBytes(admin)
    /\ data' = [ i \in 1 .. ConfigSize |->
                   IF i > ZeroStart \/ i > Len(data) THEN Number(0)
                   ELSE data[i] ]
    /\ UNCHANGED layout

MigrationNext ==
    \/ \E c \in Fields :
          \/ \E newAdmin \in Keys : SaveProposal(c, newAdmin)
          \/ SaveHandover(c)
          \/ \E mint \in Keys : SaveMint(c, mint)
          \/ \E enabled \in {0, 1}, key \in Keys : SaveMarginFi(c, enabled, key)
    \/ Deploy
    \/ \E admin \in Keys : MigrateConfigV2(admin)

MigrationSpec == MigrationInit /\ [][MigrationNext]_migrationVars

---------------------------------------------------------------------------

\* Migrating an account that the current program can read, as a second
\* migration does, changes no field: staking keys set in between survive.
MigrationKeepsFields ==
    [][ \A c \in Fields :
          layout = "Current" /\ Len(data) = ConfigSize
            /\ Reads(data, "Current", c) /\ (\E k \in Keys : MigrateConfigV2(k))
          => Reads(data', "Current", c) ]_migrationVars
============================================================================

------------------------ MODULE ConfigMigrationProofs ------------------------
(***************************************************************************)
(* Proofs about the account of the configuration, for keys of any length   *)
(* and any sequence of programs, instructions and migrations.              *)
(***************************************************************************)
EXTENDS ConfigMigration, TLAPS

Layouts == {"V1", "V2", "PreTask4", "Current"}

Sizes == {V1_SIZE, V2_SIZE, PRE_TASK4_SIZE, ConfigSize}

Byte == (Keys \union {NoKey}) \X Nat

Bytes == Seq(Byte)

AccountOK ==
    /\ data \in Bytes
    /\ Len(data) \in Sizes
    /\ layout \in Layouts

LEMMA SizesNat ==
    /\ PUBKEY_LEN \in Nat /\ V1_SIZE \in Nat /\ V2_SIZE \in Nat
    /\ PRE_TASK4_SIZE \in Nat /\ ConfigSize \in Nat
    /\ \A l \in Layouts : SizeOf(l) \in Sizes
<1>1. PUBKEY_LEN \in Nat
  BY MigrationAssumption
<1>2. V1_SIZE \in Nat
  BY <1>1 DEF V1_SIZE
<1>3. V2_SIZE \in Nat
  BY <1>1, <1>2 DEF V2_SIZE
<1>4. PRE_TASK4_SIZE \in Nat
  BY <1>1, <1>3 DEF PRE_TASK4_SIZE
<1>5. ConfigSize \in Nat
  BY <1>4 DEF ConfigSize
<1>6. \A l \in Layouts : SizeOf(l) \in Sizes
  BY DEF SizeOf, Layouts, Sizes
<1>7. QED
  BY <1>1, <1>2, <1>3, <1>4, <1>5, <1>6

\* A function on the first n positions is a row of n bytes.
LEMMA RowOfBytes ==
    ASSUME NEW n \in Nat, NEW f, f \in [1 .. n -> Byte]
    PROVE  f \in Bytes /\ Len(f) = n
  BY DEF Bytes

LEMMA BytesOf ==
    ASSUME NEW b \in Bytes
    PROVE  Len(b) \in Nat /\ b \in [1 .. Len(b) -> Byte]
  BY DEF Bytes

LEMMA NumberIsByte == \A n \in Nat : Number(n) \in Byte /\ <<Number(n)>> \in Bytes
<1>1. \A n \in Nat : Number(n) \in Byte
  BY DEF Number, Byte
<1>2. QED
  BY <1>1 DEF Bytes

LEMMA KeyIsBytes ==
    ASSUME NEW k \in Keys \union {NoKey}
    PROVE  KeyBytes(k) \in Bytes
<1>1. [i \in 1 .. PUBKEY_LEN |-> Number(0)] \in [1 .. PUBKEY_LEN -> Byte]
  BY NumberIsByte
<1>2. [i \in 1 .. PUBKEY_LEN |-> <<k, i>>] \in [1 .. PUBKEY_LEN -> Byte]
  BY DEF Byte
<1>3. QED
  BY <1>1, <1>2, SizesNat, RowOfBytes DEF KeyBytes, Zeros

LEMMA Joined ==
    ASSUME NEW a \in Bytes, NEW b \in Bytes
    PROVE  a \o b \in Bytes
  BY DEF Bytes

LEMMA EncodeIsBytes ==
    ASSUME NEW c \in Fields, NEW l \in Layouts
    PROVE  Encode(c, l) \in Bytes
<1> DEFINE pending == IF c.pending = NoKey THEN <<Number(0)>>
                      ELSE <<Number(1)>> \o KeyBytes(c.pending)
           head == <<Number(1)>> \o KeyBytes(c.admin)
           v1 == head \o pending \o <<Number(2)>>
           v2 == v1 \o KeyBytes(c.mint)
           pre == v2 \o <<Number(c.enabled)>> \o KeyBytes(c.marginfi)
           now1 == pre \o <<Number(c.lockDays)>>
<1>1. /\ KeyBytes(c.admin) \in Bytes /\ KeyBytes(c.pending) \in Bytes
      /\ KeyBytes(c.mint) \in Bytes /\ KeyBytes(c.marginfi) \in Bytes
  BY KeyIsBytes DEF Fields
<1>2. /\ <<Number(0)>> \in Bytes /\ <<Number(1)>> \in Bytes /\ <<Number(2)>> \in Bytes
      /\ <<Number(c.enabled)>> \in Bytes /\ <<Number(c.lockDays)>> \in Bytes
  BY NumberIsByte DEF Fields
<1>3. pending \in Bytes
  BY <1>1, <1>2, Joined
<1>4. head \in Bytes
  BY <1>1, <1>2, Joined
<1> HIDE DEF pending, head
<1>5. v1 \in Bytes
  BY <1>2, <1>3, <1>4, Joined
<1> HIDE DEF v1
<1>6. v2 \in Bytes
  BY <1>1, <1>5, Joined
<1> HIDE DEF v2
<1>7. pre \in Bytes
  BY <1>1, <1>2, <1>6, Joined
<1> HIDE DEF pre
<1>8. now1 \in Bytes
  BY <1>2, <1>7, Joined
<1>9. Encode(c, l) \in {v1, v2, pre, now1}
  BY DEF Encode, Layouts, v1, v2, pre, now1, head, pending
<1>10. QED
  BY <1>5, <1>6, <1>7, <1>8, <1>9

LEMMA OverwriteIsBytes ==
    ASSUME NEW b \in Bytes, NEW w \in Bytes
    PROVE  Overwrite(b, w) \in Bytes /\ Len(Overwrite(b, w)) = Len(b)
<1>1. /\ Len(b) \in Nat /\ b \in [1 .. Len(b) -> Byte]
      /\ Len(w) \in Nat /\ w \in [1 .. Len(w) -> Byte]
  BY BytesOf
<1>2. Overwrite(b, w) \in [1 .. Len(b) -> Byte]
  BY <1>1 DEF Overwrite
<1>3. QED
  BY <1>1, <1>2, RowOfBytes

LEMMA AccountInit == MigrationInit => AccountOK
<1> SUFFICES ASSUME MigrationInit PROVE AccountOK
  OBVIOUS
<1>1. PICK admin \in Keys :
        data = Overwrite(Zeros(SizeOf(layout)), Encode(FreshConfig(admin), layout))
  BY DEF MigrationInit
<1>2. layout \in Layouts
  BY DEF MigrationInit, Layouts
<1>3. FreshConfig(admin) \in Fields
  BY DEF FreshConfig, Fields
<1>4. PICK n \in Nat : n = SizeOf(layout)
  BY <1>2, SizesNat DEF Sizes
<1>5. Zeros(n) \in Bytes /\ Len(Zeros(n)) = n
  <2>1. Zeros(n) \in [1 .. n -> Byte]
    BY NumberIsByte DEF Zeros
  <2>2. QED
    BY <2>1, RowOfBytes
<1>6. data \in Bytes /\ Len(data) = n
  BY <1>1, <1>2, <1>3, <1>4, <1>5, EncodeIsBytes, OverwriteIsBytes
<1>7. QED
  BY <1>2, <1>4, <1>6, SizesNat DEF AccountOK

LEMMA AccountStep == AccountOK /\ [MigrationNext]_migrationVars => AccountOK'
<1> SUFFICES ASSUME AccountOK, [MigrationNext]_migrationVars PROVE AccountOK'
  OBVIOUS
<1>1. ASSUME NEW c \in Fields, NEW d \in Fields, Save(c, d)
      PROVE  AccountOK'
  BY <1>1, EncodeIsBytes, OverwriteIsBytes DEF Save, AccountOK
<1>2. ASSUME NEW c \in Fields, NEW newAdmin \in Keys, SaveProposal(c, newAdmin)
      PROVE  AccountOK'
  <2>1. [c EXCEPT !.pending = newAdmin] \in Fields
    BY DEF Fields
  <2>2. QED
    BY <1>1, <1>2, <2>1 DEF SaveProposal
<1>3. ASSUME NEW c \in Fields, SaveHandover(c)
      PROVE  AccountOK'
  <2>1. [c EXCEPT !.admin = c.pending, !.pending = NoKey] \in Fields
    BY <1>3 DEF SaveHandover, Fields
  <2>2. QED
    BY <1>1, <1>3, <2>1 DEF SaveHandover
<1>4. ASSUME NEW c \in Fields, NEW mint \in Keys, SaveMint(c, mint)
      PROVE  AccountOK'
  <2>1. [c EXCEPT !.mint = mint] \in Fields
    BY DEF Fields
  <2>2. QED
    BY <1>1, <1>4, <2>1 DEF SaveMint
<1>5. ASSUME NEW c \in Fields, NEW enabled \in {0, 1}, NEW key \in Keys,
             SaveMarginFi(c, enabled, key)
      PROVE  AccountOK'
  <2>1. [c EXCEPT !.enabled = enabled, !.marginfi = key] \in Fields
    BY DEF Fields
  <2>2. QED
    BY <1>1, <1>5, <2>1 DEF SaveMarginFi
<1>6. CASE Deploy
  BY <1>6 DEF Deploy, AccountOK, Layouts
<1>7. ASSUME NEW admin \in Keys, MigrateConfigV2(admin)
      PROVE  AccountOK'
  <2>1. data \in [1 .. Len(data) -> Byte] /\ Len(data) \in Nat
    BY BytesOf DEF AccountOK
  <2>2. data' \in [1 .. ConfigSize -> Byte]
    <3>1. \A i \in 1 .. ConfigSize :
            (IF i > ZeroStart \/ i > Len(data) THEN Number(0) ELSE data[i]) \in Byte
      <4>1. ASSUME NEW i \in 1 .. ConfigSize, ~(i > Len(data))
            PROVE  data[i] \in Byte
        BY <2>1, <4>1, SizesNat
      <4>2. Number(0) \in Byte
        BY NumberIsByte
      <4>3. QED
        BY <4>1, <4>2
    <3>2. QED
      BY <1>7, <3>1 DEF MigrateConfigV2
  <2>3. data' \in Bytes /\ Len(data') = ConfigSize
    BY <2>2, SizesNat, RowOfBytes
  <2>4. QED
    BY <1>7, <2>3 DEF MigrateConfigV2, AccountOK, Sizes
<1>8. CASE UNCHANGED migrationVars
  BY <1>8 DEF migrationVars, AccountOK
<1>9. QED
  BY <1>2, <1>3, <1>4, <1>5, <1>6, <1>7, <1>8 DEF MigrationNext

\* Whatever programs were deployed and however often it was migrated, the
\* account is a row of bytes of one of the four lengths migrate_config_v2 takes,
\* so its length never makes the migration fail.
THEOREM AccountKeepsALength == MigrationSpec => []AccountOK
  BY AccountInit, AccountStep, PTL DEF MigrationSpec

\* What a migration does to the bytes.
Appends ==
    /\ Len(data') = ConfigSize /\ Len(data) <= ConfigSize
    /\ \A i \in 1 .. Len(data) : data'[i] = data[i]
    /\ \A i \in Len(data) + 1 .. ConfigSize : data'[i] = Number(0)

LEMMA MigrationAppends ==
    ASSUME AccountOK, NEW k \in Keys, MigrateConfigV2(k)
    PROVE  Appends
<1>1. Len(data) \in Nat /\ Len(data) <= ConfigSize /\ ConfigSize \in Nat
  BY SizesNat, BytesOf
  DEF AccountOK, Sizes, V1_SIZE, V2_SIZE, PRE_TASK4_SIZE, ConfigSize
<1>2. V2ActualEnd \in Nat
  BY SizesNat DEF V2ActualEnd
<1>3. ZeroStart \in Nat /\ ZeroStart >= Len(data)
  BY <1>1, <1>2 DEF ZeroStart
<1>4. data' = [ i \in 1 .. ConfigSize |->
                  IF i > ZeroStart \/ i > Len(data) THEN Number(0) ELSE data[i] ]
  BY DEF MigrateConfigV2
<1>5. Len(data') = ConfigSize
  BY <1>1, <1>4
<1>6. \A i \in 1 .. Len(data) : data'[i] = data[i]
  BY <1>1, <1>3, <1>4
<1>7. \A i \in Len(data) + 1 .. ConfigSize : data'[i] = Number(0)
  BY <1>1, <1>4
<1>8. QED
  BY <1>1, <1>5, <1>6, <1>7 DEF Appends

\* A migration, from any of the layouts, leaves every byte the account had and
\* fills what it adds with zeros.
THEOREM MigrationOnlyAppends ==
    MigrationSpec => [][\A k \in Keys : MigrateConfigV2(k) => Appends]_migrationVars
<1> DEFINE Appended == \A k \in Keys : MigrateConfigV2(k) => Appends
<1>1. AccountOK /\ [MigrationNext]_migrationVars => [Appended]_migrationVars
  BY MigrationAppends
<1>2. QED
  BY <1>1, AccountInit, AccountStep, PTL DEF MigrationSpec

\* Migrating an account that is up to date loses no field, whatever its history.
THEOREM MigrationIsRepeatable == MigrationSpec => MigrationKeepsFields
<1> DEFINE Kept == \A c \in Fields :
          layout = "Current" /\ Len(data) = ConfigSize
            /\ Reads(data, "Current", c) /\ (\E k \in Keys : MigrateConfigV2(k))
          => Reads(data', "Current", c)
<1>1. ASSUME AccountOK, Len(data) = ConfigSize, NEW k \in Keys, MigrateConfigV2(k)
      PROVE  data' = data
  <2>1. data \in [1 .. ConfigSize -> Byte] /\ ConfigSize \in Nat
    BY <1>1, BytesOf, SizesNat DEF AccountOK
  <2>2. data' \in [1 .. ConfigSize -> {data'[i] : i \in 1 .. ConfigSize}]
    BY <1>1 DEF MigrateConfigV2
  <2>3. \A i \in 1 .. ConfigSize : data'[i] = data[i]
    BY <1>1, MigrationAppends DEF Appends
  <2>4. QED
    BY <2>1, <2>2, <2>3
<1>2. AccountOK /\ [MigrationNext]_migrationVars => [Kept]_migrationVars
  BY <1>1
<1>3. QED
  BY <1>2, AccountInit, AccountStep, PTL DEF MigrationSpec, MigrationKeepsFields
==============================================================================

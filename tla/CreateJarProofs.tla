-------------------------- MODULE CreateJarProofs --------------------------
(***************************************************************************)
(* Proofs about making a jar, for any tabs, wallets and slugs, and any     *)
(* number of jars, presses and attempts.                                   *)
(***************************************************************************)
EXTENDS CreateJar, TLAPS

Steps == {"idle", "state", "initState", "count", "sign", "upload", "put", "create",
          Failed, "done", "finalizing"} \union Linking \union Settled

TabState == [ pc : Steps, press : 0 .. MaxPresses, id : 0 .. MaxJars, tries : Nat,
              signed : BOOLEAN, seen : Nat, slug : Slugs \union {None} ]

Opened == {"done", "finalizing"} \union Settled
Made == Linking \union Opened

\* What the server does for those only that show it a signature.
Checking == {"lookJar", "getTx", "lookSlug", "insert"}

\* The accounts and the server's tables.
SharedType ==
    /\ walletOf \in [Tabs -> Wallets]
    /\ count \in [Wallets -> 0 .. MaxJars + 1 \union {None}]
    /\ onChain \in [Jars -> Contents \union {None}]
    /\ pending \subseteq Jars \X Contents
    /\ bucket \in [Jars -> Contents \union {None}]
    /\ links \in [Slugs -> Jars \union {None}]
    /\ requests \in Nat

\* A jar that is on chain, or may come to be, has metadata; its number was used
\* up; a jar has one link.
SharedOK ==
    /\ \A tx \in pending : bucket[tx[1]] # None
    /\ \A j \in Jars : onChain[j] # None => /\ bucket[j] # None
                                           /\ count[j[1]] # None
                                           /\ j[2] < count[j[1]]
    /\ \A s1, s2 \in Slugs : links[s1] # None /\ links[s1] = links[s2] => s1 = s2

\* A submission, by where it is.
TabOK(t) ==
    /\ tab[t] \in TabState
    /\ tab[t].pc # "idle" => tab[t].press # 0
    /\ tab[t].pc = "create" => bucket[JarOf(t)] # None
    /\ tab[t].pc \in Made /\ tab[t].signed => onChain[JarOf(t)] = ContentsOf(t)
    /\ tab[t].pc \in Checking \/ tab[t].slug # None => tab[t].signed
    /\ tab[t].slug # None => tab[t].pc \in {"insert"} \union Opened
    /\ tab[t].pc \in Opened /\ tab[t].slug # None =>
          links[tab[t].slug] = JarOf(t)

CreateInv ==
    /\ SharedType
    /\ SharedOK
    /\ tab = [t \in Tabs |-> tab[t]]
    /\ \A t \in Tabs : TabOK(t)

\* What one step of a tab, or of nobody, leaves to the others: jars, metadata and
\* links that are there stay.
Kept ==
    /\ walletOf' = walletOf
    /\ \A j \in Jars : /\ bucket[j] # None => bucket'[j] # None
                       /\ onChain[j] # None => onChain'[j] = onChain[j]
    /\ \A s \in Slugs : links[s] # None => links'[s] = links[s]

LEMMA CreateInvInit == Init => CreateInv
  BY CreateAssumption
  DEF Init, CreateInv, SharedType, SharedOK, TabOK, Idle, TabState, Steps, Made,
      Opened, Linking, Checking, Settled, Failed

LEMMA InJars ==
  ASSUME CreateInv, NEW t \in Tabs
  PROVE  /\ JarOf(t) \in Jars
         /\ tab[t].pc # "idle" => ContentsOf(t) \in Contents
         /\ JarOf(t)[1] = walletOf[t] /\ JarOf(t)[2] = tab[t].id
<1>1. walletOf[t] \in Wallets /\ tab[t].id \in 0 .. MaxJars
      /\ tab[t].press \in 0 .. MaxPresses /\ MaxPresses \in Nat
      /\ (tab[t].pc # "idle" => tab[t].press # 0)
  BY CreateAssumption DEF CreateInv, SharedType, TabOK, TabState
<1>2. QED
  BY <1>1 DEF JarOf, ContentsOf, Jars, Contents

LEMMA OthersKeep ==
  ASSUME CreateInv, Kept, NEW t \in Tabs, tab'[t] = tab[t]
  PROVE  TabOK(t)'
<1>1. JarOf(t) \in Jars /\ JarOf(t)' = JarOf(t)
  BY InJars DEF JarOf, Kept
<1>2. ContentsOf(t)' = ContentsOf(t)
  BY DEF ContentsOf
<1>3. TabOK(t) /\ tab[t].slug \in Slugs \union {None}
  BY DEF CreateInv, TabOK, TabState
<1>4. tab[t].pc \in Made => ContentsOf(t) # None /\ tab[t].pc # "idle"
  BY CreateAssumption, InJars DEF Made, Opened, Linking, Checking, Settled
<1>5. JarOf(t) # None
  BY <1>1, CreateAssumption
<1>6. tab[t].pc \in Made /\ tab[t].signed => onChain'[JarOf(t)] = ContentsOf(t)
  BY <1>1, <1>3, <1>4 DEF TabOK, Kept
<1>7. tab[t].pc = "create" => bucket'[JarOf(t)] # None
  BY <1>1, <1>3 DEF TabOK, Kept
<1>8. tab[t].pc \in Opened /\ tab[t].slug # None
        => links'[tab[t].slug] = JarOf(t)
  BY <1>3, <1>5 DEF TabOK, Kept
<1>9. QED
  BY <1>1, <1>2, <1>3, <1>6, <1>7, <1>8 DEF TabOK

\* Only tab t moves, to a state that fits what is there afterwards.
LEMMA OneMoves ==
  ASSUME CreateInv, Kept, NEW t \in Tabs, NEW new,
         tab' = [tab EXCEPT ![t] = new], TabOK(t)', SharedType', SharedOK'
  PROVE  CreateInv'
<1>1. tab' = [u \in Tabs |-> tab'[u]]
  BY DEF CreateInv
<1>2. ASSUME NEW u \in Tabs PROVE TabOK(u)'
  <2>1. CASE u = t
    BY <2>1
  <2>2. CASE u # t
    <3>1. tab'[u] = tab[u]
      BY <2>2 DEF CreateInv
    <3>2. QED
      BY <3>1, OthersKeep
  <2>3. QED
    BY <2>1, <2>2
<1>3. QED
  BY <1>1, <1>2 DEF CreateInv

Tables == <<walletOf, count, onChain, pending, bucket, links>>

\* A step of tab t that changes no table.
LEMMA QuietMoves ==
  ASSUME CreateInv, NEW t \in Tabs, NEW new \in TabState,
         tab' = [tab EXCEPT ![t] = new], UNCHANGED Tables, requests' \in Nat,
         new.pc # "idle" => new.press # 0,
         new.pc # "create",
         new.pc \in Made => /\ tab[t].pc \in Made
                            /\ new.id = tab[t].id /\ new.press = tab[t].press
                            /\ new.signed = tab[t].signed,
         new.pc \in Checking \/ new.slug # None => new.signed,
         new.slug # None => new.pc \in {"insert"} \union Opened,
         new.pc \in Opened /\ new.slug # None => links[new.slug] = JarOf(t)
  PROVE  CreateInv'
<1>1. SharedType' /\ SharedOK' /\ Kept
  BY DEF Tables, CreateInv, SharedType, SharedOK, Kept
<1>2. tab'[t] = new
  BY DEF CreateInv
<1>3. JarOf(t)' = <<walletOf[t], new.id>> /\ ContentsOf(t)' = <<t, new.press>>
  BY <1>2 DEF JarOf, ContentsOf, Tables
<1>4. new.pc \in Made => JarOf(t)' = JarOf(t) /\ ContentsOf(t)' = ContentsOf(t)
  BY <1>3 DEF JarOf, ContentsOf
<1>5. new.pc \in Made /\ new.signed => onChain'[JarOf(t)'] = ContentsOf(t)'
  BY <1>4 DEF CreateInv, TabOK, Tables
<1>6. new.pc \in Opened /\ new.slug # None => links'[new.slug] = JarOf(t)'
  BY <1>4 DEF Tables, Made
<1>7. TabOK(t)'
  BY <1>2, <1>5, <1>6 DEF TabOK
<1>8. QED
  BY <1>1, <1>7, OneMoves

\* The tab goes on to a step that is not reached by making something.
LEMMA GoesOn ==
  ASSUME CreateInv, NEW t \in Tabs, NEW pc \in Steps \ {"create"}, Go(t, pc),
         UNCHANGED Tables, requests' \in Nat, tab[t].pc # "idle",
         pc \in Made => tab[t].pc \in Made, tab[t].pc # "insert",
         pc \in Checking => tab[t].signed,
         tab[t].pc \in Opened => pc \in Opened
  PROVE  CreateInv'
<1> DEFINE new == [tab[t] EXCEPT !.pc = pc]
<1>1. tab' = [tab EXCEPT ![t] = new]
  BY DEF Go
<1>2. TabOK(t) /\ tab[t] \in TabState
  BY DEF CreateInv, TabOK
<1>3. new \in TabState /\ new.pc = pc /\ new.press = tab[t].press
      /\ new.id = tab[t].id /\ new.slug = tab[t].slug
      /\ new.signed = tab[t].signed
  BY <1>2 DEF TabState
<1> HIDE DEF new
<1>4. tab[t].slug # None => pc \in Opened /\ links[tab[t].slug] = JarOf(t)
  BY <1>2 DEF TabOK
<1>5. QED
  BY <1>1, <1>2, <1>3, <1>4, QuietMoves DEF TabOK

LEMMA BeforeSigning ==
  ASSUME CreateInv, NEW t \in Tabs,
         Press(t) \/ ReadState(t) \/ FetchUserJarCount(t) \/ SignMetadataUpload(t)
  PROVE  CreateInv'
<1>1. UNCHANGED Tables /\ requests' \in Nat
  BY DEF Press, ReadState, FetchUserJarCount, SignMetadataUpload, Tables, chain,
         server, CreateInv, SharedType
<1>2. CASE Press(t)
  <2> DEFINE new == [Idle EXCEPT !.pc = "state", !.press = tab[t].press + 1]
  <2>1. tab' = [tab EXCEPT ![t] = new]
    BY <1>2 DEF Press
  <2>2. tab[t].press \in 0 .. MaxPresses /\ tab[t].press < MaxPresses
    BY <1>2 DEF Press, CreateInv, TabOK, TabState
  <2>3. Idle \in TabState /\ Idle.slug = None
    BY CreateAssumption DEF Idle, TabState, Steps
  <2>4. new \in TabState /\ new.pc = "state" /\ new.press # 0 /\ new.slug = None
    <3> DEFINE asked == [Idle EXCEPT !.pc = "state"]
    <3>1. asked \in TabState /\ asked.pc = "state" /\ asked.slug = None
      BY <2>3 DEF TabState, Steps
    <3>2. new = [asked EXCEPT !.press = tab[t].press + 1]
      OBVIOUS
    <3> HIDE DEF asked, new
    <3>3. QED
      BY <2>2, <3>1, <3>2, CreateAssumption DEF TabState
  <2> HIDE DEF new
  <2>5. QED
    BY <1>1, <2>1, <2>4, QuietMoves DEF Made, Opened, Linking, Checking, Settled
<1>3. CASE ReadState(t)
  <2>1. PICK pc \in {"initState", "count", Failed} : Go(t, pc)
    BY <1>3 DEF ReadState
  <2>2. QED
    BY <1>1, <1>3, <2>1, GoesOn
    DEF ReadState, At, Steps, Made, Opened, Linking, Checking, Settled, Failed
<1>4. CASE FetchUserJarCount(t)
  <2>1. CASE Go(t, Failed)
    BY <1>1, <1>4, <2>1, GoesOn
    DEF FetchUserJarCount, At, Steps, Made, Opened, Linking, Checking, Settled, Failed
  <2>2. ASSUME NEW n \in 0 .. MaxJars,
               tab' = [tab EXCEPT ![t].id = n, ![t].pc = "sign"]
        PROVE  CreateInv'
    <3> DEFINE new == [tab[t] EXCEPT !.id = n, !.pc = "sign"]
    <3>1. tab' = [tab EXCEPT ![t] = new]
      BY <2>2 DEF CreateInv
    <3>2. tab[t] \in TabState /\ tab[t].press # 0 /\ tab[t].slug = None
      BY <1>4 DEF FetchUserJarCount, At, CreateInv, TabOK, Opened, Settled
    <3>3. new \in TabState /\ new.pc = "sign" /\ new.press # 0 /\ new.slug = None
      BY <3>2 DEF TabState, Steps
    <3> HIDE DEF new
    <3>4. QED
      BY <1>1, <3>1, <3>3, QuietMoves DEF Made, Opened, Linking, Checking, Settled
  <2>3. QED
    BY <1>4, <2>1, <2>2 DEF FetchUserJarCount
<1>5. CASE SignMetadataUpload(t)
  <2>1. PICK pc \in {"upload", Failed} : Go(t, pc)
    BY <1>5 DEF SignMetadataUpload
  <2>2. QED
    BY <1>1, <1>5, <2>1, GoesOn
    DEF SignMetadataUpload, At, Steps, Made, Opened, Linking, Checking, Settled, Failed
<1>6. QED
  BY <1>2, <1>3, <1>4, <1>5

LEMMA WhileUploading ==
  ASSUME CreateInv, NEW t \in Tabs, UploadArrives(t) \/ PutMetadata(t)
  PROVE  CreateInv'
<1>1. /\ tab[t] \in TabState /\ tab[t].press # 0 /\ tab[t].pc \in {"upload", "put"}
      /\ tab[t].slug = None
  BY DEF UploadArrives, PutMetadata, At, CreateInv, TabOK, Opened, Settled
<1>2. ASSUME RetryUpload(t)
      PROVE  \E new \in TabState :
                /\ tab' = [tab EXCEPT ![t] = new]
                /\ new.press = tab[t].press /\ new.id = tab[t].id
                /\ new.pc \in {"upload", Failed} /\ new.slug = None
  <2>1. PICK pc \in {"upload", Failed} :
          tab' = [tab EXCEPT ![t].tries = @ + 1, ![t].pc = pc]
    BY <1>2 DEF RetryUpload
  <2> DEFINE new == [tab[t] EXCEPT !.tries = @ + 1, !.pc = pc]
  <2>2. tab' = [tab EXCEPT ![t] = new]
    BY <2>1 DEF CreateInv
  <2>3. new \in TabState /\ new.press = tab[t].press /\ new.id = tab[t].id
        /\ new.pc = pc /\ new.slug = None
    <3> DEFINE more == [tab[t] EXCEPT !.tries = @ + 1]
    <3>1. /\ more \in TabState /\ more.press = tab[t].press
          /\ more.id = tab[t].id /\ more.slug = None
      BY <1>1 DEF TabState
    <3>2. new = [more EXCEPT !.pc = pc]
      OBVIOUS
    <3> HIDE DEF more, new
    <3>3. QED
      BY <3>1, <3>2 DEF TabState, Steps
  <2>4. QED
    BY <2>2, <2>3
<1>3. CASE UploadArrives(t)
  <2>1. UNCHANGED Tables /\ requests' \in Nat
    BY <1>3 DEF UploadArrives, Tables, chain, CreateInv, SharedType
  <2>2. CASE Go(t, "put")
    BY <1>1, <2>1, <2>2, GoesOn DEF Steps, Made, Opened, Linking, Checking, Settled
  <2>3. CASE RetryUpload(t)
    BY <1>1, <1>2, <2>1, <2>3, QuietMoves DEF Made, Opened, Linking, Checking, Settled, Failed
  <2>4. QED
    BY <1>3, <2>2, <2>3 DEF UploadArrives
<1>4. CASE PutMetadata(t)
  <2>1. /\ UNCHANGED <<walletOf, count, onChain, pending, links, requests>>
        /\ tab[t].pc = "put"
    BY <1>4 DEF PutMetadata, chain, At
  <2>2. CASE RetryUpload(t) /\ UNCHANGED bucket
    BY <1>1, <1>2, <2>1, <2>2, QuietMoves
    DEF Tables, Made, Opened, Linking, Checking, Settled, Failed, CreateInv, SharedType
  <2>3. CASE /\ bucket' = [bucket EXCEPT ![JarOf(t)] = ContentsOf(t)]
             /\ Uploaded(t) \/ RetryUpload(t)
    <3>1. PICK new \in TabState :
            /\ tab' = [tab EXCEPT ![t] = new]
            /\ new.press = tab[t].press /\ new.id = tab[t].id
            /\ new.pc \in {"create", "upload", Failed} /\ new.slug = None
      <4> DEFINE new == [tab[t] EXCEPT !.pc = "create", !.tries = 0]
      <4>1. new \in TabState /\ new.press = tab[t].press /\ new.id = tab[t].id
            /\ new.pc = "create" /\ new.slug = None
        <5> DEFINE sent == [tab[t] EXCEPT !.pc = "create"]
        <5>1. sent \in TabState /\ sent.press = tab[t].press /\ sent.id = tab[t].id
              /\ sent.pc = "create" /\ sent.slug = None
          BY <1>1 DEF TabState, Steps
        <5>2. new = [sent EXCEPT !.tries = 0]
          OBVIOUS
        <5> HIDE DEF sent, new
        <5>3. QED
          BY <5>1, <5>2 DEF TabState
      <4>2. Uploaded(t) => tab' = [tab EXCEPT ![t] = new]
        BY DEF Uploaded, CreateInv
      <4>3. QED
        BY <1>2, <2>3, <4>1, <4>2
    <3>2. JarOf(t) \in Jars /\ ContentsOf(t) \in Contents /\ ContentsOf(t) # None
      BY <2>1, InJars, CreateAssumption
    <3>3. bucket' \in [Jars -> Contents \union {None}]
          /\ \A j \in Jars : bucket'[j] = IF j = JarOf(t) THEN ContentsOf(t)
                                                          ELSE bucket[j]
      BY <2>3, <3>2 DEF CreateInv, SharedType
    <3>4. SharedType'
      BY <2>1, <3>3 DEF CreateInv, SharedType
    <3>5. Kept
      BY <2>1, <3>2, <3>3 DEF Kept
    <3>6. SharedOK'
      <4>1. \A tx \in pending' : bucket'[tx[1]] # None
        BY <2>1, <3>2, <3>3 DEF CreateInv, SharedType, SharedOK
      <4>2. QED
        BY <2>1, <3>2, <3>3, <4>1 DEF CreateInv, SharedOK
    <3>7. TabOK(t)'
      <4>1. tab'[t] = new /\ JarOf(t)' = JarOf(t)
        BY <2>1, <3>1 DEF CreateInv, JarOf
      <4>2. bucket'[JarOf(t)] # None
        BY <3>2, <3>3
      <4>3. QED
        BY <1>1, <3>1, <4>1, <4>2 DEF TabOK, Made, Opened, Linking, Checking, Settled, Failed
    <3>8. QED
      BY <3>1, <3>4, <3>5, <3>6, <3>7, OneMoves
  <2>4. QED
    BY <1>4, <2>2, <2>3 DEF PutMetadata, server
<1>5. QED
  BY <1>3, <1>4

\* A jar lands at the next address of its wallet: nothing was there.
LEMMA LandsKeeps ==
  ASSUME CreateInv, NEW jar \in Jars, NEW contents \in Contents,
         Lands(jar, contents), bucket[jar] # None,
         UNCHANGED <<walletOf, bucket, links, requests>>,
         \A tx \in pending' : tx \in pending
  PROVE  /\ onChain[jar] = None /\ onChain'[jar] = contents
         /\ SharedType' /\ SharedOK' /\ Kept
<1>1. jar[1] \in Wallets /\ jar[2] \in 0 .. MaxJars /\ MaxJars \in Nat
      /\ jar = <<jar[1], jar[2]>>
  BY CreateAssumption DEF Jars
<1>2. /\ count[jar[1]] = jar[2] /\ jar[2] # None
      /\ count' = [count EXCEPT ![jar[1]] = jar[2] + 1]
      /\ onChain' = [onChain EXCEPT ![jar] = contents]
  BY <1>1, CreateAssumption DEF Lands, CreateInv, SharedType
<1>3. onChain[jar] = None
  BY <1>1, <1>2 DEF CreateInv, SharedOK
<1>4. count' \in [Wallets -> 0 .. MaxJars + 1 \union {None}]
      /\ onChain' \in [Jars -> Contents \union {None}]
  BY <1>1, <1>2 DEF CreateInv, SharedType
<1>5. SharedType'
  BY <1>4 DEF CreateInv, SharedType
<1>6. \A j \in Jars : onChain'[j] = IF j = jar THEN contents ELSE onChain[j]
  BY <1>2 DEF CreateInv, SharedType
<1>7. Kept
  BY <1>3, <1>6 DEF Kept
<1>8. ASSUME NEW j \in Jars, onChain'[j] # None
      PROVE  bucket'[j] # None /\ count'[j[1]] # None /\ j[2] < count'[j[1]]
  <2>1. CASE j = jar
    BY <1>1, <1>2, <2>1, CreateAssumption DEF CreateInv, SharedType
  <2>2. CASE j # jar
    <3>1. onChain[j] # None /\ j[1] \in Wallets /\ j[2] \in 0 .. MaxJars
      BY <1>6, <1>8, <2>2 DEF Jars
    <3>2. bucket[j] # None /\ count[j[1]] # None /\ j[2] < count[j[1]]
      BY <3>1 DEF CreateInv, SharedOK
    <3>3. CASE j[1] = jar[1]
      BY <1>1, <1>2, <3>1, <3>2, <3>3, CreateAssumption DEF CreateInv, SharedType
    <3>4. CASE j[1] # jar[1]
      BY <1>2, <3>2, <3>4 DEF CreateInv, SharedType
    <3>5. QED
      BY <3>3, <3>4
  <2>3. QED
    BY <2>1, <2>2
<1>9. SharedOK'
  BY <1>8 DEF CreateInv, SharedOK
<1>10. QED
  BY <1>2, <1>3, <1>5, <1>6, <1>7, <1>9

LEMMA WhileCreating ==
  ASSUME CreateInv, NEW t \in Tabs, CreateTransaction(t)
  PROVE  CreateInv'
<1>1. /\ tab[t] \in TabState /\ tab[t].press # 0 /\ tab[t].pc = "create"
      /\ tab[t].slug = None /\ bucket[JarOf(t)] # None
  BY DEF CreateTransaction, At, CreateInv, TabOK, TabState, Opened, Settled
<1>2. JarOf(t) \in Jars /\ ContentsOf(t) \in Contents
  BY <1>1, InJars
<1>3. UNCHANGED <<walletOf, bucket, links, requests>>
  BY DEF CreateTransaction, server
<1>4. CASE Go(t, Failed) /\ UNCHANGED <<count, onChain, pending>>
  BY <1>1, <1>3, <1>4, GoesOn
  DEF Tables, CreateInv, SharedType, Steps, Made, Opened, Linking, Checking, Settled, Failed
<1>5. CASE /\ pending' = pending \union {<<JarOf(t), ContentsOf(t)>>}
           /\ Go(t, Failed)
           /\ UNCHANGED <<count, onChain>>
  <2>1. SharedType' /\ Kept
    BY <1>2, <1>3, <1>5 DEF CreateInv, SharedType, Kept
  <2>2. SharedOK'
    BY <1>1, <1>3, <1>5 DEF CreateInv, SharedOK
  <2> DEFINE new == [tab[t] EXCEPT !.pc = Failed]
  <2>3. tab' = [tab EXCEPT ![t] = new]
    BY <1>5 DEF Go
  <2>4. /\ new \in TabState /\ new.pc = Failed /\ new.press = tab[t].press
        /\ new.slug = None
    BY <1>1 DEF TabState, Steps
  <2>5. tab'[t] = new
    BY <2>3 DEF CreateInv
  <2> HIDE DEF new
  <2>6. TabOK(t)'
    BY <1>1, <2>4, <2>5 DEF TabOK, Made, Opened, Linking, Checking, Settled, Failed
  <2>7. QED
    BY <2>1, <2>2, <2>3, <2>6, OneMoves
<1>6. ASSUME NEW signed \in BOOLEAN,
             tab' = [tab EXCEPT ![t].pc = "rate", ![t].signed = signed],
             \/ Lands(JarOf(t), ContentsOf(t)) /\ UNCHANGED pending
             \/ ~signed /\ UNCHANGED <<count, onChain, pending>>
      PROVE  CreateInv'
  <2>1. /\ signed => onChain'[JarOf(t)] = ContentsOf(t)
        /\ SharedType' /\ SharedOK' /\ Kept
    <3>1. CASE Lands(JarOf(t), ContentsOf(t)) /\ UNCHANGED pending
      BY <1>1, <1>2, <1>3, <3>1, LandsKeeps
    <3>2. CASE ~signed /\ UNCHANGED <<count, onChain, pending>>
      BY <1>3, <3>2 DEF CreateInv, SharedType, SharedOK, Kept
    <3>3. QED
      BY <1>6, <3>1, <3>2
  <2> DEFINE new == [tab[t] EXCEPT !.pc = "rate", !.signed = signed]
  <2>2. tab' = [tab EXCEPT ![t] = new]
    BY <1>6 DEF CreateInv
  <2>3. /\ new \in TabState /\ new.pc = "rate" /\ new.press = tab[t].press
        /\ new.id = tab[t].id /\ new.slug = tab[t].slug /\ new.signed = signed
    <3> DEFINE sent == [tab[t] EXCEPT !.pc = "rate"]
    <3>1. /\ sent \in TabState /\ sent.pc = "rate" /\ sent.press = tab[t].press
          /\ sent.id = tab[t].id /\ sent.slug = tab[t].slug
      BY <1>1 DEF TabState, Steps, Linking
    <3>2. new = [sent EXCEPT !.signed = signed]
      OBVIOUS
    <3> HIDE DEF sent, new
    <3>3. QED
      BY <3>1, <3>2 DEF TabState
  <2>4. tab'[t] = new
    BY <2>2 DEF CreateInv
  <2> HIDE DEF new
  <2>5. JarOf(t)' = JarOf(t) /\ ContentsOf(t)' = ContentsOf(t)
    BY <1>3, <2>3, <2>4 DEF JarOf, ContentsOf
  <2>6. TabOK(t)'
    BY <1>1, <2>1, <2>3, <2>4, <2>5 DEF TabOK, Opened, Checking, Settled
  <2>7. QED
    BY <2>1, <2>2, <2>6, OneMoves
<1>7. QED
  BY <1>4, <1>5, <1>6 DEF CreateTransaction

\* Between the landing and the page: the jar is made, and no link is given yet.
LEMMA WhileLinking ==
  ASSUME CreateInv, NEW t \in Tabs,
         ReadRate(t) \/ WriteRate(t) \/ LookUpJar(t) \/ GetTransaction(t)
           \/ AllocateSlug(t)
  PROVE  CreateInv'
<1>1. /\ tab[t] \in TabState /\ tab[t].press # 0 /\ tab[t].slug = None
      /\ tab[t].pc \in Linking \ {"insert"}
      /\ tab[t].pc \in Checking => tab[t].signed
  BY DEF ReadRate, WriteRate, LookUpJar, GetTransaction, AllocateSlug, At,
         CreateInv, TabOK, Opened, Settled, Linking
<1>2. UNCHANGED Tables /\ requests' \in Nat
  <2>1. tab[t].seen \in Nat /\ requests \in Nat
    BY <1>1 DEF TabState, CreateInv, SharedType
  <2>2. QED
    BY <2>1 DEF ReadRate, WriteRate, LookUpJar, GetTransaction, AllocateSlug,
                chain, server, Tables
<1>3. ASSUME NEW pc \in {"done", "lookJar", "getTx", "lookSlug"}, Go(t, pc),
             pc # "done" => tab[t].signed
      PROVE  CreateInv'
  BY <1>1, <1>2, <1>3, GoesOn DEF Steps, Made, Opened, Linking, Checking, Settled
<1>4. ASSUME NEW s \in Slugs, NEW pc \in {"insert", "done"},
             tab' = [tab EXCEPT ![t].pc = pc, ![t].slug = s],
             pc = "done" => links[s] = JarOf(t), tab[t].signed
      PROVE  CreateInv'
  <2> DEFINE on == [tab[t] EXCEPT !.pc = pc]
             new == [tab[t] EXCEPT !.pc = pc, !.slug = s]
  <2>1. tab' = [tab EXCEPT ![t] = new]
    BY <1>4 DEF CreateInv
  <2>2. /\ on \in TabState /\ on.pc = pc /\ on.press = tab[t].press
        /\ on.id = tab[t].id /\ on.signed = tab[t].signed
    BY <1>1 DEF TabState, Steps, Linking
  <2>3. new = [on EXCEPT !.slug = s]
    OBVIOUS
  <2> HIDE DEF on, new
  <2>4. /\ new \in TabState /\ new.pc = pc /\ new.press = tab[t].press
        /\ new.id = tab[t].id /\ new.slug = s /\ new.signed = tab[t].signed
    BY <2>2, <2>3 DEF TabState
  <2>5. QED
    BY <1>1, <1>2, <1>4, <2>1, <2>4, QuietMoves
    DEF Made, Opened, Linking, Checking, Settled
<1>5. CASE ReadRate(t)
  <2>1. ASSUME tab' = [tab EXCEPT ![t].pc = "ratePut", ![t].seen = requests]
        PROVE  CreateInv'
    <3> DEFINE on == [tab[t] EXCEPT !.pc = "ratePut"]
               new == [tab[t] EXCEPT !.pc = "ratePut", !.seen = requests]
    <3>1. tab' = [tab EXCEPT ![t] = new]
      BY <2>1 DEF CreateInv
    <3>2. /\ on \in TabState /\ on.pc = "ratePut" /\ on.press = tab[t].press
          /\ on.id = tab[t].id /\ on.slug = None /\ on.signed = tab[t].signed
      BY <1>1 DEF TabState, Steps, Linking
    <3>3. new = [on EXCEPT !.seen = requests] /\ requests \in Nat
      BY DEF CreateInv, SharedType
    <3> HIDE DEF on, new
    <3>4. /\ new \in TabState /\ new.pc = "ratePut" /\ new.press = tab[t].press
          /\ new.id = tab[t].id /\ new.slug = None
          /\ new.signed = tab[t].signed
      BY <3>2, <3>3 DEF TabState
    <3>5. QED
      BY <1>1, <1>2, <3>1, <3>4, QuietMoves DEF Made, Opened, Linking, Checking, Settled
  <2>2. QED
    BY <1>3, <1>5, <2>1 DEF ReadRate, WithoutLink
<1>6. CASE WriteRate(t)
  BY <1>3, <1>6 DEF WriteRate, WithoutLink
<1>7. CASE LookUpJar(t)
  BY <1>1, <1>3, <1>4, <1>7 DEF LookUpJar, WithLink, At, Checking
<1>8. CASE GetTransaction(t)
  BY <1>1, <1>3, <1>8 DEF GetTransaction, WithoutLink, At, Checking
<1>9. CASE AllocateSlug(t)
  <2>1. PICK s \in Slugs : tab' = [tab EXCEPT ![t].pc = "insert", ![t].slug = s]
    BY <1>9, CreateAssumption DEF AllocateSlug
  <2>2. tab[t].signed
    BY <1>1, <1>9 DEF AllocateSlug, At, Checking
  <2>3. QED
    BY <1>4, <2>1, <2>2
<1>10. QED
  BY <1>5, <1>6, <1>7, <1>8, <1>9

\* A link that is inserted takes a slug nobody has, for a jar that has none.
LEMMA InsertKeeps ==
  ASSUME CreateInv, NEW slug \in Slugs, NEW jar \in Jars, Insert(slug, jar),
         UNCHANGED <<walletOf, count, onChain, pending, bucket, requests>>
  PROVE  /\ links'[slug] = jar
         /\ SharedType' /\ SharedOK' /\ Kept
<1>1. \A s \in Slugs : links'[s] = IF s = slug THEN jar ELSE links[s]
  BY DEF Insert, CreateInv, SharedType
<1>2. SharedType'
  BY DEF Insert, CreateInv, SharedType
<1>3. \A s1, s2 \in Slugs : links'[s1] # None /\ links'[s1] = links'[s2] => s1 = s2
  BY <1>1 DEF Insert, CreateInv, SharedOK
<1>4. SharedOK'
  BY <1>3 DEF CreateInv, SharedOK
<1>5. Kept
  BY <1>1 DEF Insert, Kept
<1>6. QED
  BY <1>1, <1>2, <1>4, <1>5

LEMMA WhileInserting ==
  ASSUME CreateInv, NEW t \in Tabs, CreateShortLink(t)
  PROVE  CreateInv'
<1>1. /\ TabOK(t) /\ tab[t] \in TabState /\ tab[t].press # 0
      /\ tab[t].pc = "insert" /\ tab[t].slug \in Slugs \union {None}
      /\ tab[t].signed
  BY DEF CreateShortLink, At, CreateInv, TabOK, TabState, Checking
<1>2. UNCHANGED <<walletOf, count, onChain, pending, bucket>> /\ requests' \in Nat
      /\ requests' = requests
  BY DEF CreateShortLink, chain, CreateInv, SharedType
<1>3. JarOf(t) \in Jars
  BY InJars
<1>4. PICK slug \in {None, tab[t].slug} :
        /\ tab' = [tab EXCEPT ![t].pc = "done", ![t].slug = slug]
        /\ \/ Insert(tab[t].slug, JarOf(t))
           \/ slug = None /\ UNCHANGED links
  BY DEF CreateShortLink, WithLink
<1> DEFINE on == [tab[t] EXCEPT !.pc = "done"]
           new == [tab[t] EXCEPT !.pc = "done", !.slug = slug]
<1>5. tab' = [tab EXCEPT ![t] = new]
  BY <1>4 DEF CreateInv
<1>6. /\ on \in TabState /\ on.pc = "done" /\ on.press = tab[t].press
      /\ on.id = tab[t].id /\ on.signed = tab[t].signed
  BY <1>1 DEF TabState, Steps
<1>7. new = [on EXCEPT !.slug = slug]
  OBVIOUS
<1> HIDE DEF on, new
<1>8. /\ new \in TabState /\ new.pc = "done" /\ new.press = tab[t].press
      /\ new.id = tab[t].id /\ new.slug = slug /\ new.signed = tab[t].signed
  BY <1>1, <1>4, <1>6, <1>7 DEF TabState
<1>9. CASE slug = None /\ UNCHANGED links
  BY <1>1, <1>2, <1>5, <1>8, <1>9, QuietMoves
  DEF Tables, Made, Opened, Linking, Checking, Settled
<1>10. CASE Insert(tab[t].slug, JarOf(t))
  <2>1. CASE tab[t].slug = None
    <3>1. links' = links /\ slug = None
      BY <1>10, <2>1, <1>4, CreateAssumption DEF Insert, CreateInv, SharedType
    <3>2. QED
      BY <1>9, <3>1
  <2>2. CASE tab[t].slug \in Slugs
    <3>1. /\ links'[tab[t].slug] = JarOf(t)
          /\ SharedType' /\ SharedOK' /\ Kept
      BY <1>2, <1>3, <1>10, <2>2, InsertKeeps
    <3>2. tab'[t] = new
      BY <1>5 DEF CreateInv
    <3>3. JarOf(t)' = JarOf(t) /\ ContentsOf(t)' = ContentsOf(t)
      BY <1>2, <1>8, <3>2 DEF JarOf, ContentsOf
    <3>4. onChain'[JarOf(t)] = ContentsOf(t)
      BY <1>1, <1>2 DEF TabOK, Made, Linking
    <3>5. TabOK(t)'
      BY <1>1, <1>4, <1>8, <3>1, <3>2, <3>3, <3>4 DEF TabOK, Opened, Checking, Settled
    <3>6. QED
      BY <1>5, <3>1, <3>5, OneMoves
  <2>3. QED
    BY <1>1, <2>1, <2>2
<1>11. QED
  BY <1>4, <1>9, <1>10

\* The page opens, or waits: the tab's tries change, its link does not.
LEMMA WhileOpening ==
  ASSUME CreateInv, NEW t \in Tabs, ViewJar(t) \/ PollExists(t)
  PROVE  CreateInv'
<1>1. TabOK(t) /\ tab[t] \in TabState /\ tab[t].pc \in {"done", "finalizing"}
  BY DEF ViewJar, PollExists, At, CreateInv, TabOK
<1>2. UNCHANGED Tables /\ requests' \in Nat
  BY DEF ViewJar, PollExists, chain, server, Tables, CreateInv, SharedType
<1>3. ASSUME NEW pc \in Settled, Go(t, pc) PROVE CreateInv'
  BY <1>1, <1>2, <1>3, GoesOn DEF Steps, Made, Opened, Linking, Checking, Settled
<1>4. ASSUME NEW pc \in {"finalizing", "gaveUp"}, NEW tries \in Nat,
             tab' = [tab EXCEPT ![t].pc = pc, ![t].tries = tries]
      PROVE  CreateInv'
  <2> DEFINE on == [tab[t] EXCEPT !.pc = pc]
             new == [tab[t] EXCEPT !.pc = pc, !.tries = tries]
  <2>1. tab' = [tab EXCEPT ![t] = new]
    BY <1>4 DEF CreateInv
  <2>2. /\ on \in TabState /\ on.pc = pc /\ on.press = tab[t].press
        /\ on.id = tab[t].id /\ on.slug = tab[t].slug
        /\ on.signed = tab[t].signed
    BY <1>1 DEF TabState, Steps, Settled
  <2>3. new = [on EXCEPT !.tries = tries]
    OBVIOUS
  <2> HIDE DEF on, new
  <2>4. /\ new \in TabState /\ new.pc = pc /\ new.press = tab[t].press
        /\ new.id = tab[t].id /\ new.slug = tab[t].slug
        /\ new.signed = tab[t].signed
    BY <2>2, <2>3 DEF TabState
  <2>5. QED
    BY <1>1, <1>2, <2>1, <2>4, QuietMoves
    DEF TabOK, Made, Opened, Linking, Checking, Settled
<1>5. CASE ViewJar(t)
  BY <1>3, <1>4, <1>5 DEF ViewJar, Settled
<1>6. CASE PollExists(t)
  <2>1. tab[t].tries + 1 \in Nat
    BY <1>1 DEF TabState
  <2>2. ASSUME NEW tries \in Nat, NEW pc \in {"finalizing", "gaveUp"},
               tab' = [tab EXCEPT ![t].tries = tries, ![t].pc = pc]
        PROVE  tab' = [tab EXCEPT ![t].pc = pc, ![t].tries = tries]
    BY <2>2, <1>1 DEF CreateInv, TabState
  <2>3. \/ \E pc \in Settled : Go(t, pc)
        \/ \E pc \in {"finalizing", "gaveUp"} :
              tab' = [tab EXCEPT ![t].tries = tab[t].tries + 1, ![t].pc = pc]
    BY <1>6 DEF PollExists, At, Settled
  <2>4. QED
    BY <1>3, <1>4, <2>1, <2>2, <2>3
<1>7. QED
  BY <1>5, <1>6

LEMMA NobodyMoves ==
  ASSUME CreateInv,
         NextMinute \/ (\E tx \in pending : LandsLate(tx)) \/ UNCHANGED vars
  PROVE  CreateInv'
<1>1. SharedType' /\ SharedOK' /\ Kept /\ tab' = tab
  <2>1. CASE NextMinute
    BY <2>1 DEF NextMinute, chain, CreateInv, SharedType, SharedOK, Kept
  <2>2. ASSUME NEW tx \in pending, LandsLate(tx)
        PROVE  SharedType' /\ SharedOK' /\ Kept /\ tab' = tab
    <3>1. /\ tx[1] \in Jars /\ tx[2] \in Contents /\ bucket[tx[1]] # None
          /\ \A other \in pending' : other \in pending
      BY <2>2 DEF LandsLate, CreateInv, SharedType, SharedOK
    <3>2. QED
      BY <2>2, <3>1, LandsKeeps DEF LandsLate, server
  <2>3. CASE UNCHANGED vars
    BY <2>3 DEF vars, CreateInv, SharedType, SharedOK, Kept
  <2>4. QED
    BY <2>1, <2>2, <2>3
<1>2. \A t \in Tabs : TabOK(t)'
  BY <1>1, OthersKeep
<1>3. QED
  BY <1>1, <1>2 DEF CreateInv

\* Making the wallet's account: it had no jars.
LEMMA WhileInitialising ==
  ASSUME CreateInv, NEW t \in Tabs, InitUserState(t)
  PROVE  CreateInv'
<1>1. /\ TabOK(t) /\ tab[t] \in TabState /\ tab[t].press # 0 /\ tab[t].slug = None
      /\ tab[t].pc = "initState"
  BY DEF InitUserState, At, CreateInv, TabOK, Opened, Settled
<1>2. UNCHANGED <<walletOf, onChain, pending, bucket, links, requests>>
  BY DEF InitUserState, server
<1>3. PICK pc \in {"count", Failed} : Go(t, pc)
  BY DEF InitUserState
<1>4. CASE count' = count
  BY <1>1, <1>2, <1>3, <1>4, GoesOn
  DEF Tables, CreateInv, SharedType, Steps, Made, Opened, Linking, Checking, Settled, Failed
<1>5. CASE /\ count[walletOf[t]] = None
           /\ count' = [count EXCEPT ![walletOf[t]] = 0]
  <2>1. 0 \in 0 .. MaxJars + 1
    BY CreateAssumption
  <2>2. SharedType' /\ Kept
    BY <1>2, <1>5, <2>1 DEF CreateInv, SharedType, Kept
  <2>3. \A j \in Jars : onChain[j] # None => count'[j[1]] = count[j[1]]
    <3>1. \A j \in Jars : j[1] \in Wallets
      BY DEF Jars
    <3>2. QED
      BY <1>5, <3>1 DEF CreateInv, SharedType, SharedOK
  <2>4. SharedOK'
    BY <1>2, <2>3 DEF CreateInv, SharedOK
  <2> DEFINE new == [tab[t] EXCEPT !.pc = pc]
  <2>5. tab' = [tab EXCEPT ![t] = new]
    BY <1>3 DEF Go
  <2>6. new \in TabState /\ new.pc = pc /\ new.press # 0 /\ new.slug = None
    BY <1>1 DEF TabState, Steps
  <2>7. tab'[t] = new
    BY <2>5 DEF CreateInv
  <2> HIDE DEF new
  <2>8. TabOK(t)'
    BY <2>6, <2>7 DEF TabOK, Made, Opened, Linking, Checking, Settled, Failed
  <2>9. QED
    BY <2>2, <2>4, <2>5, <2>8, OneMoves
<1>6. QED
  BY <1>4, <1>5 DEF InitUserState

LEMMA CreateInvStep == CreateInv /\ [Next]_vars => CreateInv'
<1> SUFFICES ASSUME CreateInv, [Next]_vars PROVE CreateInv'
  OBVIOUS
<1>1. ASSUME NEW t \in Tabs, Proceed(t) PROVE CreateInv'
  BY <1>1, BeforeSigning, WhileUploading, WhileLinking, WhileInserting, WhileOpening
  DEF Proceed
<1>2. ASSUME NEW t \in Tabs,
             Press(t) \/ InitUserState(t) \/ SignMetadataUpload(t)
               \/ CreateTransaction(t)
      PROVE  CreateInv'
  BY <1>2, BeforeSigning, WhileInitialising, WhileCreating
<1>3. CASE NextMinute \/ (\E tx \in pending : LandsLate(tx)) \/ UNCHANGED vars
  BY <1>3, NobodyMoves
<1>4. QED
  BY <1>1, <1>2, <1>3 DEF Next

\* Whoever gave up on what, no jar is on chain without its metadata.
THEOREM JarsHaveMetadata == Spec => []NoJarWithoutMetadata
<1>1. CreateInv => NoJarWithoutMetadata
  BY DEF CreateInv, SharedOK, NoJarWithoutMetadata
<1>2. QED
  BY <1>1, CreateInvInit, CreateInvStep, PTL DEF Spec

\* For any tabs and any overlap of their transactions: whoever has a signature in
\* hand made the jar at the address, and a link that is opened leads to it.
THEOREM LinkedJarIsOwn == Spec => []SignedIsOwnJar
<1>1. CreateInv => SignedIsOwnJar
  BY DEF CreateInv, TabOK, SignedIsOwnJar, Made, Opened, Linking, Checking, Settled
<1>2. QED
  BY <1>1, CreateInvInit, CreateInvStep, PTL DEF Spec

\* Links are only ever inserted.
LEMMA LinksStay ==
  ASSUME [Next]_vars
  PROVE  links' = links \/ \E slug, jar : Insert(slug, jar)
<1>1. ASSUME NEW t \in Tabs, Proceed(t)
      PROVE  links' = links \/ \E slug, jar : Insert(slug, jar)
  BY <1>1 DEF Proceed, ReadState, FetchUserJarCount, UploadArrives, PutMetadata,
              ReadRate, WriteRate, LookUpJar, GetTransaction, AllocateSlug,
              CreateShortLink, ViewJar, PollExists, chain, server
<1>2. ASSUME NEW t \in Tabs,
             Press(t) \/ InitUserState(t) \/ SignMetadataUpload(t)
               \/ CreateTransaction(t)
      PROVE  links' = links
  BY <1>2 DEF Press, InitUserState, SignMetadataUpload, CreateTransaction, server
<1>3. NextMinute \/ (\E tx \in pending : LandsLate(tx)) \/ UNCHANGED vars
        => links' = links
  BY DEF NextMinute, LandsLate, server, vars
<1>4. QED
  BY <1>1, <1>2, <1>3 DEF Next

\* However many requests overlap, a link leads to one jar for ever, and a jar
\* has one link.
THEOREM LinksStayForGood == Spec => LinksAreForGood
<1>1. CreateInv /\ CreateInv' /\ [Next]_vars =>
        \A s \in Slugs :
            /\ links[s] # None => links'[s] = links[s]
            /\ links'[s] # None =>
                  \A s2 \in Slugs : links'[s2] = links'[s] => s2 = s
  <2> SUFFICES ASSUME CreateInv, CreateInv', [Next]_vars, NEW s \in Slugs
               PROVE  /\ links[s] # None => links'[s] = links[s]
                      /\ links'[s] # None =>
                            \A s2 \in Slugs : links'[s2] = links'[s] => s2 = s
    OBVIOUS
  <2>1. links[s] # None => links'[s] = links[s]
    BY LinksStay DEF Insert, CreateInv, SharedType
  <2>2. links'[s] # None => \A s2 \in Slugs : links'[s2] = links'[s] => s2 = s
    BY DEF CreateInv, SharedOK
  <2>3. QED
    BY <2>1, <2>2
<1>2. QED
  BY <1>1, CreateInvInit, CreateInvStep, PTL DEF Spec, LinksAreForGood
=============================================================================

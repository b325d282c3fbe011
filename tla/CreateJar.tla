------------------------------ MODULE CreateJar ------------------------------
(***************************************************************************)
(* From "Create jar" to the new jar's page: useCreateJar().submit, the     *)
(* SDK calls it makes, the upload of the metadata, the jar's short link    *)
(* and the page that waits for the jar to be visible.                      *)
(*                                                                         *)
(* Tabs belong to the same wallet or to different ones; every await is a   *)
(* step.  A press of the button has contents of its own (a tab and a       *)
(* number), so that contents stand for the metadata and for its hash.  All *)
(* jars have the same title: their links compete for the same slug.  The   *)
(* chain, the wallet, the bucket and the key-value store are external.     *)
(***************************************************************************)
EXTENDS Naturals, FiniteSets

CONSTANTS
    Tabs, Wallets,
    Slugs, Bare,        \* slugs of the one title; the one without a suffix
    MaxJars,            \* bound: jars of a wallet
    MaxPresses,         \* bound: presses of "Create jar" in a tab
    UploadAttempts,     \* 3 in the source
    RateLimit,          \* 10 in the source: links for an address in a minute
    PollAttempts,       \* MAX_ATTEMPTS, 30 in the source
    None

Jars == Wallets \X (0 .. MaxJars)
Contents == Tabs \X (1 .. MaxPresses)

ASSUME CreateAssumption ==
    /\ Bare \in Slugs
    /\ {MaxJars, MaxPresses, RateLimit} \subseteq Nat
    /\ {UploadAttempts, PollAttempts} \subseteq Nat \ {0}
    /\ None \notin Tabs \union Slugs \union Jars \union Contents \union Nat

VARIABLES
    walletOf,       \* the wallet connected in a tab
    count,          \* per wallet: jar_count of its UserState, or None
    onChain,        \* per jar: the contents whose hash it holds, or None
    pending,        \* transactions given up by their tab that may still land
    bucket,         \* per jar: the contents in metadata/<jar>.json, or None
    nonces,         \* contents whose nonce was claimed
    links,          \* per slug: the jar it leads to, or None
    requests,       \* the rate limiter's counter
    tab             \* per tab: where its submission is

vars == <<walletOf, count, onChain, pending, bucket, nonces, links, requests, tab>>

chain == <<walletOf, count, onChain, pending>>
server == <<bucket, nonces, links, requests>>

Idle == [ pc |-> "idle", press |-> 0, id |-> 0, tries |-> 0, signed |-> FALSE,
          seen |-> 0, slug |-> None ]

Failed == "error"
Linking == {"rate", "ratePut", "lookJar", "getTx", "lookSlug", "insert"}
Settled == {"shown", "notFound", "gaveUp"}

TypeOK ==
    /\ walletOf \in [Tabs -> Wallets]
    /\ count \in [Wallets -> 0 .. MaxJars + 1 \union {None}]
    /\ onChain \in [Jars -> Contents \union {None}]
    /\ pending \subseteq Jars \X Contents
    /\ bucket \in [Jars -> Contents \union {None}]
    /\ nonces \subseteq Contents
    /\ links \in [Slugs -> Jars \union {None}]
    /\ requests \in Nat
    /\ tab \in [Tabs ->
         [ pc : {"idle", "state", "initState", "count", "sign", "upload", "put",
                 "create", Failed, "done", "finalizing"} \union Linking \union Settled,
           press : 0 .. MaxPresses, id : 0 .. MaxJars,
           tries : Nat, signed : BOOLEAN, seen : Nat,
           slug : Slugs \union {None} ]]

Init ==
    /\ walletOf \in [Tabs -> Wallets]
    /\ count = [w \in Wallets |-> None]
    /\ onChain = [j \in Jars |-> None]
    /\ pending = {}
    /\ bucket = [j \in Jars |-> None]
    /\ nonces = {}
    /\ links = [s \in Slugs |-> None]
    /\ requests = 0
    /\ tab = [t \in Tabs |-> Idle]

JarOf(t) == <<walletOf[t], tab[t].id>>
ContentsOf(t) == <<t, tab[t].press>>

At(t, pc) == tab[t].pc = pc
Go(t, pc) == tab' = [tab EXCEPT ![t].pc = pc]

---------------------------------------------------------------------------
(* The wallet's UserState and the next jar's number.                       *)

Press(t) ==
    /\ tab[t].pc \in {"idle", Failed}
    /\ tab[t].press < MaxPresses
    /\ tab' = [tab EXCEPT ![t] = [Idle EXCEPT !.pc = "state",
                                              !.press = tab[t].press + 1]]
    /\ UNCHANGED <<chain, server>>

ReadState(t) ==
    /\ At(t, "state")
    /\ \/ Go(t, IF count[walletOf[t]] = None THEN "initState" ELSE "count")
       \/ Go(t, Failed)
    /\ UNCHANGED <<chain, server>>

\* "Already in use" and "already been processed" are as good as having made the
\* account, also when it was not made.
InitUserState(t) ==
    LET w == walletOf[t] IN
    /\ At(t, "initState")
    /\ \/ /\ count[w] = None
          /\ count' = [count EXCEPT ![w] = 0]
          /\ Go(t, "count") \/ Go(t, Failed)
       \/ /\ Go(t, "count") \/ Go(t, Failed)
          /\ UNCHANGED count
    /\ UNCHANGED <<walletOf, onChain, pending, server>>

FetchUserJarCount(t) ==
    LET n == count[walletOf[t]] IN
    /\ At(t, "count")
    /\ \/ /\ n \in 0 .. MaxJars
          /\ tab' = [tab EXCEPT ![t].id = n, ![t].pc = "sign"]
       \/ Go(t, Failed)
    /\ UNCHANGED <<chain, server>>

---------------------------------------------------------------------------
(* Signing and uploading the metadata.                                     *)

SignMetadataUpload(t) ==
    /\ At(t, "sign")
    /\ Go(t, "upload") \/ Go(t, Failed)
    /\ UNCHANGED <<chain, server>>

\* An attempt that failed, on the way there, at the server or on the way back,
\* is repeated with the same nonce.
RetryUpload(t) ==
    tab' = [tab EXCEPT ![t].tries = @ + 1,
                       ![t].pc = IF tab[t].tries + 1 < UploadAttempts
                                 THEN "upload" ELSE Failed]

UploadArrives(t) ==
    /\ At(t, "upload")
    /\ \/ /\ ContentsOf(t) \notin nonces
          /\ nonces' = nonces \union {ContentsOf(t)}
          /\ Go(t, "put")
       \/ RetryUpload(t) /\ UNCHANGED nonces
    /\ UNCHANGED <<chain, bucket, links, requests>>

\* The count of attempts ends with the upload.
Uploaded(t) == tab' = [tab EXCEPT ![t].pc = "create", ![t].tries = 0]

\* Mutation: an upload that was refused counts as done.
PutMetadataLoosely(t) ==
    /\ At(t, "put")
    /\ \/ /\ bucket' = [bucket EXCEPT ![JarOf(t)] = ContentsOf(t)]
          /\ Uploaded(t) \/ RetryUpload(t)
       \/ Uploaded(t) /\ UNCHANGED bucket
    /\ UNCHANGED <<chain, nonces, links, requests>>

\* The cover's checks and the bucket may fail after the nonce was claimed.
PutMetadata(t) ==
    /\ At(t, "put")
    /\ \/ /\ bucket' = [bucket EXCEPT ![JarOf(t)] = ContentsOf(t)]
          /\ Uploaded(t) \/ RetryUpload(t)
       \/ RetryUpload(t) /\ UNCHANGED bucket
    /\ UNCHANGED <<chain, nonces, links, requests>>

---------------------------------------------------------------------------
(* create_jar.                                                             *)

\* The jar's address is made of the count, so it must still be the next one.
Lands(jar, contents) ==
    /\ count[jar[1]] = jar[2]
    /\ onChain' = [onChain EXCEPT ![jar] = contents]
    /\ count' = [count EXCEPT ![jar[1]] = @ + 1]

\* Mutation: a jar at the address is taken for the one just sent.
CreateTransactionRecovers(t) ==
    /\ At(t, "create")
    /\ \/ /\ Lands(JarOf(t), ContentsOf(t))
          /\ tab' = [tab EXCEPT ![t].pc = "rate", ![t].signed = TRUE]
          /\ UNCHANGED pending
       \/ /\ onChain[JarOf(t)] # None
          /\ tab' = [tab EXCEPT ![t].pc = "rate", ![t].signed = TRUE]
          /\ UNCHANGED <<count, onChain, pending>>
       \/ Go(t, Failed) /\ UNCHANGED <<count, onChain, pending>>
    /\ UNCHANGED <<walletOf, server>>

\* It lands, with its signature or, when a resend met the first copy, with an
\* empty one; or a resend met a copy that was executed and failed, and an empty
\* signature is returned all the same; or it is refused; or nobody waits for it
\* any longer.
CreateTransaction(t) ==
    /\ At(t, "create")
    /\ \/ /\ Lands(JarOf(t), ContentsOf(t))
          /\ \E signed \in BOOLEAN :
                tab' = [tab EXCEPT ![t].pc = "rate", ![t].signed = signed]
          /\ UNCHANGED pending
       \/ /\ pending' = pending \union {<<JarOf(t), ContentsOf(t)>>}
          /\ Go(t, Failed)
          /\ UNCHANGED <<count, onChain>>
       \/ /\ tab' = [tab EXCEPT ![t].pc = "rate", ![t].signed = FALSE]
          /\ UNCHANGED <<count, onChain, pending>>
       \/ Go(t, Failed) /\ UNCHANGED <<count, onChain, pending>>
    /\ UNCHANGED <<walletOf, server>>

LandsLate(tx) ==
    /\ tx \in pending
    /\ Lands(tx[1], tx[2])
    /\ pending' = pending \ {tx}
    /\ UNCHANGED <<walletOf, server, tab>>

---------------------------------------------------------------------------
(* POST /api/shortlink.  Whatever goes wrong, the jar's page does without. *)

\* Mutation: a link that was not made fails the creation.
WithoutLinkFails(t) == Go(t, Failed)

WithoutLink(t) == Go(t, "done")

WithLink(t, slug) == tab' = [tab EXCEPT ![t].pc = "done", ![t].slug = slug]

\* The counter is read and written in two steps; a new minute starts at none.
ReadRate(t) ==
    /\ At(t, "rate")
    /\ \/ WithoutLink(t)
       \/ /\ requests < RateLimit
          /\ tab' = [tab EXCEPT ![t].pc = "ratePut", ![t].seen = requests]
    /\ UNCHANGED <<chain, server>>

WriteRate(t) ==
    /\ At(t, "ratePut")
    /\ requests' = tab[t].seen + 1
    /\ IF tab[t].signed THEN Go(t, "lookJar") ELSE WithoutLink(t)
    /\ UNCHANGED <<chain, bucket, nonces, links>>

NextMinute ==
    /\ requests > 0
    /\ requests' = 0
    /\ UNCHANGED <<chain, bucket, nonces, links, tab>>

LookUpJar(t) ==
    /\ At(t, "lookJar")
    /\ IF \E s \in Slugs : links[s] = JarOf(t)
         THEN \E s \in Slugs : links[s] = JarOf(t) /\ WithLink(t, s)
         ELSE Go(t, "getTx")
    /\ UNCHANGED <<chain, server>>

\* The node may not have the transaction yet.
GetTransaction(t) ==
    /\ At(t, "getTx")
    /\ WithoutLink(t) \/ Go(t, "lookSlug")
    /\ UNCHANGED <<chain, server>>

\* The bare slug if it is free, or a free one with a suffix, or at last one
\* that is not looked up.
AllocateSlug(t) ==
    LET free == {s \in Slugs : links[s] = None} IN
    /\ At(t, "lookSlug")
    /\ \E s \in IF Bare \in free THEN {Bare}
                ELSE IF free # {} THEN free ELSE Slugs :
          tab' = [tab EXCEPT ![t].pc = "insert", ![t].slug = s]
    /\ UNCHANGED <<chain, server>>

\* Mutation: a slug or a jar that has a row gets it changed.
InsertOver(slug, jar) ==
    links' = [s \in Slugs |-> IF s = slug THEN jar
                              ELSE IF links[s] = jar THEN None ELSE links[s]]

\* Both columns are unique.
Insert(slug, jar) ==
    /\ links[slug] = None
    /\ \A s \in Slugs : links[s] # jar
    /\ links' = [links EXCEPT ![slug] = jar]

CreateShortLink(t) ==
    LET slug == tab[t].slug IN
    /\ At(t, "insert")
    /\ \/ /\ Insert(slug, JarOf(t))
          /\ \/ WithLink(t, slug)
             \/ tab' = [tab EXCEPT ![t].pc = "done", ![t].slug = None]
       \/ /\ tab' = [tab EXCEPT ![t].pc = "done", ![t].slug = None]
          /\ UNCHANGED links
    /\ UNCHANGED <<chain, bucket, nonces, requests>>

---------------------------------------------------------------------------
(* The jar's page: by its link, or by its address and then with patience.  *)

\* The server that renders it may not see the jar yet.
ViewJar(t) ==
    /\ At(t, "done")
    /\ \/ onChain[JarOf(t)] # None /\ Go(t, "shown")
       \/ IF tab[t].slug = None
            THEN tab' = [tab EXCEPT ![t].pc = "finalizing", ![t].tries = 0]
            ELSE Go(t, "notFound")
    /\ UNCHANGED <<chain, server>>

\* The server that renders the jar next may not see it yet.
PollExists(t) ==
    LET attempt == tab[t].tries + 1 IN
    /\ At(t, "finalizing")
    /\ \/ onChain[JarOf(t)] # None /\ (Go(t, "shown") \/ Go(t, "notFound"))
       \/ tab' = [tab EXCEPT ![t].tries = attempt,
                             ![t].pc = IF attempt >= PollAttempts THEN "gaveUp" ELSE @]
    /\ UNCHANGED <<chain, server>>

---------------------------------------------------------------------------
\* What goes on without the person: all but the button and the wallet.
Proceed(t) ==
    \/ ReadState(t) \/ FetchUserJarCount(t)
    \/ UploadArrives(t) \/ PutMetadata(t)
    \/ ReadRate(t) \/ WriteRate(t) \/ LookUpJar(t) \/ GetTransaction(t)
    \/ AllocateSlug(t) \/ CreateShortLink(t)
    \/ ViewJar(t) \/ PollExists(t)

Next ==
    \/ \E t \in Tabs :
          \/ Press(t)
          \/ InitUserState(t) \/ SignMetadataUpload(t) \/ CreateTransaction(t)
          \/ Proceed(t)
    \/ \E tx \in pending : LandsLate(tx)
    \/ NextMinute

Spec == Init /\ [][Next]_vars

\* Every request of an open tab is answered, or fails, in the end.
Fairness == \A t \in Tabs : WF_vars(Proceed(t))

FairSpec == Spec /\ Fairness

---------------------------------------------------------------------------
(* Properties.                                                             *)

\* A jar on chain has metadata in the bucket, also a jar whose transaction
\* landed when its tab had given up on it.
NoJarWithoutMetadata == \A j \in Jars : onChain[j] # None => bucket[j] # None

\* A press that has its transaction's signature in hand made the jar at its
\* address, never another tab's, and the link it opens leads there; without one
\* ("already been processed", which says nothing of the outcome) it opens no link,
\* only the address, where another tab's jar may be.
SignedIsOwnJar ==
    \A t \in Tabs :
        tab[t].pc \in Linking \union {"done", "finalizing"} \union Settled =>
            /\ tab[t].signed => onChain[JarOf(t)] = ContentsOf(t)
            /\ (tab[t].pc \notin Linking /\ tab[t].slug # None) =>
                  /\ onChain[JarOf(t)] = ContentsOf(t)
                  /\ links[tab[t].slug] = JarOf(t)

\* A link that was given out leads to the same jar for good, however requests
\* for links overlap, and a jar has one link.
LinksAreForGood ==
    [][ \A s \in Slugs :
            /\ links[s] # None => links'[s] = links[s]
            /\ links'[s] # None =>
                  \A s2 \in Slugs : links'[s2] = links'[s] => s2 = s ]_vars

\* Once "Jar created." is said, the tab comes to rest: on the jar's page, on the
\* not-found page of a server that does not see the jar, or having given up the
\* wait.  No answer about the link stops it.
CreationSettles ==
    \A t \in Tabs : (tab[t].pc \in Linking) ~> (tab[t].pc \in Settled)
=============================================================================

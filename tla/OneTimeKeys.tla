---------------------------- MODULE OneTimeKeys ----------------------------
(***************************************************************************)
(* Keeping one-time keys on the server (Crypto.maybeUploadOneTimeKeys and  *)
(* uploadOneTimeKeys, the account in OlmDevice, the counts /sync brings):  *)
(* the keys are made and saved in the account, uploaded, and only then     *)
(* marked as published; another device claims one from the server and uses *)
(* it in the message that opens a session.                                 *)
(***************************************************************************)
EXTENDS Integers, Sequences, SequencesExt, FiniteSets, FiniteSetsExt

CONSTANTS keyLimit,         \* half of what the account can hold
          maxKeysPerCycle,  \* keys made at once
          MaxKeys,          \* bound: one-time keys made in a run
          MaxFallbacks,     \* bound: fallback keys made in a run
          MaxClaims,        \* bound: keys other devices claim
          MaxLost           \* bound: uploads that fail or whose answer is lost, and restarts

ASSUME OneTimeKeysAssumption ==
    /\ {keyLimit, maxKeysPerCycle} \subseteq Nat \ {0}
    /\ {MaxKeys, MaxFallbacks, MaxClaims, MaxLost} \subseteq Nat

VARIABLES
    account,        \* private one-time keys, the oldest first
    unpublished,    \* those of them not marked as published
    fallbacks,      \* fallback keys made so far: the account holds the last two
    oneTimeKeyCount, needsNewFallback,
    upload,         \* the upload loop
    keyServer,      \* one-time keys and fallback key the server hands out
    keyCounts,      \* what the /sync answer under way says of them
    openers,        \* messages on their way, by the key they were made with
    keysMade, claims, keyMishaps, dropped

otkVars == <<account, unpublished, fallbacks, oneTimeKeyCount, needsNewFallback, upload,
             keyServer, keyCounts, openers, keysMade, claims, keyMishaps, dropped>>

Unknown == -1
NoUpload == [at |-> "idle", count |-> 0, keys |-> {}, fallback |-> 0]
NoCounts == [count |-> Unknown, unused |-> FALSE]

\* Every part of the state has its type.
OneTimeKeysTypeOK ==
    /\ Range(account) \subseteq 1 .. keysMade /\ Len(account) <= 2 * keyLimit
    /\ unpublished \subseteq 1 .. keysMade
    /\ oneTimeKeyCount \in 0 .. MaxKeys \cup {Unknown}
    /\ needsNewFallback \in BOOLEAN
    /\ upload.at \in {"idle", "ask", "make", "read", "send", "mark"}
    /\ keyServer.keys \subseteq 1 .. keysMade /\ keyServer.fallback \in 0 .. fallbacks

OneTimeKeysInit ==
    /\ account = <<>> /\ unpublished = {} /\ fallbacks = 0
    /\ oneTimeKeyCount = Unknown /\ needsNewFallback = FALSE
    /\ upload = NoUpload
    /\ keyServer = [keys |-> {}, fallback |-> 0, unused |-> FALSE]
    /\ keyCounts = NoCounts
    /\ openers = {} /\ keysMade = 0 /\ claims = 0 /\ keyMishaps = 0 /\ dropped = {}

accountVars == <<account, unpublished, fallbacks, keysMade, dropped>>

----------------------------------------------------------------------------
\* /sync brings the count and tells whether the fallback key is still unused; what it
\* brings may be older than an upload that ends meanwhile.
syncAnswers ==
    /\ keyCounts = NoCounts
    /\ keyCounts' = [count |-> Cardinality(keyServer.keys), unused |-> keyServer.unused]
    /\ UNCHANGED <<accountVars, oneTimeKeyCount, needsNewFallback, upload, keyServer, openers,
                   claims, keyMishaps>>

\* maybeUploadOneTimeKeys: nothing while a check is in progress, or within a minute of
\* the last (not due).
maybeUploadOneTimeKeys(due) ==
    upload' = IF upload.at = "idle" /\ due THEN [NoUpload EXCEPT !.at = "ask"] ELSE upload

\* The answer is processed: the counts are taken over, and onSyncCompleted checks the keys.
syncProcessed(due) ==
    /\ keyCounts.count # Unknown
    /\ oneTimeKeyCount' = keyCounts.count
    /\ needsNewFallback' = ~keyCounts.unused
    /\ keyCounts' = NoCounts
    /\ maybeUploadOneTimeKeys(due)
    /\ UNCHANGED <<accountVars, keyServer, openers, claims, keyMishaps>>

----------------------------------------------------------------------------
\* uploadLoop

\* The head of the loop, the server being thought to hold n keys.
uploadHead(n) ==
    IF keyLimit > n \/ needsNewFallback THEN [NoUpload EXCEPT !.at = "make", !.count = n]
    ELSE NoUpload

\* The loop starts with the count /sync brought, or asks the server for one; when it
\* ends, the count is forgotten.
loopStarts ==
    LET n == IF oneTimeKeyCount = Unknown THEN Cardinality(keyServer.keys) ELSE oneTimeKeyCount IN
    /\ upload.at = "ask"
    /\ upload' = uploadHead(n)
    /\ oneTimeKeyCount' = IF upload'.at = "idle" THEN Unknown ELSE oneTimeKeyCount
    /\ UNCHANGED <<accountVars, needsNewFallback, keyServer, keyCounts, openers, claims,
                   keyMishaps>>

\* generateOneTimeKeys and generateFallbackKey: a full account drops its oldest keys.
generateKeys ==
    LET n == IF keyLimit > upload.count THEN Min({keyLimit - upload.count, maxKeysPerCycle}) ELSE 0
        all == account \o [i \in 1 .. n |-> keysMade + i]
        over == IF Len(all) > 2 * keyLimit THEN Len(all) - 2 * keyLimit ELSE 0 IN
    /\ upload.at = "make"
    /\ keysMade + n <= MaxKeys /\ (needsNewFallback => fallbacks < MaxFallbacks)
    /\ account' = SubSeq(all, over + 1, Len(all))
    /\ dropped' = dropped \cup Range(SubSeq(all, 1, over))
    /\ keysMade' = keysMade + n
    /\ unpublished' = (unpublished \cup keysMade + 1 .. keysMade + n) \cap Range(account')
    /\ fallbacks' = IF needsNewFallback THEN fallbacks + 1 ELSE fallbacks
    /\ upload' = [upload EXCEPT !.at = "read"]
    /\ UNCHANGED <<oneTimeKeyCount, needsNewFallback, keyServer, keyCounts, openers, claims,
                   keyMishaps>>

\* Mutant: every key of the account is uploaded, not only the unpublished ones.
keysRead_all ==
    /\ upload.at = "read"
    /\ upload' = [upload EXCEPT !.at = "send", !.keys = Range(account),
                                !.fallback = IF needsNewFallback THEN fallbacks ELSE 0]
    /\ needsNewFallback' = FALSE
    /\ UNCHANGED <<accountVars, oneTimeKeyCount, keyServer, keyCounts, openers, claims,
                   keyMishaps>>

\* uploadOneTimeKeys reads what is to be uploaded; that a fallback key is needed is
\* forgotten here, before the upload.
keysRead ==
    /\ upload.at = "read"
    /\ upload' = [upload EXCEPT !.at = "send", !.keys = unpublished,
                                !.fallback = IF needsNewFallback THEN fallbacks ELSE 0]
    /\ needsNewFallback' = FALSE
    /\ UNCHANGED <<accountVars, oneTimeKeyCount, keyServer, keyCounts, openers, claims,
                   keyMishaps>>

\* The server takes the keys; a fallback key replaces the one before it.
stored ==
    [keys |-> keyServer.keys \cup upload.keys,
     fallback |-> IF upload.fallback = 0 THEN keyServer.fallback ELSE upload.fallback,
     unused |-> keyServer.unused \/ upload.fallback # 0]

uploadAnswered ==
    /\ upload.at = "send"
    /\ keyServer' = stored
    /\ upload' = [upload EXCEPT !.at = "mark", !.count = Cardinality(stored.keys)]
    /\ UNCHANGED <<accountVars, oneTimeKeyCount, needsNewFallback, keyCounts, openers, claims,
                   keyMishaps>>

\* The upload fails, before or after the server took the keys: the loop ends.
uploadFailed(taken) ==
    /\ upload.at = "send" /\ keyMishaps < MaxLost
    /\ keyMishaps' = keyMishaps + 1
    /\ keyServer' = IF taken THEN stored ELSE keyServer
    /\ upload' = NoUpload /\ oneTimeKeyCount' = Unknown
    /\ UNCHANGED <<accountVars, needsNewFallback, keyCounts, openers, claims>>

\* All keys of the account are marked as published, and the loop goes round: it throws
\* when the server named no key at all.
markKeysAsPublished ==
    /\ upload.at = "mark"
    /\ unpublished' = {}
    /\ upload' = IF upload.count = 0 THEN NoUpload ELSE uploadHead(upload.count)
    /\ oneTimeKeyCount' = IF upload'.at = "idle" THEN Unknown ELSE oneTimeKeyCount
    /\ UNCHANGED <<account, fallbacks, keysMade, dropped, needsNewFallback, keyServer, keyCounts,
                   openers, claims, keyMishaps>>

\* The page is reloaded: only the account has been saved.
clientRestarts ==
    /\ keyMishaps < MaxLost
    /\ keyMishaps' = keyMishaps + 1
    /\ upload' = NoUpload /\ oneTimeKeyCount' = Unknown /\ needsNewFallback' = FALSE
    /\ keyCounts' = NoCounts
    /\ UNCHANGED <<accountVars, keyServer, openers, claims>>

----------------------------------------------------------------------------
\* Another device claims a key and sends the message that opens a session.  When no
\* one-time key is left it gets the fallback key.
keyClaimed ==
    /\ claims < MaxClaims
    /\ claims' = claims + 1
    /\ \/ \E k \in keyServer.keys :
            /\ keyServer' = [keyServer EXCEPT !.keys = @ \ {k}]
            /\ openers' = openers \cup {[by |-> claims, key |-> k]}
       \/ /\ keyServer.keys = {} /\ keyServer.fallback # 0
          /\ keyServer' = [keyServer EXCEPT !.unused = FALSE]
          /\ openers' = openers
    /\ UNCHANGED <<accountVars, oneTimeKeyCount, needsNewFallback, upload, keyCounts, keyMishaps>>

\* createInboundSession takes the private key out of the account.
keyUsed(m) ==
    /\ m \in openers
    /\ openers' = openers \ {m}
    /\ \E i \in DOMAIN account : account[i] = m.key /\ account' = RemoveAt(account, i)
    /\ unpublished' = unpublished \ {m.key}
    /\ UNCHANGED <<fallbacks, keysMade, dropped, oneTimeKeyCount, needsNewFallback, upload,
                   keyServer, keyCounts, claims, keyMishaps>>

KeyLoop == loopStarts \/ generateKeys \/ keysRead \/ uploadAnswered \/ markKeysAsPublished

OneTimeKeysNext ==
    \/ syncAnswers \/ \E due \in BOOLEAN : syncProcessed(due)
    \/ KeyLoop
    \/ \E taken \in BOOLEAN : uploadFailed(taken)
    \/ clientRestarts
    \/ keyClaimed
    \/ \E m \in openers : keyUsed(m)

OneTimeKeysSpec == OneTimeKeysInit /\ [][OneTimeKeysNext]_otkVars

----------------------------------------------------------------------------
(* Properties.                                                             *)

\* Without a lost answer or a restart, every key the server hands out and every
\* message that was made with one finds its private key in the account, unless
\* the account was full; and no key is handed out twice.
KeyIsHeld ==
    keyMishaps = 0 =>
      /\ \A m \in openers : m.key \in Range(account) \cup dropped
      /\ keyServer.keys \subseteq Range(account) \cup dropped
      /\ \A m, n \in openers : m.key = n.key => m = n

\* The run has made all the keys its bounds allow.
BoundsReached == keysMade + maxKeysPerCycle > MaxKeys \/ fallbacks = MaxFallbacks

\* Once it syncs, the server comes to hold enough one-time keys for good, through claims,
\* counts that are out of date, failed uploads and restarts; and their private
\* keys are held.
PoolIsKept ==
    /\ [](OneTimeKeysTypeOK /\ KeyIsHeld)
    /\ keyCounts # NoCounts ~> [](Cardinality(keyServer.keys) >= keyLimit \/ BoundsReached)
=============================================================================

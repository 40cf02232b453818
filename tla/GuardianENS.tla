---------------------------- MODULE GuardianENS ----------------------------
(***************************************************************************)
(* A guardian's ENS identity: guardmesh-guardian/ens-utils.mjs with its    *)
(* cache, and the bootstrap of guardian-ens-boot.mjs, which also links the *)
(* name in the registry contract. The process makes one call at a time;    *)
(* every awaited call may fail. The ENS records are external and others    *)
(* change them. Time is the age of things in ticks, counted up to Old.     *)
(***************************************************************************)
EXTENDS RegistryENS

CONSTANTS
  Guardian,    \* the agent this process is
  Wallet,      \* the account of its PRIVATE_KEY
  OwnName,     \* ensName of its identity
  Key,         \* METADATA_KEYS
  Text,        \* non-empty values of a text record
  NoText,      \* the empty value
  TTL,         \* CACHE_TTL_MS, in ticks
  MaxChanges   \* bound on calls made of the process and changes by others

ASSUME GuardianAssumption ==
  /\ Guardian \in Agent
  /\ Wallet \in Sender
  /\ OwnName \in Name
  /\ NoText \notin Text /\ None \notin Account
  /\ Key \cap {"addr", "rev"} = {}
  /\ TTL \in Nat
  /\ MaxChanges \in Nat

Old == TTL + 1
Age == 0 .. Old

VARIABLES
  record,    \* ENS: has the name a resolver, and what the resolver holds
  primary,   \* ENS: the primary name of Wallet, None when there is none
  oneChain,  \* RPC_URL leads to the chain of the ENS contracts (the default does not)
  cache,     \* _cache: "addr" of OwnName, "rev" of Wallet, each text of OwnName
  call,      \* what the process is doing
  identity,  \* the config the last bootstrap returned, None before
  answer,    \* per key, what the last getTextRecord returned if it was a record
  age,       \* history: how long ago each value was last the one on record
  changes

guardianVars == <<record, primary, oneChain, cache, call, identity, answer, age, changes>>
allVars      == <<vars, guardianVars>>

CacheKey == {"addr", "rev"} \cup Key
AnyText  == Text \cup {NoText}

Idle == [pc |-> "idle", next |-> "reverse", resolved |-> None, primary |-> None,
         verified |-> FALSE, left |-> {}, key |-> None]

GuardianInit ==
  /\ record = [resolver |-> FALSE, addr |-> None, text |-> [k \in Key |-> NoText]]
  /\ primary = None
  /\ oneChain \in BOOLEAN
  /\ cache = [k \in CacheKey |-> None]
  /\ call = Idle
  /\ identity = None
  /\ answer = [k \in Key |-> None]
  /\ age = [addr |-> [a \in Account |-> Old], text |-> [k \in Key |-> [t \in Text |-> Old]]]
  /\ changes = 0

GuardianTypeOK ==
  /\ record \in [resolver : BOOLEAN, addr : Account \cup {None}, text : [Key -> AnyText]]
  /\ primary \in Name \cup {None}
  /\ \A k \in CacheKey : cache[k] # None => cache[k].age \in Age
  /\ answer \in [Key -> Text \cup {None}]
  /\ age \in [addr : [Account -> Age], text : [Key -> [Text -> Age]]]
  /\ changes \in 0 .. MaxChanges

-----------------------------------------------------------------------------
(* The world outside                                                       *)

Older(n) == IF n = Old THEN Old ELSE n + 1

\* Time passes for the cache and for the records that are no longer current.
Tick ==
  /\ cache' = [k \in CacheKey |-> IF cache[k] = None THEN None
                                  ELSE [cache[k] EXCEPT !.age = Older(@)]]
  /\ age' = [addr |-> [a \in Account |-> IF a = record.addr THEN 0 ELSE Older(age.addr[a])],
             text |-> [k \in Key |-> [t \in Text |->
                        IF t = record.text[k] THEN 0 ELSE Older(age.text[k][t])]]]
  /\ UNCHANGED <<vars, record, primary, oneChain, call, identity, answer, changes>>

Recorded ==
  age' = [addr |-> [a \in Account |-> IF a = record'.addr THEN 0 ELSE age.addr[a]],
          text |-> [k \in Key |-> [t \in Text |->
                     IF t = record'.text[k] THEN 0 ELSE age.text[k][t]]]]

\* The owner of the name at the ENS app, or whoever it was handed to.
OthersWrite ==
  /\ changes < MaxChanges /\ changes' = changes + 1
  /\ \/ record' = [record EXCEPT !.resolver = ~@] /\ UNCHANGED primary
     \/ \E a \in Account \cup {None} : record' = [record EXCEPT !.addr = a] /\ UNCHANGED primary
     \/ \E k \in Key, t \in AnyText : record' = [record EXCEPT !.text[k] = t] /\ UNCHANGED primary
     \/ primary' \in (Name \cup {None}) \ {primary} /\ UNCHANGED record
  /\ Recorded
  /\ UNCHANGED <<vars, oneChain, cache, call, identity, answer>>

\* A restart loses the cache and the call.
Restart ==
  /\ changes < MaxChanges /\ changes' = changes + 1
  /\ cache' = [k \in CacheKey |-> None]
  /\ call' = Idle
  /\ identity' = None
  /\ answer' = [k \in Key |-> None]
  /\ UNCHANGED <<vars, record, primary, oneChain, age>>

-----------------------------------------------------------------------------
(* The cache, and the names and addresses read through it                  *)

\* Mutant: an entry never expires.
Mut_NeverExpires(k) == cache[k]

\* None when there is no entry, or it has expired (it is then deleted, which
\* nothing tells from leaving it: every miss that answers overwrites it).
CacheGet(k) == IF cache[k] # None /\ cache[k].age <= TTL THEN cache[k] ELSE None

CacheSet(k, v) == cache' = [cache EXCEPT ![k] = [value |-> v, age |-> 0]]

\* The process goes on; nothing of the world is touched.
Goes(next) == call' = next /\ UNCHANGED <<vars, record, primary, oneChain, age, changes>>

\* resolveAddress is done: the caller is the bootstrap, before and in its
\* verification; without an address it skips verification and metadata.
\* verifyENSIdentity compares the address with the wallet's.
Resolved(v) ==
  Goes(IF call.next = "reverse"
       THEN [call EXCEPT !.pc = "reverse", !.resolved = v, !.next = "meta"]
       ELSE [call EXCEPT !.pc = "meta", !.verified = (v = Wallet)])

ResolveAddress ==
  /\ call.pc = "resolve"
  /\ LET hit == CacheGet("addr") IN
     \/ hit # None /\ Resolved(hit.value)
     \/ hit = None /\ record.resolver /\ Goes([call EXCEPT !.pc = "addr"])
     \/ hit = None /\ Resolved(None)            \* no resolver, or the call fails
  /\ UNCHANGED <<cache, identity, answer>>

\* resolver.addr(node)
ReadAddr ==
  /\ call.pc = "addr"
  /\ \/ record.addr # None /\ CacheSet("addr", record.addr) /\ Resolved(record.addr)
     \/ UNCHANGED cache /\ Resolved(None)
  /\ UNCHANGED <<identity, answer>>

\* With an address the bootstrap verifies it, by another resolveAddress.
ReverseLookup ==
  /\ call.pc = "reverse"
  /\ LET hit == CacheGet("rev")
         found(n) == Goes([call EXCEPT !.primary = n,
                            !.pc = IF call.resolved = None THEN "registry" ELSE "resolve"])
     IN \/ hit # None /\ found(hit.value) /\ UNCHANGED cache
        \/ hit = None /\ primary # None /\ CacheSet("rev", primary) /\ found(primary)
        \/ hit = None /\ found(None) /\ UNCHANGED cache
  /\ UNCHANGED <<identity, answer>>

-----------------------------------------------------------------------------
(* The rest of the bootstrap                                               *)

\* bootstrapGuardianWithENS up to its first call; the identity it builds is
\* that of the constants. resolveGuardianAddress throws without an address,
\* which the bootstrap catches.
Bootstrap ==
  /\ call.pc = "idle" /\ changes < MaxChanges
  /\ call' = [Idle EXCEPT !.pc = "resolve"] /\ changes' = changes + 1
  /\ UNCHANGED <<vars, record, primary, oneChain, cache, identity, answer, age>>

\* getGuardianMetadata does not ask the cache. It finds the resolver, then reads
\* the records in parallel and keeps those it got.
LoadMetadata ==
  /\ call.pc = "meta"
  /\ \/ record.resolver /\ Goes([call EXCEPT !.pc = "texts"])
     \/ Goes([call EXCEPT !.pc = "registry"])
  /\ UNCHANGED <<cache, identity, answer>>

LoadTexts ==
  /\ call.pc = "texts"
  /\ \E got \in SUBSET {k \in Key : record.text[k] # NoText} :
       Goes([call EXCEPT !.pc = "registry", !.left = got])
  /\ UNCHANGED <<cache, identity, answer>>

\* isRegistered and getAgentENSName, on the registry's chain
SyncRegistry ==
  /\ \/ /\ call.pc = "registry"
        /\ Goes([call EXCEPT !.pc = IF Registered(Guardian) THEN "named" ELSE "auto"])
     \/ /\ call.pc = "named"
        /\ Goes([call EXCEPT !.pc = IF HasENSName(Guardian) THEN "auto" ELSE "assign"])
     \/ call.pc \in {"registry", "named", "assign"} /\ Goes([call EXCEPT !.pc = "auto"])
  /\ UNCHANGED <<cache, identity, answer>>

\* assignENSName is mined
AssignOwnName ==
  /\ call.pc = "assign"
  /\ AssignENSName(Wallet, Guardian, OwnName)
  /\ call' = [call EXCEPT !.pc = "auto"]
  /\ UNCHANGED <<record, primary, oneChain, cache, identity, answer, age, changes>>

\* With ENS_AUTO_REGISTER and no address, registerGuardianSubname is called with
\* the wallet of RPC_URL. It sets owner and resolver, not the address; where
\* there is no ENS its transaction goes through without doing anything.
AutoRegister ==
  /\ call.pc = "auto" /\ call.resolved = None
  /\ call' = [call EXCEPT !.pc = "config"]
  /\ record' = IF oneChain THEN [record EXCEPT !.resolver = TRUE] ELSE record
  /\ UNCHANGED <<vars, primary, oneChain, cache, identity, answer, age, changes>>

\* Not asked for, already resolved, or failed.
NoAutoRegister ==
  /\ call.pc = "auto"
  /\ Goes([call EXCEPT !.pc = "config"])
  /\ UNCHANGED <<cache, identity, answer>>

BuildConfig ==
  /\ call.pc = "config"
  /\ identity' = [resolved |-> call.resolved, primary |-> call.primary,
                  verified |-> call.verified, ownTexts |-> call.left]
  /\ Goes(Idle)
  /\ UNCHANGED <<cache, answer>>

-----------------------------------------------------------------------------
(* Text records                                                            *)

\* getTextRecord answers the empty value when it cannot read.
GetTextRecord(k) ==
  /\ call.pc = "idle"
  /\ LET hit == CacheGet(k)
         returns(t) == answer' = [answer EXCEPT ![k] = IF t = NoText THEN None ELSE t]
     IN \/ hit # None /\ returns(hit.value) /\ UNCHANGED <<cache, call>>
        \/ hit = None /\ returns(NoText) /\ UNCHANGED <<cache, call>>
        \/ /\ hit = None /\ record.resolver
           /\ call' = [call EXCEPT !.pc = "text", !.key = k]
           /\ UNCHANGED <<cache, answer>>
  /\ UNCHANGED <<vars, record, primary, oneChain, identity, age, changes>>

ReadText ==
  /\ call.pc = "text"
  /\ LET k == call.key IN
     \/ /\ CacheSet(k, record.text[k])
        /\ answer' = [answer EXCEPT ![k] = IF record.text[k] = NoText THEN None
                                           ELSE record.text[k]]
     \/ UNCHANGED cache /\ answer' = [answer EXCEPT ![k] = None]
  /\ Goes(Idle) /\ UNCHANGED identity

\* setGuardianMetadata writes the keys one after the other, through the resolver
\* it found first.
SetMetadata(keys) ==
  /\ call.pc = "idle" /\ changes < MaxChanges /\ changes' = changes + 1
  /\ record.resolver
  /\ call' = [call EXCEPT !.pc = "write", !.left = keys]
  /\ UNCHANGED <<vars, record, primary, oneChain, cache, identity, answer, age>>

Written(k, t) ==
  /\ record' = [record EXCEPT !.text[k] = t]
  /\ age' = [age EXCEPT !.text[k] = [u \in Text |-> IF u = t THEN 0 ELSE Old]]
  /\ answer' = [answer EXCEPT ![k] = None]
  /\ call' = IF call.left = {k} THEN Idle ELSE [call EXCEPT !.left = @ \ {k}]
  /\ UNCHANGED <<vars, primary, oneChain, identity, changes>>

\* Mutant: what was cached of the key stays.
Mut_NoInvalidate(k, t) ==
  /\ call.pc = "write" /\ k \in call.left
  /\ Written(k, t) /\ UNCHANGED cache

\* The transaction is mined and its entry of the cache deleted. For the history
\* nothing but the text written counts as recent any more.
WriteText(k, t) ==
  /\ call.pc = "write" /\ k \in call.left
  /\ Written(k, t) /\ cache' = [cache EXCEPT ![k] = None]

\* A transaction fails, or its receipt: it may have been mined all the same. The
\* keys that are left are not written.
WriteFails(k, t) ==
  /\ call.pc = "write" /\ k \in call.left
  /\ call' = Idle
  /\ record' \in {record, [record EXCEPT !.text[k] = t]} /\ Recorded
  /\ UNCHANGED <<vars, primary, oneChain, cache, identity, answer, changes>>

GuardianStep ==
  \/ Bootstrap \/ ResolveAddress \/ ReadAddr \/ ReverseLookup \/ LoadMetadata \/ LoadTexts
  \/ SyncRegistry \/ AssignOwnName \/ AutoRegister \/ NoAutoRegister \/ BuildConfig
  \/ ReadText
  \/ \E k \in Key : GetTextRecord(k)
  \/ \E keys \in SUBSET Key \ {{}} : SetMetadata(keys)
  \/ \E k \in Key, t \in AnyText : WriteText(k, t) \/ WriteFails(k, t)

\* Transactions of the owners in the registry go on beside the guardian.
GuardianNext ==
  \/ GuardianStep \/ Tick \/ OthersWrite \/ Restart
  \/ /\ changes < MaxChanges /\ changes' = changes + 1
     /\ Next
     /\ UNCHANGED <<record, primary, oneChain, cache, call, identity, answer, age>>

GuardianSpec == Init /\ GuardianInit /\ [][GuardianNext]_allVars

(***************************************************************************)
(* Properties                                                              *)
(***************************************************************************)

\* A bootstrap that finds the identity verified rests on an address the name
\* had within the last TTL, however often the name was moved meanwhile and
\* however many bootstraps filled the cache before.
VerifiedWasHeld ==
  [][call'.verified /\ ~call.verified => age.addr[Wallet] <= TTL]_allVars

\* A text record returned was on record within the last TTL, and since the
\* process's own last completed write of it: the cache never answers what the
\* process itself has replaced.
OwnWritesAreRead ==
  [][\A k \in Key : answer'[k] \notin {None, answer[k]}
       => age.text[k][answer'[k]] <= TTL]_allVars

\* The cache tells of others what held within its time to live, and of the
\* process itself what it wrote last.
CacheIsHonest == VerifiedWasHeld /\ OwnWritesAreRead
=============================================================================

------------------------------ MODULE HostProofs ------------------------------
(***************************************************************************)
(* What asynchronous calls keep in step with the host, for any secrets,    *)
(* keys, calls and signals: as long as the calls that found no key did not *)
(* overlap and the saved key could be read there is one key, in memory, in *)
(* its file and in every call in progress, with which the secrets can be   *)
(* read, whatever writes fail (Configuration); signals                     *)
(* escalate and an end is announced as often as it is due (ChildProcess,   *)
(* Docker); the file of a queue stays with its line (DurableQueue); what   *)
(* is known of a record agrees with its file (JsonFiles).                  *)
(***************************************************************************)
EXTENDS Configuration, ChildProcess, Docker, DurableQueue, JsonFiles, QueueProofs

LooksForIt(c) == call[c].at \in {"loading", "loaded", "generating", "encrypting"}
MayBeKey(k) == k \in generated \union {NoKey}

\* Calls hold keys that were generated; none is in progress while the process
\* does not run, and a configuration without a file never reads a key.
CallsInStep ==
  /\ \A c \in Calls : MayBeKey(call[c].key)
  /\ ~running => \A c \in Calls : call[c] = AtRest
  /\ ~path => running /\ \A c \in Calls : call[c].at \notin {"loading", "loaded"}

\* One key: in memory, in its file and in the calls. While there is none, one call
\* at most makes it.
OneKey ==
  /\ cryptKey # NoKey /\ keyFile # NoKey => cryptKey = keyFile
  /\ ~path /\ keyFile # NoKey => cryptKey # NoKey
  /\ KeyUnknown => \A c, d \in Calls : LooksForIt(c) /\ LooksForIt(d) => c = d
  /\ \A c \in Calls :
       /\ call[c].at = "loading" => KeyUnknown \/ keyFile # NoKey
       /\ call[c].at = "generating" => KeyUnknown
       /\ call[c].at \in {"loaded", "encrypting", "saving key"} => call[c].key = KeyInUse
       /\ call[c].at = "saving key" => KeyInUse # NoKey

\* The secrets in memory, those on their way to the file, and those in the file.
Readable ==
  /\ running =>
       /\ \A s \in Secrets : secret[s] \in {NoKey, KeyInUse}
       /\ \A c \in Calls, s \in Secrets : call[c].image[s] \in {NoKey, KeyInUse}
       /\ \A s \in Secrets : file[s] # NoKey =>
            \/ file[s] = keyFile
            \/ KeyInUse = file[s] /\ (unsaved \/ \E c \in Calls : call[c].at \in {"written", "saving key"})
  /\ ~running => \A s \in Secrets : file[s] \in {NoKey, keyFile}

ConfigInv ==
  /\ ConfigTypeOK /\ CallsInStep
  /\ ~overlap /\ ~misread => OneKey
  /\ ~KeyAtRisk => Readable

-----------------------------------------------------------------------------
LEMMA ConfigInitInv == ConfigInit => ConfigInv
<1> SUFFICES ASSUME ConfigInit PROVE ConfigInv
  OBVIOUS
<1>1. AtRest \in CallType /\ AtRest.at = "idle" /\ AtRest.key = NoKey /\ AtRest.image = Empty
  BY DEF AtRest, CallType, MaybeKey, Document, Empty
<1>2. \A c \in Calls : call[c] = AtRest
  BY DEF ConfigInit
<1>3. keyFile \in MaybeKey /\ generated = {keyFile} \ {NoKey} /\ cryptKey = NoKey /\ secret = file
  BY DEF ConfigInit, MaybeKey
<1>4. \A s \in Secrets : file[s] \in {NoKey, keyFile}
  BY DEF ConfigInit, Empty
<1>5. file \in Document
  BY DEF ConfigInit, Document, Empty, MaybeKey
<1>6. ConfigTypeOK
  <2>1. generated \in SUBSET Keys /\ cryptKey \in generated \union {NoKey} /\ keyFile \in generated \union {NoKey}
    BY <1>3 DEF MaybeKey
  <2>2. call \in [Calls -> CallType]
    BY <1>1 DEF ConfigInit
  <2>3. /\ path \in BOOLEAN /\ running \in BOOLEAN /\ torn \in SUBSET {"file", "key"}
        /\ overlap \in BOOLEAN /\ lost \in BOOLEAN /\ misread \in BOOLEAN /\ unsaved \in BOOLEAN
    BY Zenon DEF ConfigInit
  <2>4. QED
    BY <1>3, <1>5, <2>1, <2>2, <2>3, Zenon DEF ConfigTypeOK
<1>7. CallsInStep
  BY <1>1, <1>2 DEF CallsInStep, MayBeKey, ConfigInit
<1>8. OneKey
  BY <1>1, <1>2, <1>3 DEF OneKey, LooksForIt, KeyUnknown, ConfigInit
<1>9. Readable
  BY <1>1, <1>2, <1>3, <1>4 DEF Readable, KeyInUse, Empty, ConfigInit
<1>10. QED
  BY <1>6, <1>7, <1>8, <1>9 DEF ConfigInv, KeyAtRisk

-----------------------------------------------------------------------------
\* No key is known when none is in use; a call at rest holds nothing.
LEMMA NoKeyInUse == ConfigTypeOK => (KeyUnknown <=> KeyInUse = NoKey)
  BY DEF KeyUnknown, KeyInUse

LEMMA RestIsTyped ==
  AtRest \in CallType /\ AtRest.at = "idle" /\ AtRest.key = NoKey /\ AtRest.image = Empty
  BY DEF AtRest, CallType, MaybeKey, Document, Empty

\* One call moves on: the others stay where they are.
LEMMA OneCallMoves ==
  ASSUME call \in [Calls -> CallType], NEW c \in Calls, NEW r \in CallType,
         call' = [call EXCEPT ![c] = r]
  PROVE  /\ call' \in [Calls -> CallType] /\ call'[c] = r
         /\ \A d \in Calls : d # c => call'[d] = call[d]
  OBVIOUS

LEMMA TypesApart ==
  ASSUME ConfigInv
  PROVE  /\ ConfigTypeOK /\ CallsInStep /\ call \in [Calls -> CallType]
         /\ cryptKey \in MaybeKey /\ keyFile \in MaybeKey
         /\ cryptKey \in generated \union {NoKey} /\ keyFile \in generated \union {NoKey}
         /\ secret \in Document /\ file \in Document /\ generated \in SUBSET Keys
<1>1. ConfigTypeOK /\ CallsInStep
  BY Zenon DEF ConfigInv, KeyAtRisk
<1>2. /\ call \in [Calls -> CallType] /\ generated \in SUBSET Keys
      /\ cryptKey \in generated \union {NoKey} /\ keyFile \in generated \union {NoKey}
      /\ secret \in Document /\ file \in Document
  BY <1>1, Zenon DEF ConfigTypeOK
<1>3. QED
  BY <1>1, <1>2 DEF MaybeKey

LEMMA MoreTypes ==
  ASSUME ConfigInv
  PROVE  /\ torn \in SUBSET {"file", "key"} /\ path \in BOOLEAN /\ running \in BOOLEAN
         /\ overlap \in BOOLEAN /\ lost \in BOOLEAN /\ misread \in BOOLEAN /\ unsaved \in BOOLEAN
  BY Zenon DEF ConfigInv, ConfigTypeOK

LEMMA SetSecretInv ==
  ASSUME ConfigInv, NEW c \in Calls, NEW s \in Secrets, SetSecret(c, s)
  PROVE  ConfigInv'
<1> DEFINE a == IF cryptKey # NoKey THEN "encrypting" ELSE IF path THEN "loading" ELSE "generating"
           r == [call[c] EXCEPT !.name = s, !.key = cryptKey, !.at = a]
<1>1. /\ running /\ call[c].at = "idle"
      /\ call' = [call EXCEPT ![c].name = s, ![c].key = cryptKey, ![c].at = a]
      /\ overlap' = (overlap \/ (KeyUnknown /\ LooksForKey))
      /\ path' = path /\ running' = running /\ secret' = secret /\ cryptKey' = cryptKey /\ file' = file
      /\ keyFile' = keyFile /\ torn' = torn /\ generated' = generated /\ lost' = lost /\ misread' = misread /\ unsaved' = unsaved
  BY DEF SetSecret, Idle
<1>2. a \in {"encrypting", "loading", "generating"}
  OBVIOUS
<1>3. call' = [call EXCEPT ![c] = r]
  BY <1>1, TypesApart
<1>4. /\ r \in CallType /\ r.at = a /\ r.key = cryptKey /\ r.image = call[c].image
  <2> HIDE DEF a
  <2> QED
    BY <1>2, TypesApart DEF CallType
<1>5. /\ call' \in [Calls -> CallType]
      /\ call'[c].at = a /\ call'[c].key = cryptKey /\ call'[c].image = call[c].image
      /\ \A d \in Calls : d # c => call'[d] = call[d]
  <2> HIDE DEF a, r
  <2> QED
    BY <1>3, <1>4, TypesApart, OneCallMoves
<1>6. ConfigTypeOK'
  <2>1. overlap' \in BOOLEAN
    BY <1>1, Zenon
  <2>2. QED
    BY <1>1, <1>5, <2>1, MoreTypes, TypesApart, Zenon DEF ConfigTypeOK
<1>7. CallsInStep'
  <2>1. \A d \in Calls : call'[d].key \in generated' \union {NoKey}
    BY <1>1, <1>5, TypesApart DEF CallsInStep, MayBeKey
  <2>2. ~path' => running' /\ \A d \in Calls : call'[d].at \notin {"loading", "loaded"}
    BY <1>1, <1>5, TypesApart DEF CallsInStep
  <2>3. QED
    BY <1>1, <2>1, <2>2 DEF CallsInStep, MayBeKey
<1>8. ASSUME ~overlap', ~misread' PROVE OneKey'
  <2>1. OneKey /\ ~(KeyUnknown /\ LooksForKey)
    BY <1>1, <1>8 DEF ConfigInv, KeyAtRisk
  <2>2. KeyUnknown' = KeyUnknown /\ KeyInUse' = KeyInUse
    BY <1>1 DEF KeyUnknown, KeyInUse
  <2>3. KeyUnknown => \A d \in Calls : ~LooksForIt(d)
    BY <2>1 DEF LooksForKey, LooksForIt
  <2>4. QED
    BY <1>1, <1>2, <1>5, <2>1, <2>2, <2>3, TypesApart DEF OneKey, LooksForIt, KeyUnknown, KeyInUse
<1>9. ASSUME ~overlap', ~misread', ~lost' PROVE Readable'
  <2>1. Readable
    BY <1>1, <1>9 DEF ConfigInv, KeyAtRisk
  <2>2. KeyInUse' = KeyInUse
    BY <1>1 DEF KeyInUse
  <2>3. QED
    BY <1>1, <1>2, <1>5, <2>1, <2>2 DEF Readable
<1>10. QED
  BY <1>6, <1>7, <1>8, <1>9 DEF ConfigInv, KeyAtRisk

LEMMA GetSecretInv ==
  ASSUME ConfigInv, NEW c \in Calls, NEW s \in Secrets, GetSecret(c, s)
  PROVE  ConfigInv'
<1> DEFINE r == [call[c] EXCEPT !.name = s, !.reads = TRUE, !.at = "loading"]
<1>1. /\ running /\ call[c].at = "idle" /\ path /\ cryptKey = NoKey
      /\ call' = [call EXCEPT ![c].name = s, ![c].reads = TRUE, ![c].at = "loading"]
      /\ overlap' = (overlap \/ (KeyUnknown /\ LooksForKey))
      /\ path' = path /\ running' = running /\ secret' = secret /\ cryptKey' = cryptKey /\ file' = file
      /\ keyFile' = keyFile /\ torn' = torn /\ generated' = generated /\ lost' = lost /\ misread' = misread /\ unsaved' = unsaved
  BY DEF GetSecret, Idle
<1>2. call' = [call EXCEPT ![c] = r]
  BY <1>1, TypesApart
<1>3. /\ r \in CallType /\ r.at = "loading" /\ r.key = call[c].key /\ r.image = call[c].image
  BY TypesApart DEF CallType
<1>4. /\ call' \in [Calls -> CallType]
      /\ call'[c].at = "loading" /\ call'[c].key = call[c].key /\ call'[c].image = call[c].image
      /\ \A d \in Calls : d # c => call'[d] = call[d]
  <2> HIDE DEF r
  <2> QED
    BY <1>2, <1>3, TypesApart, OneCallMoves
<1>5. ConfigTypeOK'
  <2>1. overlap' \in BOOLEAN
    BY <1>1, Zenon
  <2>2. QED
    BY <1>1, <1>4, <2>1, MoreTypes, TypesApart, Zenon DEF ConfigTypeOK
<1>6. CallsInStep'
  <2>1. \A d \in Calls : call'[d].key \in generated' \union {NoKey}
    BY <1>1, <1>4, TypesApart DEF CallsInStep, MayBeKey
  <2>2. QED
    BY <1>1, <2>1 DEF CallsInStep, MayBeKey
<1>7. ASSUME ~overlap', ~misread' PROVE OneKey'
  <2>1. OneKey /\ ~(KeyUnknown /\ LooksForKey)
    BY <1>1, <1>7 DEF ConfigInv, KeyAtRisk
  <2>2. KeyUnknown' = KeyUnknown /\ KeyInUse' = KeyInUse
    BY <1>1 DEF KeyUnknown, KeyInUse
  <2>3. KeyUnknown => \A d \in Calls : ~LooksForIt(d)
    BY <2>1 DEF LooksForKey, LooksForIt
  <2>4. QED
    BY <1>1, <1>4, <2>1, <2>2, <2>3, TypesApart DEF OneKey, LooksForIt, KeyUnknown, KeyInUse
<1>8. ASSUME ~overlap', ~misread', ~lost' PROVE Readable'
  <2>1. Readable
    BY <1>1, <1>8 DEF ConfigInv, KeyAtRisk
  <2>2. KeyInUse' = KeyInUse
    BY <1>1 DEF KeyInUse
  <2>3. QED
    BY <1>1, <1>4, <2>1, <2>2 DEF Readable
<1>9. QED
  BY <1>5, <1>6, <1>7, <1>8 DEF ConfigInv, KeyAtRisk

\* While a saved key can be read, what loadKey() answers is that key.
LEMMA LoadKeyInv ==
  ASSUME ConfigInv, NEW c \in Calls, LoadKey(c)
  PROVE  ConfigInv'
<1>1. /\ call[c].at = "loading"
      /\ path' = path /\ running' = running /\ secret' = secret /\ cryptKey' = cryptKey /\ file' = file
      /\ keyFile' = keyFile /\ torn' = torn /\ generated' = generated /\ overlap' = overlap
      /\ lost' = lost /\ unsaved' = unsaved
  BY DEF LoadKey
<1>2. PICK r \in CallType :
        /\ call' = [call EXCEPT ![c] = r]
        /\ r.image \in {call[c].image, Empty}
        /\ r.at \in {"loaded", "idle"} /\ r.key \in {keyFile, NoKey}
        /\ misread' \in BOOLEAN
        /\ ~misread' => ~misread /\ (r.at = "loaded" => r.key = keyFile)
  <2>1. CASE call' = [call EXCEPT ![c] = AtRest] /\ misread' = misread
    BY <2>1, RestIsTyped, MoreTypes
  <2>2. ASSUME NEW k \in {keyFile, NoKey}, ReadsKey(k),
               call' = [call EXCEPT ![c].at = "loaded", ![c].key = k]
        PROVE  \E r \in CallType :
                 /\ call' = [call EXCEPT ![c] = r]
                 /\ r.image \in {call[c].image, Empty}
                 /\ r.at \in {"loaded", "idle"} /\ r.key \in {keyFile, NoKey}
                 /\ misread' \in BOOLEAN
                 /\ ~misread' => ~misread /\ (r.at = "loaded" => r.key = keyFile)
    <3> DEFINE q == [call[c] EXCEPT !.at = "loaded", !.key = k]
    <3>1. /\ q \in CallType /\ q.at = "loaded" /\ q.key = k /\ q.image = call[c].image
          /\ call' = [call EXCEPT ![c] = q]
      BY <2>2, TypesApart DEF CallType, MaybeKey
    <3>2. CASE misread' = misread /\ k = keyFile
      BY <3>1, <3>2, MoreTypes
    <3>3. CASE misread' = (misread \/ keyFile # NoKey) /\ k = NoKey
      <4>1. misread' \in BOOLEAN /\ (~misread' => ~misread /\ keyFile = NoKey)
        BY <3>3, Zenon
      <4> HIDE DEF q
      <4>2. QED
        BY <3>1, <3>3, <4>1
    <3>4. QED
      BY <2>2, <3>2, <3>3, Zenon DEF ReadsKey
  <2>3. QED
    BY <2>1, <2>2 DEF LoadKey, Returns
<1>4. /\ call' \in [Calls -> CallType]
      /\ call'[c] = r
      /\ \A d \in Calls : d # c => call'[d] = call[d]
  BY <1>2, TypesApart, OneCallMoves
<1>5. path /\ running
  BY <1>1, TypesApart, RestIsTyped DEF CallsInStep
<1>6. ConfigTypeOK'
  BY <1>1, <1>2, <1>4, MoreTypes, TypesApart, Zenon DEF ConfigTypeOK
<1>7. CallsInStep'
  <2>1. \A d \in Calls : call'[d].key \in generated' \union {NoKey}
    BY <1>1, <1>2, <1>4, TypesApart DEF CallsInStep, MayBeKey
  <2>2. QED
    BY <1>1, <1>5, <2>1 DEF CallsInStep, MayBeKey
<1>8. ASSUME ~overlap', ~misread' PROVE OneKey'
  <2>1. OneKey /\ (r.at = "loaded" => r.key = keyFile)
    BY <1>1, <1>2, <1>8 DEF ConfigInv
  <2>2. KeyUnknown' = KeyUnknown /\ KeyInUse' = KeyInUse
    BY <1>1 DEF KeyUnknown, KeyInUse
  <2>3. keyFile = KeyInUse
    BY <1>1, <2>1 DEF OneKey, KeyUnknown, KeyInUse
  <2>4. QED
    BY <1>1, <1>2, <1>4, <1>5, <2>1, <2>2, <2>3 DEF OneKey, LooksForIt
<1>9. ASSUME ~overlap', ~misread', ~lost' PROVE Readable'
  <2>1. Readable
    BY <1>1, <1>2, <1>9 DEF ConfigInv, KeyAtRisk
  <2>2. KeyInUse' = KeyInUse
    BY <1>1 DEF KeyInUse
  <2>3. \A d \in Calls, s \in Secrets : call'[d].image[s] \in {NoKey, KeyInUse}
    <3>1. \A d \in Calls, s \in Secrets : call[d].image[s] \in {NoKey, KeyInUse}
      BY <1>5, <2>1 DEF Readable
    <3>2. \A s \in Secrets : call'[c].image[s] \in {NoKey, KeyInUse}
      BY <1>2, <1>4, <3>1 DEF Empty
    <3>3. QED
      BY <1>4, <3>1, <3>2
  <2>4. \A d \in Calls : call[d].at \in {"written", "saving key"} => call'[d] = call[d]
    BY <1>1, <1>4
  <2>5. QED
    BY <1>1, <1>4, <1>5, <2>1, <2>2, <2>3, <2>4 DEF Readable
<1>10. QED
  BY <1>6, <1>7, <1>8, <1>9 DEF ConfigInv, KeyAtRisk

LEMMA KeyLoadedInv ==
  ASSUME ConfigInv, NEW c \in Calls, KeyLoaded(c)
  PROVE  ConfigInv'
<1> DEFINE r == IF call[c].reads THEN AtRest ELSE [call[c] EXCEPT !.at = "encrypting"]
<1>1. /\ call[c].at = "loaded" /\ cryptKey' = call[c].key
      /\ path' = path /\ running' = running /\ secret' = secret /\ file' = file
      /\ keyFile' = keyFile /\ torn' = torn /\ generated' = generated /\ overlap' = overlap /\ lost' = lost /\ misread' = misread /\ unsaved' = unsaved
  BY DEF KeyLoaded, histories
<1>2. call' = [call EXCEPT ![c] = r]
  <2>1. CASE call[c].reads
    BY <2>1 DEF KeyLoaded, Returns
  <2>2. CASE ~call[c].reads
    BY <2>2, TypesApart DEF KeyLoaded
  <2>3. QED
    BY <2>1, <2>2
<1>3. /\ r \in CallType
      /\ r.at = "idle" \/ (r.at = "encrypting" /\ r.key = call[c].key)
      /\ r.key \in {NoKey, call[c].key} /\ r.image \in {Empty, call[c].image}
  <2>1. CASE call[c].reads
    BY <2>1, RestIsTyped
  <2>2. CASE ~call[c].reads
    BY <2>2, TypesApart DEF CallType
  <2>3. QED
    BY <2>1, <2>2
<1>4. /\ call' \in [Calls -> CallType]
      /\ call'[c].at = "idle" \/ (call'[c].at = "encrypting" /\ call'[c].key = call[c].key)
      /\ call'[c].key \in {NoKey, call[c].key} /\ call'[c].image \in {Empty, call[c].image}
      /\ \A d \in Calls : d # c => call'[d] = call[d]
  <2> HIDE DEF r
  <2> QED
    BY <1>2, <1>3, TypesApart, OneCallMoves
<1>5. path /\ running /\ call[c].key \in generated \union {NoKey}
  BY <1>1, TypesApart, RestIsTyped DEF CallsInStep, MayBeKey
<1>6. ConfigTypeOK'
  BY <1>1, <1>4, <1>5, MoreTypes, TypesApart, Zenon DEF ConfigTypeOK
<1>7. CallsInStep'
  <2>1. \A d \in Calls : call'[d].key \in generated' \union {NoKey}
    BY <1>1, <1>4, TypesApart DEF CallsInStep, MayBeKey
  <2>2. QED
    BY <1>1, <1>5, <2>1 DEF CallsInStep, MayBeKey
<1>8. ASSUME ~overlap', ~misread' PROVE OneKey /\ OneKey' /\ KeyInUse' = KeyInUse
  <2>1. OneKey
    BY <1>1, <1>8 DEF ConfigInv, KeyAtRisk
  <2>2. cryptKey' = KeyInUse
    BY <1>1, <2>1 DEF OneKey
  <2>3. KeyInUse' = KeyInUse /\ KeyUnknown' = KeyUnknown
    BY <1>1, <2>1, <2>2 DEF OneKey, KeyInUse, KeyUnknown
  <2>4. keyFile # NoKey => keyFile = KeyInUse
    BY <2>1 DEF OneKey, KeyInUse
  <2>5. \A d \in Calls : LooksForIt(d)' => LooksForIt(d)
    BY <1>1, <1>4 DEF LooksForIt
  <2>6. KeyUnknown' => \A d, f \in Calls : LooksForIt(d)' /\ LooksForIt(f)' => d = f
    BY <2>1, <2>3, <2>5 DEF OneKey
  <2>7. ASSUME NEW d \in Calls
        PROVE  /\ call'[d].at = "loading" => KeyUnknown' \/ keyFile' # NoKey
               /\ call'[d].at = "generating" => KeyUnknown'
               /\ call'[d].at \in {"loaded", "encrypting", "saving key"} => call'[d].key = KeyInUse'
               /\ call'[d].at = "saving key" => KeyInUse' # NoKey
    <3>1. CASE d = c
      BY <1>1, <1>4, <2>1, <2>3, <3>1 DEF OneKey
    <3>2. CASE d # c
      BY <1>1, <1>4, <2>1, <2>3, <2>7, <3>2 DEF OneKey
    <3>3. QED
      BY <3>1, <3>2
  <2>8. QED
    BY <1>1, <1>5, <2>1, <2>2, <2>3, <2>4, <2>6, <2>7 DEF OneKey
<1>9. ASSUME ~overlap', ~misread', ~lost' PROVE Readable'
  <2>1. Readable /\ KeyInUse' = KeyInUse
    BY <1>1, <1>8, <1>9 DEF ConfigInv, KeyAtRisk
  <2>2. \A s \in Secrets : Empty[s] = NoKey
    BY DEF Empty
  <2>3. \A d \in Calls, s \in Secrets : call'[d].image[s] \in {NoKey, KeyInUse'}
    <3>1. \A d \in Calls, s \in Secrets : call[d].image[s] \in {NoKey, KeyInUse'}
      BY <1>1, <1>5, <2>1 DEF Readable
    <3>2. \A s \in Secrets : call'[c].image[s] \in {NoKey, KeyInUse'}
      BY <1>4, <2>2, <3>1
    <3>3. QED
      BY <1>4, <3>1, <3>2
  <2>4. QED
    BY <1>1, <1>4, <1>5, <2>1, <2>3 DEF Readable
<1>10. QED
  BY <1>6, <1>7, <1>8, <1>9 DEF ConfigInv, KeyAtRisk

\* The call that made the first key is the only one that looked for it: those that
\* hold a key hold none, and nothing was encrypted before.
LEMMA KeyGeneratedInv ==
  ASSUME ConfigInv, NEW c \in Calls, NEW k \in Keys, KeyGenerated(c, k)
  PROVE  ConfigInv'
<1> DEFINE r == [call[c] EXCEPT !.at = "encrypting", !.key = k]
<1>1. /\ call[c].at = "generating" /\ generated' = generated \union {k} /\ cryptKey' = k
      /\ call' = [call EXCEPT ![c].at = "encrypting", ![c].key = k]
      /\ path' = path /\ running' = running /\ secret' = secret /\ file' = file
      /\ keyFile' = keyFile /\ torn' = torn /\ overlap' = overlap /\ lost' = lost /\ misread' = misread /\ unsaved' = unsaved
  BY DEF KeyGenerated, histories
<1>2. call' = [call EXCEPT ![c] = r]
  BY <1>1, TypesApart
<1>3. /\ r \in CallType /\ r.at = "encrypting" /\ r.key = k /\ r.image = call[c].image
  BY TypesApart DEF CallType, MaybeKey
<1>4. /\ call' \in [Calls -> CallType]
      /\ call'[c].at = "encrypting" /\ call'[c].key = k /\ call'[c].image = call[c].image
      /\ \A d \in Calls : d # c => call'[d] = call[d]
  <2> HIDE DEF r
  <2> QED
    BY <1>2, <1>3, TypesApart, OneCallMoves
<1>5. running /\ k # NoKey
  BY <1>1, TypesApart, RestIsTyped, NoKeyIsNoKey DEF CallsInStep
<1>6. ConfigTypeOK'
  <2>1. /\ generated' \in SUBSET Keys /\ cryptKey' \in generated' \union {NoKey}
        /\ keyFile' \in generated' \union {NoKey}
    BY <1>1, TypesApart
  <2>2. QED
    BY <1>1, <1>4, <2>1, MoreTypes, TypesApart, Zenon DEF ConfigTypeOK
<1>7. CallsInStep'
  <2>1. \A d \in Calls : call'[d].key \in generated' \union {NoKey}
    BY <1>1, <1>4, TypesApart DEF CallsInStep, MayBeKey
  <2>2. ~path' => \A d \in Calls : call'[d].at \notin {"loading", "loaded"}
    BY <1>1, <1>4, TypesApart DEF CallsInStep
  <2>3. QED
    BY <1>1, <1>5, <2>1, <2>2 DEF CallsInStep, MayBeKey
<1>8. ASSUME ~overlap', ~misread'
      PROVE  OneKey /\ KeyUnknown /\ OneKey' /\ KeyInUse = NoKey /\ KeyInUse' = k
  <2>1. OneKey
    BY <1>1, <1>8 DEF ConfigInv, KeyAtRisk
  <2>2. KeyUnknown /\ \A d \in Calls : LooksForIt(d) => d = c
    BY <1>1, <2>1 DEF OneKey, LooksForIt
  <2>3. KeyInUse = NoKey /\ KeyInUse' = k /\ ~KeyUnknown'
    BY <1>1, <1>5, <2>2 DEF KeyInUse, KeyUnknown
  <2>4. ASSUME NEW d \in Calls, d # c
        PROVE  call'[d].at \notin {"loading", "generating", "loaded", "encrypting", "saving key"}
    BY <1>4, <2>1, <2>2, <2>3, <2>4 DEF OneKey, LooksForIt
  <2>5. QED
    BY <1>1, <1>4, <1>5, <2>1, <2>2, <2>3, <2>4 DEF OneKey, KeyUnknown
<1>9. ASSUME ~overlap', ~misread', ~lost' PROVE Readable'
  <2>1. Readable
    BY <1>1, <1>9 DEF ConfigInv, KeyAtRisk
  <2>2. \A s \in Secrets : secret[s] = NoKey /\ file[s] = NoKey
    BY <1>5, <1>8, <1>9, <2>1 DEF Readable, KeyUnknown
  <2>3. \A d \in Calls, s \in Secrets : call[d].image[s] = NoKey
    BY <1>5, <1>8, <1>9, <2>1 DEF Readable
  <2>4. \A d \in Calls, s \in Secrets : call'[d].image[s] = NoKey
    BY <1>4, <2>3
  <2>5. QED
    BY <1>1, <1>5, <2>2, <2>4 DEF Readable
<1>10. QED
  BY <1>6, <1>7, <1>8, <1>9 DEF ConfigInv, KeyAtRisk

LEMMA EncryptedInv ==
  ASSUME ConfigInv, NEW c \in Calls, NEW k \in Keys, Encrypted(c, k)
  PROVE  ConfigInv'
<1>1. /\ call[c].at = "encrypting" /\ cryptKey' = k
      /\ secret' = [secret EXCEPT ![call[c].name] = k] /\ call' = [call EXCEPT ![c] = AtRest]
      /\ path' = path /\ running' = running /\ file' = file
      /\ keyFile' = keyFile /\ torn' = torn /\ overlap' = overlap /\ lost' = lost /\ misread' = misread /\ unsaved' = unsaved
  BY DEF Encrypted, Returns, histories
<1>2. \/ call[c].key = k /\ generated' = generated
      \/ call[c].key = NoKey /\ generated' = generated \union {k}
  BY DEF Encrypted
<1>3. /\ call' \in [Calls -> CallType]
      /\ call'[c].at = "idle" /\ call'[c].key = NoKey /\ call'[c].image = Empty
      /\ \A d \in Calls : d # c => call'[d] = call[d]
  <2>1. call'[c] = AtRest
    BY <1>1, TypesApart, OneCallMoves, RestIsTyped
  <2>2. QED
    BY <1>1, <2>1, TypesApart, OneCallMoves, RestIsTyped
<1>4. running /\ k # NoKey /\ call[c].key \in generated \union {NoKey}
  BY <1>1, TypesApart, RestIsTyped, NoKeyIsNoKey DEF CallsInStep, MayBeKey
<1>5. /\ generated' \in SUBSET Keys /\ k \in generated' /\ generated \subseteq generated'
  BY <1>2, <1>4, TypesApart
<1>6. /\ secret' \in Document
      /\ \A s \in Secrets : secret'[s] \in {secret[s], k}
  BY <1>1, TypesApart DEF Document, MaybeKey
<1>7. ConfigTypeOK'
  <2>1. cryptKey' \in generated' \union {NoKey} /\ keyFile' \in generated' \union {NoKey}
    BY <1>1, <1>5, TypesApart
  <2>2. QED
    BY <1>1, <1>3, <1>5, <1>6, <2>1, MoreTypes, TypesApart, Zenon DEF ConfigTypeOK
<1>8. CallsInStep'
  <2>1. \A d \in Calls : call'[d].key \in generated' \union {NoKey}
    BY <1>3, <1>5, TypesApart DEF CallsInStep, MayBeKey
  <2>2. ~path' => \A d \in Calls : call'[d].at \notin {"loading", "loaded"}
    BY <1>1, <1>3, TypesApart DEF CallsInStep
  <2>3. QED
    BY <1>1, <1>4, <2>1, <2>2 DEF CallsInStep, MayBeKey
<1>9. ASSUME ~overlap', ~misread'
      PROVE  OneKey /\ OneKey' /\ KeyInUse \in {NoKey, k} /\ KeyInUse' = k
  <2>1. OneKey /\ call[c].key = KeyInUse
    BY <1>1, <1>9 DEF ConfigInv, KeyAtRisk, OneKey
  <2>2. KeyInUse \in {NoKey, k}
    BY <1>2, <2>1
  <2>3. KeyInUse' = k /\ ~KeyUnknown'
    BY <1>1, <1>4 DEF KeyInUse, KeyUnknown
  <2>4. keyFile \in {NoKey, k}
    BY <2>1, <2>2 DEF OneKey, KeyInUse
  <2>5. ASSUME NEW d \in Calls
        PROVE  /\ call'[d].at = "loading" => KeyUnknown' \/ keyFile' # NoKey
               /\ call'[d].at = "generating" => KeyUnknown'
               /\ call'[d].at \in {"loaded", "encrypting", "saving key"} => call'[d].key = KeyInUse'
               /\ call'[d].at = "saving key" => KeyInUse' # NoKey
    <3>1. CASE d = c
      BY <1>3, <3>1
    <3>2. CASE d # c /\ KeyInUse = k
      <4>1. ~KeyUnknown
        BY <1>4, <3>2 DEF KeyInUse, KeyUnknown
      <4>2. QED
        BY <1>1, <1>3, <1>4, <2>1, <2>3, <2>5, <3>2, <4>1 DEF OneKey
    <3>3. CASE d # c /\ KeyInUse = NoKey
      <4>1. KeyUnknown
        BY <3>3 DEF KeyInUse, KeyUnknown
      <4>2. ~LooksForIt(d)
        BY <1>1, <2>1, <2>5, <3>3, <4>1 DEF OneKey, LooksForIt
      <4>3. call[d].at # "saving key"
        BY <2>1, <2>5, <3>3 DEF OneKey
      <4>4. QED
        BY <1>3, <2>5, <3>3, <4>2, <4>3 DEF LooksForIt
    <3>4. QED
      BY <2>2, <3>1, <3>2, <3>3
  <2>6. QED
    BY <1>1, <1>4, <2>1, <2>2, <2>3, <2>4, <2>5 DEF OneKey
<1>10. ASSUME ~overlap', ~misread', ~lost' PROVE Readable'
  <2>1. Readable /\ KeyInUse \in {NoKey, k} /\ KeyInUse' = k
    BY <1>1, <1>9, <1>10 DEF ConfigInv, KeyAtRisk
  <2>2. \A s \in Secrets : secret'[s] \in {NoKey, k}
    BY <1>4, <1>6, <2>1 DEF Readable
  <2>3. \A d \in Calls, s \in Secrets : call'[d].image[s] \in {NoKey, k}
    <3>1. \A s \in Secrets : Empty[s] = NoKey
      BY DEF Empty
    <3>2. \A d \in Calls, s \in Secrets : call[d].image[s] \in {NoKey, k}
      BY <1>4, <2>1 DEF Readable
    <3>3. \A s \in Secrets : call'[c].image[s] \in {NoKey, k}
      BY <1>3, <3>1
    <3>4. QED
      BY <1>3, <3>2, <3>3
  <2>4. ASSUME NEW s \in Secrets, file[s] # NoKey
        PROVE  file[s] = keyFile
               \/ (k = file[s] /\ (unsaved \/ \E d \in Calls : call'[d].at \in {"written", "saving key"}))
    <3>1. CASE file[s] = keyFile
      BY <3>1
    <3>2. CASE KeyInUse = file[s] /\ (unsaved \/ \E d \in Calls : call[d].at \in {"written", "saving key"})
      BY <1>1, <1>3, <2>1, <2>4, <3>2
    <3>3. QED
      BY <1>4, <2>1, <2>4, <3>1, <3>2 DEF Readable
  <2>5. QED
    BY <1>1, <1>4, <2>1, <2>2, <2>3, <2>4 DEF Readable
<1>11. QED
  BY <1>7, <1>8, <1>9, <1>10 DEF ConfigInv, KeyAtRisk

LEMMA CommitInv ==
  ASSUME ConfigInv, NEW c \in Calls, Commit(c)
  PROVE  ConfigInv'
<1> DEFINE r == [call[c] EXCEPT !.at = "writing", !.image = secret]
<1>1. /\ running /\ call[c].at = "idle"
      /\ call' = [call EXCEPT ![c].at = "writing", ![c].image = secret]
      /\ path' = path /\ running' = running /\ secret' = secret /\ cryptKey' = cryptKey /\ file' = file
      /\ keyFile' = keyFile /\ torn' = torn /\ generated' = generated /\ overlap' = overlap /\ lost' = lost /\ misread' = misread /\ unsaved' = unsaved
  BY DEF Commit, Idle, histories
<1>2. call' = [call EXCEPT ![c] = r]
  BY <1>1, TypesApart
<1>3. /\ r \in CallType /\ r.at = "writing" /\ r.key = call[c].key /\ r.image = secret
  BY TypesApart DEF CallType
<1>4. /\ call' \in [Calls -> CallType]
      /\ call'[c].at = "writing" /\ call'[c].key = call[c].key /\ call'[c].image = secret
      /\ \A d \in Calls : d # c => call'[d] = call[d]
  <2> HIDE DEF r
  <2> QED
    BY <1>2, <1>3, TypesApart, OneCallMoves
<1>5. ConfigTypeOK'
  BY <1>1, <1>4, MoreTypes, TypesApart, Zenon DEF ConfigTypeOK
<1>6. CallsInStep'
  <2>1. \A d \in Calls : call'[d].key \in generated' \union {NoKey}
    BY <1>1, <1>4, TypesApart DEF CallsInStep, MayBeKey
  <2>2. ~path' => \A d \in Calls : call'[d].at \notin {"loading", "loaded"}
    BY <1>1, <1>4, TypesApart DEF CallsInStep
  <2>3. QED
    BY <1>1, <2>1, <2>2 DEF CallsInStep, MayBeKey
<1>7. ASSUME ~overlap', ~misread' PROVE OneKey'
  BY <1>1, <1>4, <1>7 DEF ConfigInv, KeyAtRisk, OneKey, LooksForIt, KeyUnknown, KeyInUse
<1>8. ASSUME ~overlap', ~misread', ~lost' PROVE Readable'
  <2>1. Readable
    BY <1>1, <1>8 DEF ConfigInv, KeyAtRisk
  <2>2. KeyInUse' = KeyInUse
    BY <1>1 DEF KeyInUse
  <2>3. \A d \in Calls, s \in Secrets : call'[d].image[s] \in {NoKey, KeyInUse}
    BY <1>1, <1>4, <2>1 DEF Readable
  <2>4. QED
    BY <1>1, <1>4, <2>1, <2>2, <2>3 DEF Readable
<1>9. QED
  BY <1>5, <1>6, <1>7, <1>8 DEF ConfigInv, KeyAtRisk

\* What is written can be read with the key in use, and the call will save that key.
LEMMA WriteFileInv ==
  ASSUME ConfigInv, NEW c \in Calls, WriteFile(c)
  PROVE  ConfigInv'
<1> DEFINE r == [call[c] EXCEPT !.at = "written", !.image = Empty]
<1>1. /\ call[c].at = "writing" /\ file' = call[c].image
      /\ call' = [call EXCEPT ![c].at = "written", ![c].image = Empty]
      /\ path' = path /\ running' = running /\ secret' = secret /\ cryptKey' = cryptKey
      /\ keyFile' = keyFile /\ torn' = torn \ {"file"} /\ generated' = generated /\ overlap' = overlap /\ lost' = lost /\ misread' = misread /\ unsaved' = unsaved
  BY DEF WriteFile, histories
<1>2. call' = [call EXCEPT ![c] = r]
  BY <1>1, TypesApart
<1>3. /\ r \in CallType /\ r.at = "written" /\ r.key = call[c].key /\ r.image = Empty
  BY TypesApart, RestIsTyped DEF CallType, Document, Empty, MaybeKey
<1>4. /\ call' \in [Calls -> CallType]
      /\ call'[c].at = "written" /\ call'[c].key = call[c].key /\ call'[c].image = Empty
      /\ \A d \in Calls : d # c => call'[d] = call[d]
  <2> HIDE DEF r
  <2> QED
    BY <1>2, <1>3, TypesApart, OneCallMoves
<1>5. running /\ file' \in Document
  BY <1>1, TypesApart, RestIsTyped DEF CallsInStep, CallType
<1>6. ConfigTypeOK'
  <2>1. torn' \in SUBSET {"file", "key"}
    BY <1>1, MoreTypes
  <2>2. QED
    BY <1>1, <1>4, <1>5, <2>1, MoreTypes, TypesApart, Zenon DEF ConfigTypeOK
<1>7. CallsInStep'
  <2>1. \A d \in Calls : call'[d].key \in generated' \union {NoKey}
    BY <1>1, <1>4, TypesApart DEF CallsInStep, MayBeKey
  <2>2. ~path' => \A d \in Calls : call'[d].at \notin {"loading", "loaded"}
    BY <1>1, <1>4, TypesApart DEF CallsInStep
  <2>3. QED
    BY <1>1, <1>5, <2>1, <2>2 DEF CallsInStep, MayBeKey
<1>8. ASSUME ~overlap', ~misread' PROVE OneKey'
  BY <1>1, <1>4, <1>8 DEF ConfigInv, KeyAtRisk, OneKey, LooksForIt, KeyUnknown, KeyInUse
<1>9. ASSUME ~overlap', ~misread', ~lost' PROVE Readable'
  <2>1. Readable
    BY <1>1, <1>9 DEF ConfigInv, KeyAtRisk
  <2>2. KeyInUse' = KeyInUse
    BY <1>1 DEF KeyInUse
  <2>3. \A d \in Calls, s \in Secrets : call'[d].image[s] \in {NoKey, KeyInUse}
    <3>1. \A d \in Calls, s \in Secrets : call[d].image[s] \in {NoKey, KeyInUse}
      BY <1>5, <2>1 DEF Readable
    <3>2. \A s \in Secrets : call'[c].image[s] \in {NoKey, KeyInUse}
      BY <1>4 DEF Empty
    <3>3. QED
      BY <1>4, <3>1, <3>2
  <2>4. \A s \in Secrets : file'[s] \in {NoKey, KeyInUse}
    BY <1>1, <1>5, <2>1 DEF Readable
  <2>5. QED
    BY <1>1, <1>4, <1>5, <2>1, <2>2, <2>3, <2>4 DEF Readable
<1>10. QED
  BY <1>6, <1>7, <1>8, <1>9 DEF ConfigInv, KeyAtRisk

LEMMA FileWrittenInv ==
  ASSUME ConfigInv, NEW c \in Calls, FileWritten(c)
  PROVE  ConfigInv'
<1> DEFINE r == IF cryptKey = NoKey THEN AtRest ELSE [call[c] EXCEPT !.at = "saving key", !.key = cryptKey]
<1>1. /\ call[c].at = "written"
      /\ path' = path /\ running' = running /\ secret' = secret /\ cryptKey' = cryptKey /\ file' = file
      /\ keyFile' = keyFile /\ torn' = torn /\ generated' = generated /\ overlap' = overlap /\ lost' = lost /\ misread' = misread /\ unsaved' = unsaved
  BY DEF FileWritten, histories
<1>2. call' = [call EXCEPT ![c] = r]
  BY TypesApart DEF FileWritten, Returns
<1>3. /\ r \in CallType /\ r.image \in {Empty, call[c].image}
      /\ \/ cryptKey = NoKey /\ r.at = "idle" /\ r.key = NoKey
         \/ cryptKey # NoKey /\ r.at = "saving key" /\ r.key = cryptKey
  <2>1. CASE cryptKey = NoKey
    BY <2>1, RestIsTyped
  <2>2. CASE cryptKey # NoKey
    BY <2>2, TypesApart DEF CallType
  <2>3. QED
    BY <2>1, <2>2
<1>4. /\ call' \in [Calls -> CallType] /\ call'[c].image \in {Empty, call[c].image}
      /\ \/ cryptKey = NoKey /\ call'[c].at = "idle" /\ call'[c].key = NoKey
         \/ cryptKey # NoKey /\ call'[c].at = "saving key" /\ call'[c].key = cryptKey
      /\ \A d \in Calls : d # c => call'[d] = call[d]
  <2> HIDE DEF r
  <2> QED
    BY <1>2, <1>3, TypesApart, OneCallMoves
<1>5. running
  BY <1>1, TypesApart, RestIsTyped DEF CallsInStep
<1>6. ConfigTypeOK'
  BY <1>1, <1>4, MoreTypes, TypesApart, Zenon DEF ConfigTypeOK
<1>7. CallsInStep'
  <2>1. \A d \in Calls : call'[d].key \in generated' \union {NoKey}
    BY <1>1, <1>4, TypesApart DEF CallsInStep, MayBeKey
  <2>2. ~path' => \A d \in Calls : call'[d].at \notin {"loading", "loaded"}
    BY <1>1, <1>4, TypesApart DEF CallsInStep
  <2>3. QED
    BY <1>1, <1>5, <2>1, <2>2 DEF CallsInStep, MayBeKey
<1>8. ASSUME ~overlap', ~misread' PROVE OneKey'
  BY <1>1, <1>4, <1>8 DEF ConfigInv, KeyAtRisk, OneKey, LooksForIt, KeyUnknown, KeyInUse
<1>9. ASSUME ~overlap', ~misread', ~lost' PROVE Readable'
  <2>1. Readable /\ OneKey
    BY <1>1, <1>9 DEF ConfigInv, KeyAtRisk
  <2>2. KeyInUse' = KeyInUse
    BY <1>1 DEF KeyInUse
  <2>3. \A d \in Calls, s \in Secrets : call'[d].image[s] \in {NoKey, KeyInUse}
    <3>1. \A d \in Calls, s \in Secrets : call[d].image[s] \in {NoKey, KeyInUse}
      BY <1>5, <2>1 DEF Readable
    <3>2. \A s \in Secrets : call'[c].image[s] \in {NoKey, KeyInUse}
      BY <1>4, <3>1 DEF Empty
    <3>3. QED
      BY <1>4, <3>1, <3>2
  <2>4. ASSUME NEW s \in Secrets, file[s] # NoKey
        PROVE  file[s] = keyFile
               \/ (KeyInUse = file[s] /\ (unsaved \/ \E d \in Calls : call'[d].at \in {"written", "saving key"}))
    <3>1. PICK d \in Calls :
            file[s] = keyFile
            \/ (KeyInUse = file[s] /\ (unsaved \/ call[d].at \in {"written", "saving key"}))
      BY <1>5, <2>1, <2>4 DEF Readable
    <3>2. CASE file[s] = keyFile \/ unsaved
      BY <3>1, <3>2
    <3>3. CASE d # c
      BY <1>4, <3>1, <3>3
    <3>4. CASE d = c /\ cryptKey # NoKey
      BY <1>4, <3>1, <3>4
    <3>5. CASE cryptKey = NoKey
      BY <3>1, <3>5 DEF KeyInUse
    <3>6. QED
      BY <3>2, <3>3, <3>4, <3>5
  <2>5. QED
    BY <1>1, <1>5, <2>1, <2>2, <2>3, <2>4 DEF Readable
<1>10. QED
  BY <1>6, <1>7, <1>8, <1>9 DEF ConfigInv, KeyAtRisk

\* The key that is written is the one in use.
LEMMA WriteKeyInv ==
  ASSUME ConfigInv, NEW c \in Calls, WriteKey(c)
  PROVE  ConfigInv'
<1>1. /\ call[c].at = "saving key" /\ keyFile' = call[c].key
      /\ call' = [call EXCEPT ![c] = AtRest]
      /\ path' = path /\ running' = running /\ secret' = secret /\ cryptKey' = cryptKey /\ file' = file
      /\ torn' = torn \ {"key"} /\ generated' = generated /\ overlap' = overlap
      /\ lost' = lost /\ misread' = misread /\ unsaved' = FALSE
  BY DEF WriteKey, Returns
<1>2. /\ call' \in [Calls -> CallType]
      /\ call'[c].at = "idle" /\ call'[c].key = NoKey /\ call'[c].image = Empty
      /\ \A d \in Calls : d # c => call'[d] = call[d]
  <2>1. call'[c] = AtRest
    BY <1>1, TypesApart, OneCallMoves, RestIsTyped
  <2>2. QED
    BY <1>1, <2>1, TypesApart, OneCallMoves, RestIsTyped
<1>3. running /\ call[c].key \in generated \union {NoKey}
  BY <1>1, TypesApart, RestIsTyped DEF CallsInStep, MayBeKey
<1>4. ConfigTypeOK'
  <2>1. torn' \in SUBSET {"file", "key"} /\ unsaved' \in BOOLEAN
    BY <1>1, MoreTypes
  <2>2. QED
    BY <1>1, <1>2, <1>3, <2>1, MoreTypes, TypesApart, Zenon DEF ConfigTypeOK
<1>5. CallsInStep'
  <2>1. \A d \in Calls : call'[d].key \in generated' \union {NoKey}
    BY <1>1, <1>2, TypesApart DEF CallsInStep, MayBeKey
  <2>2. ~path' => \A d \in Calls : call'[d].at \notin {"loading", "loaded"}
    BY <1>1, <1>2, TypesApart DEF CallsInStep
  <2>3. QED
    BY <1>1, <1>3, <2>1, <2>2 DEF CallsInStep, MayBeKey
<1>6. ASSUME ~overlap', ~misread'
      PROVE  OneKey' /\ keyFile' = KeyInUse /\ KeyInUse' = KeyInUse /\ (keyFile # NoKey => keyFile' = keyFile)
  <2>1. OneKey /\ keyFile' = KeyInUse /\ KeyInUse # NoKey
    BY <1>1, <1>6 DEF ConfigInv, KeyAtRisk, OneKey
  <2>2. ~KeyUnknown /\ ~KeyUnknown' /\ KeyInUse' = KeyInUse
    BY <1>1, <2>1 DEF KeyUnknown, KeyInUse
  <2>3. \A d \in Calls : call[d].at # "generating"
    BY <2>1, <2>2 DEF OneKey
  <2>4. ~path => cryptKey # NoKey
    BY <2>1 DEF OneKey, KeyInUse
  <2>5. keyFile # NoKey => keyFile' = keyFile
    BY <2>1 DEF OneKey, KeyInUse
  <2>6. QED
    BY <1>1, <1>2, <2>1, <2>2, <2>3, <2>4, <2>5 DEF OneKey, KeyInUse
<1>7. ASSUME ~overlap', ~misread', ~lost' PROVE Readable'
  <2>1. Readable /\ keyFile' = KeyInUse /\ KeyInUse' = KeyInUse /\ (keyFile # NoKey => keyFile' = keyFile)
    BY <1>1, <1>6, <1>7 DEF ConfigInv, KeyAtRisk
  <2>2. \A d \in Calls, s \in Secrets : call'[d].image[s] \in {NoKey, KeyInUse}
    <3>1. \A d \in Calls, s \in Secrets : call[d].image[s] \in {NoKey, KeyInUse}
      BY <1>3, <2>1 DEF Readable
    <3>2. \A s \in Secrets : call'[c].image[s] \in {NoKey, KeyInUse}
      BY <1>2 DEF Empty
    <3>3. QED
      BY <1>2, <3>1, <3>2
  <2>3. \A s \in Secrets : file[s] # NoKey => file[s] = keyFile'
    BY <1>3, <2>1 DEF Readable
  <2>4. QED
    BY <1>1, <1>3, <2>1, <2>2, <2>3 DEF Readable
<1>8. QED
  BY <1>4, <1>5, <1>6, <1>7 DEF ConfigInv, KeyAtRisk

\* A write that fails leaves the key in memory for the next commit().
LEMMA WriteFailsInv ==
  ASSUME ConfigInv, NEW c \in Calls, WriteFails(c)
  PROVE  ConfigInv'
<1>1. /\ call[c].at \in {"writing", "saving key"}
      /\ call' = [call EXCEPT ![c] = AtRest]
      /\ path' = path /\ running' = running /\ secret' = secret /\ cryptKey' = cryptKey /\ file' = file
      /\ keyFile' = keyFile /\ generated' = generated /\ overlap' = overlap
      /\ lost' = lost /\ misread' = misread
  BY DEF WriteFails, BeingWritten, Returns
<1>2. /\ call' \in [Calls -> CallType]
      /\ call'[c].at = "idle" /\ call'[c].key = NoKey /\ call'[c].image = Empty
      /\ \A d \in Calls : d # c => call'[d] = call[d]
  <2>1. call'[c] = AtRest
    BY <1>1, TypesApart, OneCallMoves, RestIsTyped
  <2>2. QED
    BY <1>1, <2>1, TypesApart, OneCallMoves, RestIsTyped
<1>3. unsaved' \in BOOLEAN /\ (unsaved => unsaved') /\ (call[c].at = "saving key" => unsaved')
  BY Zenon DEF WriteFails
<1>4. torn' \in SUBSET {"file", "key"}
  BY MoreTypes DEF WriteFails, BeingWritten
<1>5. running
  BY <1>1, TypesApart, RestIsTyped DEF CallsInStep
<1>6. ConfigTypeOK'
  BY <1>1, <1>2, <1>3, <1>4, MoreTypes, TypesApart, Zenon DEF ConfigTypeOK
<1>7. CallsInStep'
  <2>1. \A d \in Calls : call'[d].key \in generated' \union {NoKey}
    BY <1>1, <1>2, TypesApart DEF CallsInStep, MayBeKey
  <2>2. ~path' => \A d \in Calls : call'[d].at \notin {"loading", "loaded"}
    BY <1>1, <1>2, TypesApart DEF CallsInStep
  <2>3. QED
    BY <1>1, <1>5, <2>1, <2>2, TypesApart DEF CallsInStep, MayBeKey
<1>8. ASSUME ~overlap', ~misread' PROVE OneKey'
  BY <1>1, <1>2, <1>8 DEF ConfigInv, OneKey, LooksForIt, KeyUnknown, KeyInUse
<1>9. ASSUME ~overlap', ~misread', ~lost' PROVE Readable'
  <2>1. Readable
    BY <1>1, <1>9 DEF ConfigInv, KeyAtRisk
  <2>2. KeyInUse' = KeyInUse
    BY <1>1 DEF KeyInUse
  <2>3. \A d \in Calls, s \in Secrets : call'[d].image[s] \in {NoKey, KeyInUse}
    <3>1. \A d \in Calls, s \in Secrets : call[d].image[s] \in {NoKey, KeyInUse}
      BY <1>5, <2>1 DEF Readable
    <3>2. \A s \in Secrets : call'[c].image[s] \in {NoKey, KeyInUse}
      BY <1>2 DEF Empty
    <3>3. QED
      BY <1>2, <3>1, <3>2
  <2>4. ASSUME NEW s \in Secrets, file[s] # NoKey, file[s] # keyFile
        PROVE  KeyInUse = file[s] /\ (unsaved' \/ \E d \in Calls : call'[d].at \in {"written", "saving key"})
    <3>1. KeyInUse = file[s] /\ (unsaved \/ \E d \in Calls : call[d].at \in {"written", "saving key"})
      BY <1>5, <2>1, <2>4 DEF Readable
    <3>2. CASE unsaved
      BY <1>3, <3>1, <3>2
    <3>3. CASE \E d \in Calls : call[d].at \in {"written", "saving key"}
      BY <1>1, <1>2, <1>3, <3>1, <3>3
    <3>4. QED
      BY <3>1, <3>2, <3>3
  <2>5. QED
    BY <1>1, <1>5, <2>1, <2>2, <2>3, <2>4 DEF Readable
<1>10. QED
  BY <1>6, <1>7, <1>8, <1>9 DEF ConfigInv, KeyAtRisk

LEMMA DeleteInv ==
  ASSUME ConfigInv, NEW s \in Secrets, Delete(s)
  PROVE  ConfigInv'
<1>1. /\ running /\ secret' = [secret EXCEPT ![s] = NoKey] /\ call' = call
      /\ path' = path /\ running' = running /\ cryptKey' = cryptKey /\ file' = file
      /\ keyFile' = keyFile /\ torn' = torn /\ generated' = generated /\ overlap' = overlap /\ lost' = lost /\ misread' = misread /\ unsaved' = unsaved
  BY DEF Delete, histories
<1>2. secret' \in Document /\ \A x \in Secrets : secret'[x] \in {NoKey, secret[x]}
  BY <1>1, TypesApart DEF Document, MaybeKey
<1>3. ConfigTypeOK'
  BY <1>1, <1>2, MoreTypes, TypesApart, Zenon DEF ConfigTypeOK
<1>4. CallsInStep'
  BY <1>1, TypesApart DEF CallsInStep, MayBeKey
<1>5. ASSUME ~overlap', ~misread' PROVE OneKey'
  BY <1>1, <1>5 DEF ConfigInv, KeyAtRisk, OneKey, LooksForIt, KeyUnknown, KeyInUse
<1>6. ASSUME ~overlap', ~misread', ~lost' PROVE Readable'
  <2>1. Readable
    BY <1>1, <1>6 DEF ConfigInv, KeyAtRisk
  <2>2. KeyInUse' = KeyInUse
    BY <1>1 DEF KeyInUse
  <2>3. QED
    BY <1>1, <1>2, <2>1, <2>2 DEF Readable
<1>7. QED
  BY <1>3, <1>4, <1>5, <1>6 DEF ConfigInv, KeyAtRisk

\* Only the secrets whose key is in the file beside them survive a crash.
LEMMA CrashInv ==
  ASSUME ConfigInv, Crash
  PROVE  ConfigInv'
<1>1. /\ running /\ path /\ running' = FALSE /\ call' = [c \in Calls |-> AtRest]
      /\ secret' = Empty /\ cryptKey' = NoKey
      /\ path' = path /\ file' = file /\ keyFile' = keyFile /\ generated' = generated /\ overlap' = overlap
  BY DEF Crash
<1>2. /\ torn' \in SUBSET {"file", "key"} /\ lost' \in BOOLEAN
      /\ misread' = misread /\ unsaved' = unsaved
  <2>1. UNION {BeingWritten(c) : c \in Calls} \subseteq {"file", "key"}
    BY DEF BeingWritten
  <2>2. torn' \in SUBSET {"file", "key"}
    BY <2>1, MoreTypes DEF Crash
  <2>3. lost' \in BOOLEAN /\ misread' = misread /\ unsaved' = unsaved
    BY Zenon DEF Crash
  <2>4. QED
    BY <2>2, <2>3
<1>3. ~lost' => ~lost /\ \A s \in Secrets : file[s] \in {NoKey, keyFile}
  BY DEF Crash
<1>4. /\ call' \in [Calls -> CallType] /\ Empty \in Document
      /\ \A c \in Calls : call'[c] = AtRest
  BY <1>1, RestIsTyped DEF Document, Empty, MaybeKey
<1>5. ConfigTypeOK'
  <2>1. cryptKey' \in generated' \union {NoKey} /\ running' \in BOOLEAN
    BY <1>1
  <2>2. QED
    BY <1>1, <1>2, <1>4, <2>1, MoreTypes, TypesApart, Zenon DEF ConfigTypeOK
<1>6. CallsInStep'
  BY <1>1, <1>4, RestIsTyped, TypesApart DEF CallsInStep, MayBeKey
<1>7. ASSUME ~overlap', ~misread' PROVE OneKey'
  <2>1. \A c \in Calls : call'[c].at = "idle"
    BY <1>4, RestIsTyped
  <2>2. QED
    BY <1>1, <2>1 DEF OneKey, LooksForIt
<1>8. ASSUME ~overlap', ~misread', ~lost' PROVE Readable'
  BY <1>1, <1>3, <1>8 DEF Readable
<1>9. QED
  BY <1>5, <1>6, <1>7, <1>8 DEF ConfigInv, KeyAtRisk

LEMMA LoadInv ==
  ASSUME ConfigInv, Load
  PROVE  ConfigInv'
<1>1. /\ ~running /\ running' = TRUE /\ secret' = file /\ call' = call
      /\ path' = path /\ file' = file /\ keyFile' = keyFile /\ torn' = torn /\ generated' = generated
      /\ overlap' = overlap /\ lost' = lost /\ unsaved' = unsaved
      /\ cryptKey' \in {keyFile, NoKey}
  BY DEF Load
<1>0. misread' \in BOOLEAN /\ (~misread' => ~misread /\ cryptKey' = keyFile)
  <2>1. CASE misread' = misread /\ cryptKey' = keyFile
    BY <2>1, MoreTypes
  <2>2. CASE misread' = (misread \/ keyFile # NoKey) /\ cryptKey' = NoKey
    <3>1. misread' \in BOOLEAN /\ (~misread' => ~misread /\ keyFile = NoKey)
      BY <2>2, Zenon
    <3>2. QED
      BY <2>2, <3>1
  <2>3. QED
    BY <2>1, <2>2, Zenon DEF Load, ReadsKey
<1>2. path /\ \A c \in Calls : call[c] = AtRest
  BY <1>1, TypesApart DEF CallsInStep
<1>3. running' \in BOOLEAN
  BY <1>1
<1>4. ConfigTypeOK'
  <2>1. cryptKey' \in generated' \union {NoKey}
    BY <1>1, TypesApart
  <2>2. QED
    BY <1>0, <1>1, <1>3, <2>1, MoreTypes, TypesApart, Zenon DEF ConfigTypeOK
<1>5. CallsInStep'
  BY <1>1, <1>2, TypesApart DEF CallsInStep, MayBeKey
<1>6. ASSUME ~overlap', ~misread' PROVE OneKey'
  <2>1. \A c \in Calls : call'[c].at = "idle"
    BY <1>1, <1>2, RestIsTyped
  <2>2. QED
    BY <1>0, <1>1, <1>2, <1>6, <2>1 DEF OneKey, LooksForIt
<1>7. ASSUME ~overlap', ~misread', ~lost' PROVE Readable'
  <2>1. \A s \in Secrets : file[s] \in {NoKey, keyFile}
    BY <1>0, <1>1, <1>7 DEF ConfigInv, KeyAtRisk, Readable
  <2>2. \A c \in Calls, s \in Secrets : call'[c].image[s] = NoKey
    BY <1>1, <1>2, RestIsTyped DEF Empty
  <2>3. KeyInUse' = keyFile
    BY <1>0, <1>1, <1>7 DEF KeyInUse
  <2>4. QED
    BY <1>1, <2>1, <2>2, <2>3 DEF Readable
<1>8. QED
  BY <1>4, <1>5, <1>6, <1>7 DEF ConfigInv, KeyAtRisk

LEMMA ConfigStepInv == ConfigInv /\ [ConfigNext]_configVars => ConfigInv'
<1> SUFFICES ASSUME ConfigInv, [ConfigNext]_configVars PROVE ConfigInv'
  OBVIOUS
<1>1. ASSUME NEW c \in Calls, NEW s \in Secrets, SetSecret(c, s) \/ GetSecret(c, s) PROVE ConfigInv'
  BY <1>1, SetSecretInv, GetSecretInv
<1>2. ASSUME NEW c \in Calls, LoadKey(c) \/ KeyLoaded(c) PROVE ConfigInv'
  BY <1>2, LoadKeyInv, KeyLoadedInv
<1>3. ASSUME NEW c \in Calls, NEW k \in Keys, KeyGenerated(c, k) \/ Encrypted(c, k) PROVE ConfigInv'
  BY <1>3, KeyGeneratedInv, EncryptedInv
<1>4. ASSUME NEW c \in Calls, Commit(c) \/ WriteFile(c) \/ FileWritten(c) \/ WriteKey(c) \/ WriteFails(c) PROVE ConfigInv'
  BY <1>4, CommitInv, WriteFileInv, FileWrittenInv, WriteKeyInv, WriteFailsInv
<1>5. ASSUME NEW s \in Secrets, Delete(s) PROVE ConfigInv'
  BY <1>5, DeleteInv
<1>6. CASE Crash \/ Load
  BY <1>6, CrashInv, LoadInv
<1>7. CASE UNCHANGED configVars
  BY <1>7 DEF configVars, ConfigInv, KeyAtRisk, ConfigTypeOK, CallsInStep, OneKey, Readable, MayBeKey, LooksForIt, KeyUnknown, KeyInUse
<1>8. QED
  BY <1>1, <1>2, <1>3, <1>4, <1>5, <1>6, <1>7, Zenon DEF ConfigNext

\* The two invariants that the runs check follow from the inductive one.
LEMMA ConfigInvEnough == ConfigInv => ConfigTypeOK /\ SecretsShareTheKey /\ SavedSecretsReadable
  BY DEF ConfigInv, KeyAtRisk, Readable, SecretsShareTheKey, SavedSecretsReadable

\* Only WriteKey writes the key file, and it writes the key in use.
LEMMA KeyIsKept ==
  ASSUME ConfigInv, ConfigNext, ~overlap', ~misread', keyFile # NoKey
  PROVE  keyFile' = keyFile
<1>1. ASSUME NEW c \in Calls, WriteKey(c) PROVE keyFile' = keyFile
  BY <1>1 DEF WriteKey, ConfigInv, OneKey, KeyInUse
<1>2. ASSUME NEW c \in Calls, FileWritten(c) PROVE keyFile' = keyFile
  BY <1>2 DEF FileWritten
<1>3. ASSUME NEW c \in Calls, NEW s \in Secrets, SetSecret(c, s) \/ GetSecret(c, s) PROVE keyFile' = keyFile
  BY <1>3 DEF SetSecret, GetSecret
<1>4. ASSUME NEW c \in Calls, LoadKey(c) \/ KeyLoaded(c) \/ Commit(c) \/ WriteFile(c) \/ WriteFails(c) PROVE keyFile' = keyFile
  BY <1>4 DEF LoadKey, KeyLoaded, Commit, WriteFile, WriteFails
<1>5. ASSUME NEW c \in Calls, NEW k \in Keys, KeyGenerated(c, k) \/ Encrypted(c, k) PROVE keyFile' = keyFile
  BY <1>5 DEF KeyGenerated, Encrypted
<1>6. ASSUME NEW s \in Secrets, Delete(s) PROVE keyFile' = keyFile
  BY <1>6 DEF Delete
<1>7. CASE Crash \/ Load
  BY <1>7 DEF Crash, Load
<1>8. QED
  BY <1>1, <1>2, <1>3, <1>4, <1>5, <1>6, <1>7, Zenon DEF ConfigNext

\* Secrets can be read as long as no two calls made the first key together and a
\* saved key could be read: in memory with the key in use, in the file with the
\* key beside it or the one that a commit() is about to write, or failed to; and
\* a saved key is never replaced.
THEOREM SecretsCanBeRead == ConfigSpec => SecretsStayReadable
<1>1. ConfigSpec => []ConfigInv
  BY ConfigInitInv, ConfigStepInv, PTL DEF ConfigSpec
<1>2. ConfigInv /\ [ConfigNext]_configVars
      => [~overlap' /\ ~misread' /\ keyFile # NoKey => keyFile' = keyFile]_configVars
  <2> SUFFICES ASSUME ConfigInv, [ConfigNext]_configVars
               PROVE  [~overlap' /\ ~misread' /\ keyFile # NoKey => keyFile' = keyFile]_configVars
    OBVIOUS
  <2>1. CASE ConfigNext
    BY <2>1, KeyIsKept
  <2>2. CASE UNCHANGED configVars
    BY <2>2
  <2>3. QED
    BY <2>1, <2>2
<1>3. QED
  BY <1>1, <1>2, ConfigInvEnough, PTL DEF ConfigSpec, SecretsStayReadable, SavedKeyIsKept

-----------------------------------------------------------------------------
-----------------------------------------------------------------------------
\* Until the end is reported, what has a timer also listens for the end.
TimedListens == process # "reaped" => \A c \in Stops : timer[c] # "none" => c \in listening

\* A call that has sent an interrupt and not SIGTERM has sent nothing else, and
\* SIGTERM is what its timer would send.
InterruptFirst ==
  \A c \in Stops :
    "SIGINT" \in sent[c] /\ "SIGTERM" \notin sent[c] =>
      sent[c] = {"SIGINT"} /\ timer[c] \in {"SIGINT", "none"}

\* Each exit comes from the end of the process or from that of its channel.
ExitsCounted ==
  /\ disconnects = (IF connected THEN 0 ELSE 1)
  /\ exits = (IF process = "reaped" THEN 1 ELSE 0) + (IF keepAttached /\ ~connected THEN 1 ELSE 0)

ChildInv == ChildTypeOK /\ NoTimerAfterExit /\ TimedListens /\ InterruptFirst /\ ExitsCounted

LEMMA ChildInitInv == ChildInit => ChildInv
<1> SUFFICES ASSUME ChildInit PROVE ChildInv
  OBVIOUS
<1>1. exits \in 0..2 /\ disconnects \in 0..1
  BY DEF ChildInit
<1>2. ChildTypeOK
  BY <1>1 DEF ChildInit, ChildTypeOK
<1>3. NoTimerAfterExit /\ TimedListens /\ InterruptFirst
  BY DEF ChildInit, NoTimerAfterExit, TimedListens, InterruptFirst
<1>4. ExitsCounted
  BY DEF ChildInit, ExitsCounted
<1>5. QED
  BY <1>2, <1>3, <1>4 DEF ChildInv

\* A call of stop(), or its timer, sends a signal that the order of signals allows.
LEMMA SendsInOrder ==
  ASSUME ChildInv, NEW c \in Stops, NEW signal \in Signals, Sends(c, signal),
         sent[c] = {} \/ (signal = Harder(timer[c]) /\ timer[c] # "none")
  PROVE  InterruptFirst'
<1>1. timer' = [timer EXCEPT ![c] = signal] /\ sent' = [sent EXCEPT ![c] = @ \union {signal}]
  BY DEF Sends
<1>2. timer \in [Stops -> Signals \union {"none"}] /\ sent \in [Stops -> SUBSET Signals]
  BY DEF ChildInv, ChildTypeOK
<1>3. SUFFICES ASSUME NEW d \in Stops, "SIGINT" \in sent'[d], "SIGTERM" \notin sent'[d]
              PROVE  sent'[d] = {"SIGINT"} /\ timer'[d] \in {"SIGINT", "none"}
  BY DEF InterruptFirst
<1>4. CASE d # c
  BY <1>1, <1>2, <1>3, <1>4 DEF ChildInv, InterruptFirst
<1>5. CASE d = c
  <2>1. sent'[c] = sent[c] \union {signal} /\ timer'[c] = signal
    BY <1>1, <1>2
  <2>2. CASE sent[c] = {}
    BY <1>3, <1>5, <2>1, <2>2
  <2>3. CASE signal = Harder(timer[c]) /\ timer[c] # "none"
    <3>1. signal = "SIGKILL" /\ timer[c] # "SIGINT"
      BY <1>3, <1>5, <2>1, <2>3 DEF Harder
    <3>2. "SIGINT" \in sent[c] /\ "SIGTERM" \notin sent[c]
      BY <1>3, <1>5, <2>1, <3>1
    <3>3. timer[c] \in {"SIGINT", "none"}
      BY <3>2 DEF ChildInv, InterruptFirst
    <3>4. QED
      BY <2>3, <3>1, <3>3
  <2>4. QED
    BY <2>2, <2>3
<1>6. QED
  BY <1>4, <1>5

\* Each step of a child process keeps the invariant.
LEMMA ChildStep == ChildInv /\ [ChildNext]_childVars => ChildInv'
<1> SUFFICES ASSUME ChildInv, [ChildNext]_childVars PROVE ChildInv'
  OBVIOUS
<1> USE DEF ChildInv
<1>1. ASSUME NEW c \in Stops, NEW signal \in Signals, StopChild(c, signal) PROVE ChildInv'
  <2>1. ChildTypeOK'
    BY <1>1 DEF StopChild, Sends, ChildTypeOK
  <2>2. NoTimerAfterExit' /\ TimedListens' /\ ExitsCounted'
    BY <1>1 DEF StopChild, Sends, ChildTypeOK, NoTimerAfterExit, TimedListens, ExitsCounted
  <2>3. InterruptFirst'
    BY <1>1, SendsInOrder DEF StopChild
  <2>4. QED
    BY <2>1, <2>2, <2>3
<1>2. ASSUME NEW c \in Stops, StopTimesOut(c) PROVE ChildInv'
  <2>1. Harder(timer[c]) \in Signals
    BY DEF Harder, Signals
  <2>2. ChildTypeOK'
    BY <1>2, <2>1 DEF StopTimesOut, Sends, ChildTypeOK
  <2>3. NoTimerAfterExit' /\ TimedListens' /\ ExitsCounted'
    BY <1>2 DEF StopTimesOut, Sends, ChildTypeOK, NoTimerAfterExit, TimedListens, ExitsCounted
  <2>4. InterruptFirst'
    BY <1>2, <2>1, SendsInOrder DEF StopTimesOut
  <2>5. QED
    BY <2>2, <2>3, <2>4
<1>3. CASE ProcessDies
  BY <1>3 DEF ProcessDies, ChildTypeOK, NoTimerAfterExit, TimedListens, InterruptFirst, ExitsCounted
<1>4. CASE ProcessExits
  <2>1. ChildTypeOK'
    BY <1>4 DEF ProcessExits, ChildTypeOK, ExitsCounted
  <2>2. NoTimerAfterExit' /\ TimedListens' /\ ExitsCounted'
    BY <1>4 DEF ProcessExits, ChildTypeOK, NoTimerAfterExit, TimedListens, ExitsCounted
  <2>3. InterruptFirst'
    BY <1>4 DEF ProcessExits, ChildTypeOK, InterruptFirst
  <2>4. QED
    BY <2>1, <2>2, <2>3
<1>5. CASE Disconnected
  <2>1. ExitsCounted'
    BY <1>5 DEF Disconnected, ChildTypeOK, ExitsCounted
  <2>2. exits' \in 0..2 /\ disconnects' \in 0..1
    BY <2>1 DEF ExitsCounted
  <2>3. ChildTypeOK'
    BY <1>5, <2>2 DEF Disconnected, ChildTypeOK
  <2>4. NoTimerAfterExit' /\ TimedListens' /\ InterruptFirst'
    BY <1>5 DEF Disconnected, NoTimerAfterExit, TimedListens, InterruptFirst
  <2>5. QED
    BY <2>1, <2>3, <2>4
<1>6. CASE UNCHANGED childVars
  BY <1>6 DEF childVars, ChildTypeOK, NoTimerAfterExit, TimedListens, InterruptFirst, ExitsCounted
<1>7. QED
  BY <1>1, <1>2, <1>3, <1>4, <1>5, <1>6 DEF ChildNext

LEMMA ChildInvImplies == ChildInv => StopsAndTells
<1> SUFFICES ASSUME ChildInv PROVE StopsAndTells
  OBVIOUS
<1>1. KilledLast
  BY DEF ChildInv, KilledLast, InterruptFirst
<1>2. ExitTellsTheEnd
  BY DEF ChildInv, ExitsCounted, ExitTellsTheEnd, ChildTypeOK
<1>3. QED
  BY <1>1, <1>2 DEF ChildInv, StopsAndTells

\* The escalation of stop() is gradual, no timer is left when the end of the process
\* is reported, and exit tells of that end, whatever calls of stop() overlap
\* (packages/pm/src/runtimes/child_process.ts:67).
THEOREM ChildStopsAndTells == ChildSpec => []StopsAndTells
<1>1. ChildInit => ChildInv
  BY ChildInitInv
<1>2. ChildInv /\ [ChildNext]_childVars => ChildInv'
  BY ChildStep
<1>3. ChildInv => StopsAndTells
  BY ChildInvImplies
<1>4. QED
  BY <1>1, <1>2, <1>3, PTL DEF ChildSpec

-----------------------------------------------------------------------------
Returned == {c \in StopCalls : stopping[c] = "returned"}

\* What the engine has said, and what stop() was told, of a container that ended.
EndIsKnown ==
  /\ monitor = "answered" /\ ~answer => ~containerUp
  /\ \A c \in StopCalls : stopping[c] \in {"inspecting", "returned"} => ~containerUp

\* The monitor owes no exit once it has announced one: it does not take the
\* container for running, and no answer on its way says that it runs.
MonitorOwes ==
  \/ exitsEmitted = Cardinality(Returned)
  \/ /\ exitsEmitted = Cardinality(Returned) + 1
     /\ ~knownUp /\ ~containerUp
     /\ monitor = "answered" => ~answer

DockerInv == DockerTypeOK /\ EndIsKnown /\ MonitorOwes

LEMMA ReturnedIsFinite == IsFiniteSet(Returned) /\ Cardinality(Returned) \in Nat
BY DockerAssumption, FS_Subset, FS_CardinalityType DEF Returned

LEMMA DockerInitInv == DockerInit => DockerInv
<1> SUFFICES ASSUME DockerInit PROVE DockerInv
  OBVIOUS
<1>1. Returned = {}
  BY DEF DockerInit, Returned
<1>2. Cardinality(Returned) = 0
  BY <1>1, FS_EmptySet
<1>3. QED
  BY <1>2 DEF DockerInit, DockerInv, DockerTypeOK, EndIsKnown, MonitorOwes

\* Each step of a container, its monitor and its stops keeps the invariant.
LEMMA DockerStep == DockerInv /\ [DockerNext]_dockerVars => DockerInv'
<1> SUFFICES ASSUME DockerInv, [DockerNext]_dockerVars PROVE DockerInv'
  OBVIOUS
<1>a. exitsEmitted \in Nat /\ exitsEmitted + 1 \in Nat
  <2>1. exitsEmitted \in Nat
    BY Zenon DEF DockerInv, DockerTypeOK
  <2>2. QED
    BY <2>1
<1>b. /\ containerUp \in BOOLEAN /\ knownUp \in BOOLEAN /\ answer \in BOOLEAN
      /\ EndIsKnown /\ MonitorOwes
  BY DEF DockerInv, DockerTypeOK
<1>1. CASE UNCHANGED stopping /\ (ContainerEnds \/ MonitorAsks \/ EngineAnswers \/ MonitorFails \/ UNCHANGED dockerVars)
  <2>1. Returned' = Returned
    BY <1>1 DEF Returned
  <2>2. DockerTypeOK'
    BY <1>1 DEF ContainerEnds, MonitorAsks, EngineAnswers, MonitorFails, dockerVars, DockerInv, DockerTypeOK
  <2>5. EndIsKnown'
    <3>1. CASE ContainerEnds
      BY <1>1, <1>b, <3>1 DEF ContainerEnds, EndIsKnown
    <3>2. CASE EngineAnswers
      BY <1>1, <1>b, <3>2, Zenon DEF EngineAnswers, EndIsKnown
    <3>3. CASE MonitorAsks \/ MonitorFails \/ UNCHANGED dockerVars
      BY <1>1, <1>b, <3>3 DEF MonitorAsks, MonitorFails, dockerVars, EndIsKnown
    <3>4. QED
      BY <1>1, <3>1, <3>2, <3>3
  <2>3. MonitorOwes'
    BY <1>1, <2>1 DEF ContainerEnds, MonitorAsks, EngineAnswers, MonitorFails, dockerVars, DockerInv, DockerTypeOK, MonitorOwes
  <2>4. QED
    BY <2>2, <2>3, <2>5 DEF DockerInv
<1>2. CASE MonitorHears
  <2>1. Returned' = Returned
    BY <1>2 DEF MonitorHears, Returned
  <2>2. DockerTypeOK'
    BY <1>2, <1>a, Zenon DEF MonitorHears, DockerInv, DockerTypeOK
  <2>6. EndIsKnown'
    BY <1>2 DEF MonitorHears, DockerInv, DockerTypeOK, EndIsKnown
  <2>3. MonitorOwes'
    BY <1>2, <2>1 DEF MonitorHears, DockerInv, DockerTypeOK, EndIsKnown, MonitorOwes
  <2>4. QED
    BY <2>2, <2>3, <2>6 DEF DockerInv
<1>3. ASSUME NEW c \in StopCalls, StopCalled(c) \/ ContainerStopped(c) \/ StopFails(c) PROVE DockerInv'
  <2>1. Returned' = Returned
    BY <1>3 DEF StopCalled, ContainerStopped, StopFails, Returned, DockerInv, DockerTypeOK
  <2>2. DockerTypeOK'
    BY <1>3 DEF StopCalled, ContainerStopped, StopFails, DockerInv, DockerTypeOK
  <2>6. EndIsKnown'
    <3>1. CASE StopCalled(c) \/ ContainerStopped(c)
      <4>1. stopping \in [StopCalls -> {"not called", "asked", "inspecting", "returned", "failed"}]
        BY Zenon DEF DockerInv, DockerTypeOK
      <4>2. ASSUME NEW d \in StopCalls, stopping'[d] \in {"inspecting", "returned"}
            PROVE  stopping[d] \in {"inspecting", "returned"} \/ ContainerStopped(c)
        BY <3>1, <4>1, <4>2 DEF StopCalled
      <4>3. monitor' = monitor /\ answer' = answer
        BY <3>1 DEF StopCalled, ContainerStopped
      <4>4. ~containerUp => ~containerUp'
        BY <3>1 DEF StopCalled, ContainerStopped
      <4>5. ContainerStopped(c) => ~containerUp'
        BY DEF ContainerStopped
      <4>6. QED
        BY <1>b, <4>2, <4>3, <4>4, <4>5, Zenon DEF EndIsKnown
    <3>2. CASE StopFails(c)
      <4>1. containerUp' => containerUp
        BY <3>2 DEF StopFails
      <4>2. ~containerUp => ~containerUp'
        BY <4>1
      <4>3. UNCHANGED <<monitor, answer>> /\ \A d \in StopCalls : stopping'[d] \in {"inspecting", "returned"} => stopping[d] = stopping'[d]
        BY <3>2 DEF StopFails, DockerInv, DockerTypeOK
      <4>4. QED
        BY <1>b, <4>2, <4>3, Zenon DEF EndIsKnown
    <3>3. QED
      BY <1>3, <3>1, <3>2
  <2>3. MonitorOwes'
    BY <1>3, <2>1 DEF StopCalled, ContainerStopped, StopFails, DockerInv, DockerTypeOK, MonitorOwes
  <2>4. QED
    BY <2>2, <2>3, <2>6 DEF DockerInv
<1>4. ASSUME NEW c \in StopCalls, StopReturns(c) PROVE DockerInv'
  <2>1. Returned' = Returned \union {c} /\ c \notin Returned
    BY <1>4 DEF StopReturns, Returned, DockerInv, DockerTypeOK
  <2>2. Cardinality(Returned') = Cardinality(Returned) + 1
    BY <2>1, ReturnedIsFinite, FS_AddElement
  <2>3. DockerTypeOK'
    BY <1>4, <1>a DEF StopReturns, DockerInv, DockerTypeOK
  <2>6. EndIsKnown'
    BY <1>4 DEF StopReturns, DockerInv, DockerTypeOK, EndIsKnown
  <2>4. MonitorOwes'
    BY <1>4, <2>2, ReturnedIsFinite DEF StopReturns, DockerInv, DockerTypeOK, MonitorOwes
  <2>5. QED
    BY <2>3, <2>4, <2>6 DEF DockerInv
<1>5. QED
  BY <1>1, <1>2, <1>3, <1>4
  DEF DockerNext, dockerVars, ContainerEnds, MonitorAsks, EngineAnswers, MonitorFails

LEMMA DockerInvImplies == DockerInv => ExitsAreTrue
<1> SUFFICES ASSUME DockerInv PROVE ExitsAreTrue
  OBVIOUS
<1>1. AnnouncedByEach
  <2>1. exitsEmitted <= 1 + Cardinality(Returned)
    <3>1. exitsEmitted = Cardinality(Returned) \/ exitsEmitted = Cardinality(Returned) + 1
      BY DEF DockerInv, MonitorOwes
    <3>2. QED
      BY <3>1, ReturnedIsFinite
  <2>2. QED
    BY <2>1 DEF AnnouncedByEach, Returned
<1>2. ASSUME exitsEmitted > 0 PROVE ~containerUp
  <2>1. CASE Returned = {}
    <3>1. Cardinality(Returned) = 0
      BY <2>1, FS_EmptySet
    <3>2. exitsEmitted # Cardinality(Returned)
      BY <1>2, <3>1
    <3>3. QED
      BY <3>2 DEF DockerInv, MonitorOwes
  <2>2. CASE Returned # {}
    BY <2>2 DEF Returned, DockerInv, EndIsKnown
  <2>3. QED
    BY <2>1, <2>2
<1>3. QED
  BY <1>1, <1>2 DEF ExitAfterEnd, ExitsAreTrue, DockerInv

\* The exits of a container come after its end, at most once from the monitor and
\* once from each stop(), however the engine's answers cross the calls of stop()
\* (packages/pm/src/runtimes/docker.ts:121, 146).
THEOREM ContainerExitsAreTrue == DockerSpec => []ExitsAreTrue
<1>1. DockerInit => DockerInv
  BY DockerInitInv
<1>2. DockerInv /\ [DockerNext]_dockerVars => DockerInv'
  BY DockerStep
<1>3. DockerInv => ExitsAreTrue
  BY DockerInvImplies
<1>4. QED
  BY <1>1, <1>2, <1>3, PTL DEF DockerSpec
-----------------------------------------------------------------------------
\* A writeFile call under way.
Write == [array : Seq(Message), open : BOOLEAN]

\* What the file holds.
File == [length : Nat, parsed : BOOLEAN, messages : Seq(Message)]

\* An array of messages that callers have enqueued, each once.
Accepted(q) == IsInjective(q) /\ ToSet(q) \subseteq Message \ unseen

\* Nothing else is in the file or on its way to it.
FileIsAccepted ==
    /\ Accepted(disk.messages)
    /\ \A k \in DOMAIN writes : Accepted(writes[k].array)

\* The line as it is, and as it is without the message that is being handled.
Lines == {pending, handling \o pending}

\* Unless a write overlapped a different one, the writes under way hold one
\* array, the line, and fit over what is in the file once one is open.
WritesAreLine(line) ==
    /\ \A k \in DOMAIN writes : writes[k].array = line
    /\ (\E k \in DOMAIN writes : writes[k].open) => disk.length <= Len(line) + 1

\* The file, or the last write to it, holds the line while no write overlapped.
FileFollows ==
    up /\ ~tangled =>
        \/ writes = <<>> /\ disk.parsed /\ disk.messages \in Lines
        \/ writes # <<>> /\ \E line \in Lines : WritesAreLine(line)

\* A process that died holds nothing.
DownIsEmpty == ~up => writes = <<>> /\ handling = <<>> /\ ~processing

\* Until a crash the queue is the one in memory.
UncrashedKeeps == crashes = 0 => up /\ FinishedOnce /\ NothingLost

\* The inductive invariant of the persistent queue.
DurableInv ==
    /\ DurableTypeOK /\ QueueInv /\ LineOnce
    /\ FileIsAccepted /\ FileFollows /\ DownIsEmpty /\ UncrashedKeeps

\* What writes hold after a save() of one array, once or twice.
SavedLine(a) == Save(<<a>>) \/ Save(<<a, a>>)

\* A save() begins one more write of the line.
LEMMA SaveAdds ==
    ASSUME writes \in Seq(Write), NEW a \in Seq(Message), SavedLine(a)
    PROVE  /\ writes' \in Seq(Write) /\ writes' # <<>> /\ disk' = disk
           /\ tangled' = IF writes = <<>> THEN FALSE
                         ELSE tangled \/ \E k \in DOMAIN writes : writes[k].array # a
           /\ \A k \in DOMAIN writes' :
                \/ k \in DOMAIN writes /\ writes'[k] = writes[k]
                \/ writes'[k].array = a /\ ~writes'[k].open
<1> DEFINE w == [array |-> a, open |-> FALSE]
<1>2. w \in Write /\ w.array = a /\ w.open = FALSE
  BY DEF Write
<1>3. PICK arrays \in {<<a>>, <<a, a>>} : Save(arrays)
  BY DEF SavedLine
<1>4. PICK n \in 1..2 : Len(arrays) = n /\ DOMAIN arrays = 1..n /\ \A k \in 1..n : arrays[k] = a
  <2>1. Len(<<a>>) = 1 /\ DOMAIN <<a>> = 1..1 /\ \A k \in 1..1 : <<a>>[k] = a
    OBVIOUS
  <2>2. Len(<<a, a>>) = 2 /\ DOMAIN <<a, a>> = 1..2 /\ \A k \in 1..2 : <<a, a>>[k] = a
    OBVIOUS
  <2> QED
    BY <1>3, <2>1, <2>2
<1> DEFINE more == [k \in DOMAIN arrays |-> [array |-> arrays[k], open |-> FALSE]]
<1>5. writes' = writes \o more /\ arrays[1] = a
  BY <1>3, <1>4 DEF Save
<1>6. more \in Seq(Write) /\ Len(more) = n /\ \A k \in 1..n : more[k] = w
  <2>1. more = [k \in 1..n |-> w]
    BY <1>4
  <2> HIDE DEF w, more
  <2> QED
    BY <1>2, <2>1
<1> HIDE DEF w, more
<1>7. /\ writes' \in Seq(Write) /\ Len(writes') = Len(writes) + Len(more) /\ Len(writes) \in Nat
      /\ \A k \in 1..Len(writes') : writes'[k] = IF k <= Len(writes) THEN writes[k] ELSE more[k - Len(writes)]
  BY <1>5, <1>6, ConcatProperties, LenProperties
<1>8. DOMAIN writes' = 1..Len(writes') /\ DOMAIN writes = 1..Len(writes)
  BY <1>7, LenProperties
<1>9. ASSUME NEW k \in DOMAIN writes'
      PROVE  \/ k \in DOMAIN writes /\ writes'[k] = writes[k]
             \/ writes'[k].array = a /\ ~writes'[k].open
  <2>1. CASE k <= Len(writes)
    BY <1>7, <1>8, <1>9, <2>1
  <2>2. CASE ~(k <= Len(writes))
    <3>1. k - Len(writes) \in 1..Len(more)
      BY <1>6, <1>7, <1>8, <1>9, <2>2
    <3>2. writes'[k] = w
      BY <1>6, <1>7, <1>8, <1>9, <2>2, <3>1
    <3> QED
      BY <1>2, <3>2
  <2> QED
    BY <2>1, <2>2
<1>10. writes' # <<>>
  BY <1>4, <1>6, <1>7, EmptySeq
<1> QED
  BY <1>3, <1>5, <1>7, <1>9, <1>10 DEF Save

\* process() takes a message from the array and leaves the line as it was.
LEMMA ProcessKeepsLines ==
    ASSUME Falsy = {}, QueueInv, NEW q \in Seq(Message), Process(q)
    PROVE  /\ q \in Lines' \/ (handling = <<>> /\ handling' \o pending' = q)
           /\ q = pending => Lines \subseteq Lines'
<1>1. handling = <<>> => handling \o q = q
  OBVIOUS
<1>2. CASE processing \/ q = <<>>
  <2>1. pending' = q /\ handling' = handling
    BY <1>2 DEF Process
  <2>2. q \in Lines'
    BY <2>1 DEF Lines
  <2>3. q = pending => Lines' = Lines
    BY <2>1 DEF Lines
  <2> QED
    BY <2>2, <2>3
<1>3. CASE ~processing /\ q # <<>>
  <2>1. handling = <<>>
    BY <1>3 DEF QueueInv, OneHandler
  <2>2. handling' \o pending' = q
    <3>1. Head(q) \notin Falsy
      OBVIOUS
    <3>2. handling' = <<Head(q)>> /\ pending' = Tail(q)
      BY <1>3, <2>1, <3>1 DEF Process
    <3>3. <<Head(q)>> \o Tail(q) = q
      BY <1>3
    <3> QED
      BY <3>2, <3>3
  <2> QED
    BY <1>1, <2>1, <2>2 DEF Lines
<1> QED
  BY <1>2, <1>3

\* What each step of the running queue saves: the line it leaves.
LEMMA RunningSaves ==
    ASSUME Falsy = {}, ~SaveThrows, QueueInv, LineOnce, Running
    PROVE  \/ UNCHANGED diskVars /\ unseen' = unseen /\ Lines \subseteq Lines'
           \/ \E a \in Seq(Message) :
                /\ SavedLine(a) /\ a \in Lines' /\ unseen' \subseteq unseen
                /\ IsInjective(a) /\ ToSet(a) \subseteq Message \ unseen'
<1>t. /\ pending \in Seq(Message) /\ handling \in Seq(Message) /\ IsInjective(pending)
      /\ ToSet(pending) \subseteq Message \ unseen
  BY DEF QueueInv, QueueTypeOK, LineOnce
<1>1. ASSUME NEW m \in Message, DurableEnqueue(m)
      PROVE  \E a \in Seq(Message) :
                /\ SavedLine(a) /\ a \in Lines' /\ unseen' \subseteq unseen
                /\ IsInjective(a) /\ ToSet(a) \subseteq Message \ unseen'
  <2> DEFINE a == Append(pending, m)
  <2>1. /\ m \in unseen /\ unseen' = unseen \ {m} /\ Process(a) /\ Save(<<a>>)
    BY <1>1 DEF DurableEnqueue, Enqueue
  <2>2. a \in Seq(Message) /\ ToSet(a) = ToSet(pending) \union {m} /\ IsInjective(a)
    BY <1>t, <2>1, ElementsOfAppend
  <2> HIDE DEF a
  <2>3. a \in Lines'
    BY <2>1, <2>2, ProcessKeepsLines DEF Lines
  <2> QED
    BY <1>t, <2>1, <2>2, <2>3 DEF SavedLine
<1>2. ASSUME NEW i \in DOMAIN handling, DurableAccept(i)
      PROVE  \E a \in Seq(Message) :
                /\ SavedLine(a) /\ a \in Lines' /\ unseen' \subseteq unseen
                /\ IsInjective(a) /\ ToSet(a) \subseteq Message \ unseen'
  <2>1. unseen' = unseen /\ pending' = pending /\ Save(<<pending>>)
    BY <1>2 DEF DurableAccept, HandlerAccepts
  <2> QED
    BY <1>t, <2>1 DEF SavedLine, Lines
<1>3. ASSUME NEW i \in DOMAIN handling, DurableRefuse(i)
      PROVE  \E a \in Seq(Message) :
                /\ SavedLine(a) /\ a \in Lines' /\ unseen' \subseteq unseen
                /\ IsInjective(a) /\ ToSet(a) \subseteq Message \ unseen'
  <2> DEFINE a == Append(pending, handling[i])
  <2>1. /\ unseen' = unseen /\ pending' = a /\ HandlerRefuses(i) /\ Save(<<a, a>>)
        /\ handling' = RemoveAt(handling, i)
    BY <1>3 DEF DurableRefuse, HandlerRefuses
  <2>2. /\ handling[i] \in Message /\ ToSet(handling) = {handling[i]}
        /\ handling[i] \notin ToSet(pending)
    BY <2>1, HandlerLeaves
  <2>3. handling[i] \in Message \ unseen
    BY <2>2 DEF LineOnce
  <2>4. a \in Seq(Message) /\ ToSet(a) = ToSet(pending) \union {handling[i]} /\ IsInjective(a)
    BY <1>t, <2>2, ElementsOfAppend
  <2> HIDE DEF a
  <2> QED
    BY <1>t, <2>1, <2>3, <2>4 DEF SavedLine, Lines
<1>4. CASE DurableTick
  <2>1. UNCHANGED diskVars /\ unseen' = unseen /\ Process(pending)
    BY <1>4 DEF DurableTick, Tick, CallProcess
  <2> QED
    BY <1>t, <2>1, ProcessKeepsLines
<1> QED
  BY <1>1, <1>2, <1>3, <1>4 DEF Running

\* While the process runs, the queue takes the steps of Queue.
LEMMA RunningIsQueueNext == Running => QueueNext
BY DEF Running, DurableEnqueue, DurableAccept, DurableRefuse, DurableTick, QueueNext, HandlerNext

\* The file is written over with the whole of an array, if nothing longer is there.
LEMMA OverwriteFits ==
    ASSUME NEW f \in File, NEW q \in Seq(Message)
    PROVE  /\ Overwrite(f, q) \in File
           /\ f.length <= Len(q) + 1 =>
                /\ Overwrite(f, q).parsed /\ Overwrite(f, q).messages = q
                /\ Overwrite(f, q).length = Len(q) + 1
           /\ Overwrite(f, q).messages \in {q, <<>>}
<1>1. Len(q) \in Nat /\ f.length \in Nat
  BY DEF File
<1>2. CASE Len(q) + 1 >= f.length
  <2>1. Overwrite(f, q) = [length |-> Len(q) + 1, parsed |-> TRUE, messages |-> q]
    BY <1>2 DEF Overwrite
  <2>2. [length |-> Len(q) + 1, parsed |-> TRUE, messages |-> q] \in File
    BY <1>1 DEF File
  <2> QED
    BY <2>1, <2>2
<1>3. CASE ~(Len(q) + 1 >= f.length)
  <2>1. Overwrite(f, q) = [f EXCEPT !.parsed = FALSE, !.messages = <<>>]
    BY <1>3 DEF Overwrite
  <2> DEFINE g == [f EXCEPT !.parsed = FALSE, !.messages = <<>>]
  <2>2. g \in File
    <3>1. ASSUME NEW e \in Seq(Message) PROVE [f EXCEPT !.parsed = FALSE, !.messages = e] \in File
      BY DEF File
    <3>2. <<>> \in Seq(Message)
      OBVIOUS
    <3> QED
      BY <3>1, <3>2
  <2>3. g.messages = <<>>
    BY DEF File
  <2> HIDE DEF g
  <2>4. Overwrite(f, q) = g
    BY <2>1 DEF g
  <2> QED
    BY <1>1, <1>3, <2>2, <2>3, <2>4
<1> QED
  BY <1>2, <1>3

\* What is left in a file that does not parse.
LEMMA UnparsableIsFile == Unparsable \in File /\ Unparsable.length = 0 /\ Unparsable.messages = <<>>
BY DEF Unparsable, File

\* The two steps of a writeFile.
LEMMA OpenFileDoes ==
    ASSUME writes \in Seq(Write), NEW k \in DOMAIN writes, OpenFile(k)
    PROVE  /\ writes' \in Seq(Write) /\ writes' # <<>> /\ DOMAIN writes' = DOMAIN writes
           /\ \A j \in DOMAIN writes : writes'[j].array = writes[j].array
           /\ disk' = Unparsable
<1>1. writes' = [writes EXCEPT ![k].open = TRUE] /\ disk' = Unparsable
  BY DEF OpenFile
<1>2. PICK n \in Nat : n = Len(writes) /\ DOMAIN writes = 1..n /\ writes \in [1..n -> Write]
  BY LenProperties
<1>3. [writes[k] EXCEPT !.open = TRUE] \in Write
      /\ [writes[k] EXCEPT !.open = TRUE].array = writes[k].array
  BY <1>2 DEF Write
<1>4. writes' = [writes EXCEPT ![k] = [writes[k] EXCEPT !.open = TRUE]]
  BY <1>1
<1>5. writes' \in [1..n -> Write] /\ \A j \in 1..n : writes'[j].array = writes[j].array
  BY <1>2, <1>3, <1>4
<1>6. writes' \in Seq(Write) /\ DOMAIN writes' = 1..n
  BY <1>5
<1>7. writes' # <<>>
  BY <1>2, <1>6
<1> QED
  BY <1>1, <1>2, <1>5, <1>6, <1>7

\* A write replaces what the file holds.
LEMMA WriteArrayDoes ==
    ASSUME writes \in Seq(Write), NEW k \in DOMAIN writes, WriteArray(k)
    PROVE  /\ writes' \in Seq(Write)
           /\ writes[k] \in Write /\ writes[k].open
           /\ disk' = Overwrite(disk, writes[k].array)
           /\ \A i \in DOMAIN writes' : \E j \in DOMAIN writes : writes'[i] = writes[j]
<1>1. writes' = RemoveAt(writes, k) /\ writes[k].open /\ disk' = Overwrite(disk, writes[k].array)
  BY DEF WriteArray
<1>2. writes[k] \in Write
  BY LenProperties
<1> QED
  BY <1>1, <1>2, RemovedAt

\* A save() of the line puts the line on its way to the file.
LEMMA SaveFollows ==
    ASSUME writes \in Seq(Write), FileFollows, up,
           NEW a \in Seq(Message), SavedLine(a), a \in Lines'
    PROVE  FileFollows'
<1>1. SUFFICES ASSUME ~tangled' PROVE writes' # <<>> /\ WritesAreLine(a)'
  BY DEF FileFollows
<1>2. /\ writes' # <<>> /\ disk' = disk
      /\ tangled' = IF writes = <<>> THEN FALSE
                    ELSE tangled \/ \E k \in DOMAIN writes : writes[k].array # a
      /\ \A k \in DOMAIN writes' :
           \/ k \in DOMAIN writes /\ writes'[k] = writes[k]
           \/ writes'[k].array = a /\ ~writes'[k].open
  BY SaveAdds
<1>3. CASE writes = <<>>
  <2>1. \A k \in DOMAIN writes' : writes'[k].array = a /\ ~writes'[k].open
    BY <1>2, <1>3
  <2> QED
    BY <1>2, <2>1 DEF WritesAreLine
<1>4. CASE writes # <<>>
  <2>1. ~tangled /\ \A k \in DOMAIN writes : writes[k].array = a
    BY <1>1, <1>2, <1>4
  <2>2. PICK line \in Lines : WritesAreLine(line)
    BY <1>4, <2>1 DEF FileFollows
  <2>3. (\E k \in DOMAIN writes : writes[k].open) => disk.length <= Len(a) + 1
    BY <2>1, <2>2 DEF WritesAreLine
  <2> QED
    BY <1>2, <2>1, <2>3 DEF WritesAreLine
<1> QED
  BY <1>3, <1>4

\* What is in the file stays a line while the array is only processed.
LEMMA ProcessFollows ==
    ASSUME FileFollows, up, UNCHANGED diskVars, Lines \subseteq Lines'
    PROVE  FileFollows'
<1>1. disk' = disk /\ writes' = writes /\ tangled' = tangled
  BY DEF diskVars
<1>2. ASSUME NEW line, WritesAreLine(line) PROVE WritesAreLine(line)'
  BY <1>1, <1>2 DEF WritesAreLine
<1> QED
  BY <1>1, <1>2 DEF FileFollows

\* The steps of a writeFile bring the line into the file.
LEMMA OpenFileFollows ==
    ASSUME writes \in Seq(Write), pending \in Seq(Message), handling \in Seq(Message),
           FileFollows, NEW k \in DOMAIN writes, OpenFile(k)
    PROVE  FileFollows'
<1>1. UNCHANGED <<pending, handling, up, tangled>>
  BY DEF OpenFile, queueVars
<1>2. SUFFICES ASSUME up, ~tangled, NEW line \in Lines, WritesAreLine(line)
               PROVE  writes' # <<>> /\ WritesAreLine(line)'
  <2>1. writes # <<>>
    OBVIOUS
  <2>2. Lines' = Lines
    BY <1>1 DEF Lines
  <2> QED
    BY <1>1, <2>1, <2>2 DEF FileFollows
<1>3. line \in Seq(Message) /\ Len(line) \in Nat
  <2>1. line \in Seq(Message)
    BY ConcatProperties DEF Lines
  <2> QED
    BY <2>1, LenProperties
<1>4. disk'.length <= Len(line) + 1
  BY <1>3, OpenFileDoes, UnparsableIsFile
<1>5. writes' # <<>> /\ \A j \in DOMAIN writes' : writes'[j].array = line
  BY <1>2, OpenFileDoes DEF WritesAreLine
<1> QED
  BY <1>4, <1>5 DEF WritesAreLine

\* A write of the line leaves the line in the file.
LEMMA WriteArrayFollows ==
    ASSUME writes \in Seq(Write), disk \in File, FileFollows, NEW k \in DOMAIN writes, WriteArray(k)
    PROVE  FileFollows'
<1>1. UNCHANGED <<pending, handling, up, tangled>>
  BY DEF WriteArray, queueVars
<1>2. SUFFICES ASSUME up, ~tangled, NEW line \in Lines, WritesAreLine(line)
               PROVE  disk'.parsed /\ disk'.messages = line /\ WritesAreLine(line)'
  <2>1. writes # <<>>
    OBVIOUS
  <2>2. Lines' = Lines
    BY <1>1 DEF Lines
  <2> QED
    BY <1>1, <2>1, <2>2 DEF FileFollows
<1>3. /\ writes[k] \in Write /\ writes[k].open /\ disk' = Overwrite(disk, writes[k].array)
      /\ \A i \in DOMAIN writes' : \E j \in DOMAIN writes : writes'[i] = writes[j]
  BY WriteArrayDoes
<1>4. writes[k].array = line /\ disk.length <= Len(line) + 1
  BY <1>2, <1>3 DEF WritesAreLine
<1>8. line \in Seq(Message)
  BY <1>3, <1>4 DEF Write
<1>5. disk'.parsed /\ disk'.messages = line /\ disk'.length = Len(line) + 1
  BY <1>3, <1>4, <1>8, OverwriteFits
<1>6. Len(line) \in Nat
  BY <1>8, LenProperties
<1>7. disk'.length <= Len(line) + 1
  BY <1>5, <1>6
<1>9. \A i \in DOMAIN writes' : writes'[i].array = line
  <2>1. \A j \in DOMAIN writes : writes[j].array = line
    BY <1>2 DEF WritesAreLine
  <2> QED
    BY <1>3, <2>1
<1> QED
  BY <1>5, <1>7, <1>9 DEF WritesAreLine

\* The types, as the code declares them, before and after a step.
LEMMA DurableTypeParts ==
    /\ DurableTypeOK => /\ QueueTypeOK /\ disk \in File /\ writes \in Seq(Write)
                        /\ up \in BOOLEAN /\ tangled \in BOOLEAN /\ crashes \in 0..MaxCrashes
    /\ /\ QueueTypeOK' /\ disk' \in File /\ writes' \in Seq(Write)
       /\ up' \in BOOLEAN /\ tangled' \in BOOLEAN /\ crashes' \in 0..MaxCrashes
       => DurableTypeOK'
BY DEF DurableTypeOK, File, Write

\* A step of the queue that is saved keeps the invariant.
LEMMA RunningKeeps ==
    Falsy = {} /\ ~SaveThrows /\ DurableInv /\ Running => DurableInv'
<1> SUFFICES ASSUME Falsy = {}, ~SaveThrows, DurableInv, Running PROVE DurableInv'
  OBVIOUS
<1>1. /\ QueueInv /\ LineOnce /\ disk \in File /\ writes \in Seq(Write) /\ up
      /\ tangled \in BOOLEAN /\ crashes \in 0..MaxCrashes
      /\ FileIsAccepted /\ FileFollows /\ DownIsEmpty /\ UncrashedKeeps
  BY DurableTypeParts DEF DurableInv, Running
<1>2. up' = up /\ crashes' = crashes /\ QueueNext
  BY RunningIsQueueNext DEF Running
<1>3. QueueInv' /\ LineOnce' /\ (FinishedOnce => FinishedOnce') /\ (NothingLost => NothingLost')
  BY <1>1, <1>2, QueueInvStep, LineOnceStep, FinishedOnceStep, NothingLostStep
<1>4. UncrashedKeeps' /\ DownIsEmpty'
  BY <1>1, <1>2, <1>3 DEF UncrashedKeeps, DownIsEmpty
<1>5. CASE UNCHANGED diskVars /\ unseen' = unseen /\ Lines \subseteq Lines'
  <2>1. disk' = disk /\ writes' = writes /\ tangled' = tangled
    BY <1>5 DEF diskVars
  <2>2. FileFollows'
    BY <1>1, <1>5, ProcessFollows
  <2>3. FileIsAccepted'
    BY <1>1, <1>5, <2>1 DEF FileIsAccepted, Accepted
  <2>4. DurableTypeOK'
    BY <1>1, <1>2, <1>3, <2>1, DurableTypeParts DEF QueueInv
  <2> QED
    BY <1>3, <1>4, <2>2, <2>3, <2>4 DEF DurableInv
<1>6. ASSUME NEW a \in Seq(Message), SavedLine(a), a \in Lines', unseen' \subseteq unseen,
             IsInjective(a), ToSet(a) \subseteq Message \ unseen'
      PROVE  DurableInv'
  <2>1. /\ writes' \in Seq(Write) /\ disk' = disk
        /\ tangled' = IF writes = <<>> THEN FALSE
                      ELSE tangled \/ \E k \in DOMAIN writes : writes[k].array # a
        /\ \A k \in DOMAIN writes' :
             \/ k \in DOMAIN writes /\ writes'[k] = writes[k]
             \/ writes'[k].array = a /\ ~writes'[k].open
    BY <1>1, <1>6, SaveAdds
  <2>2. tangled' \in BOOLEAN
    BY <1>1, <2>1
  <2>3. FileFollows'
    BY <1>1, <1>6, SaveFollows
  <2>4. FileIsAccepted'
    <3>1. ASSUME NEW q, Accepted(q) PROVE Accepted(q)'
      BY <1>6, <3>1 DEF Accepted
    <3>2. Accepted(a)'
      BY <1>6 DEF Accepted
    <3> QED
      BY <1>1, <2>1, <3>1, <3>2 DEF FileIsAccepted, Accepted
  <2>5. DurableTypeOK'
    BY <1>1, <1>2, <1>3, <2>1, <2>2, DurableTypeParts DEF QueueInv
  <2> QED
    BY <1>3, <1>4, <2>3, <2>4, <2>5 DEF DurableInv
<1> QED
  BY <1>1, <1>5, <1>6, RunningSaves

\* The two steps of a writeFile leave the queue as it is.
LEMMA QueueUntouched ==
    ASSUME DurableInv, UNCHANGED <<queueVars, up, crashes, tangled>>,
           disk' \in File, writes' \in Seq(Write)
    PROVE  /\ DurableTypeOK' /\ QueueInv' /\ LineOnce' /\ UncrashedKeeps'
           /\ \A q : Accepted(q) => Accepted(q)'
<1>1. /\ QueueInv /\ LineOnce /\ up \in BOOLEAN /\ tangled \in BOOLEAN /\ crashes \in 0..MaxCrashes
      /\ UncrashedKeeps /\ up' = up /\ crashes' = crashes /\ tangled' = tangled
      /\ UNCHANGED queueVars
  BY DurableTypeParts DEF DurableInv
<1>2. QueueInv' /\ LineOnce' /\ (FinishedOnce => FinishedOnce') /\ (NothingLost => NothingLost')
  BY <1>1, QueueInvStep, LineOnceStep, FinishedOnceStep, NothingLostStep
<1>3. UncrashedKeeps'
  BY <1>1, <1>2 DEF UncrashedKeeps
<1>4. DurableTypeOK'
  BY <1>1, <1>2, DurableTypeParts DEF QueueInv
<1>5. \A q : Accepted(q) => Accepted(q)'
  BY <1>1 DEF Accepted, queueVars
<1> QED
  BY <1>2, <1>3, <1>4, <1>5

\* A step of a write keeps the invariant.
LEMMA WritingKeeps ==
    ASSUME DurableInv, NEW k \in DOMAIN writes, OpenFile(k) \/ WriteArray(k)
    PROVE  DurableInv'
<1>1. /\ pending \in Seq(Message) /\ handling \in Seq(Message) /\ FileFollows /\ FileIsAccepted
      /\ disk \in File /\ writes \in Seq(Write) /\ DownIsEmpty
  BY DurableTypeParts DEF DurableInv, QueueInv, QueueTypeOK
<1>2. UNCHANGED <<queueVars, up, crashes, tangled>>
  BY DEF OpenFile, WriteArray
<1>3. writes # <<>> /\ up
  BY <1>1 DEF DownIsEmpty
<1>4. DownIsEmpty'
  BY <1>2, <1>3 DEF DownIsEmpty
<1>5. CASE OpenFile(k)
  <2>1. /\ writes' \in Seq(Write) /\ DOMAIN writes' = DOMAIN writes /\ disk' = Unparsable
        /\ \A j \in DOMAIN writes : writes'[j].array = writes[j].array
    BY <1>1, <1>5, OpenFileDoes
  <2>2. disk' \in File /\ disk'.messages = <<>>
    BY <2>1, UnparsableIsFile
  <2>3. /\ DurableTypeOK' /\ QueueInv' /\ LineOnce' /\ UncrashedKeeps'
        /\ \A q : Accepted(q) => Accepted(q)'
    BY <1>2, <2>1, <2>2, QueueUntouched
  <2>4. Accepted(<<>>)
    BY ElementsOfNothing DEF Accepted
  <2>5. FileIsAccepted'
    BY <1>1, <2>1, <2>2, <2>3, <2>4 DEF FileIsAccepted
  <2>6. FileFollows'
    BY <1>1, <1>5, OpenFileFollows
  <2> QED
    BY <1>4, <2>3, <2>5, <2>6 DEF DurableInv
<1>6. CASE WriteArray(k)
  <2>1. /\ writes' \in Seq(Write) /\ writes[k].array \in Seq(Message)
        /\ disk' = Overwrite(disk, writes[k].array)
        /\ \A i \in DOMAIN writes' : \E j \in DOMAIN writes : writes'[i] = writes[j]
    BY <1>1, <1>6, WriteArrayDoes DEF Write
  <2>2. disk' \in File /\ disk'.messages \in {writes[k].array, <<>>}
    BY <1>1, <2>1, OverwriteFits
  <2>3. /\ DurableTypeOK' /\ QueueInv' /\ LineOnce' /\ UncrashedKeeps'
        /\ \A q : Accepted(q) => Accepted(q)'
    BY <1>2, <2>1, <2>2, QueueUntouched
  <2>4. Accepted(<<>>)
    BY ElementsOfNothing DEF Accepted
  <2>5. FileIsAccepted'
    <3>1. unseen' = unseen
      BY <1>2 DEF queueVars
    <3> QED
      BY <1>1, <2>1, <2>2, <2>4, <3>1 DEF FileIsAccepted, Accepted
  <2>6. FileFollows'
    BY <1>1, <1>6, WriteArrayFollows
  <2> QED
    BY <1>4, <2>3, <2>5, <2>6 DEF DurableInv
<1> QED
  BY <1>5, <1>6

\* A crash leaves nothing in memory.
LEMMA CrashKeeps == DurableInv /\ DurableCrash => DurableInv'
<1> SUFFICES ASSUME DurableInv, DurableCrash PROVE DurableInv'
  OBVIOUS
<1>1. /\ QueueInv /\ disk \in File /\ tangled \in BOOLEAN /\ crashes \in 0..MaxCrashes /\ FileIsAccepted
  BY DurableTypeParts DEF DurableInv
<1>2. /\ up' = FALSE /\ crashes' = crashes + 1 /\ crashes < MaxCrashes
      /\ pending' = <<>> /\ handling' = <<>> /\ processing' = FALSE /\ ticks' = 0
      /\ writes' = <<>> /\ UNCHANGED <<unseen, finished, disk, tangled>>
  BY DEF DurableCrash
<1>3. ToSet(<<>>) = {} /\ IsInjective(<<>>) /\ <<>> \in Seq(Message) /\ <<>> \in Seq(Write)
      /\ Len(<<>>) = 0 /\ DOMAIN <<>> = {}
  BY ElementsOfNothing
<1>4. QueueTypeOK'
  BY <1>1, <1>2, <1>3 DEF QueueInv, QueueTypeOK
<1>5. OneHandler'
  BY <1>2, <1>3 DEF OneHandler
<1>6. LineOnce'
  BY <1>2, <1>3 DEF LineOnce
<1>7. FileIsAccepted' /\ FileFollows' /\ DownIsEmpty'
  BY <1>1, <1>2, <1>3 DEF FileIsAccepted, Accepted, FileFollows, DownIsEmpty
<1>8. crashes' \in 0..MaxCrashes /\ crashes' # 0
  BY <1>1, <1>2, DurableAssumption
<1>9. UncrashedKeeps'
  BY <1>8 DEF UncrashedKeeps
<1>10. DurableTypeOK'
  BY <1>1, <1>2, <1>3, <1>4, <1>8, DurableTypeParts
<1> QED
  BY <1>4, <1>5, <1>6, <1>7, <1>9, <1>10 DEF DurableInv, QueueInv

\* The queue is constructed from the file.
LEMMA ReconstructKeeps == DurableInv /\ Reconstruct => DurableInv'
<1> SUFFICES ASSUME DurableInv, Reconstruct PROVE DurableInv'
  OBVIOUS
<1>1. /\ QueueInv /\ disk \in File /\ crashes \in 0..MaxCrashes /\ FileIsAccepted
      /\ LineOnce /\ DownIsEmpty /\ UncrashedKeeps
  BY DurableTypeParts DEF DurableInv
<1>2. /\ ~up /\ disk.parsed /\ up' = TRUE /\ pending' = disk.messages /\ tangled' = FALSE
      /\ UNCHANGED <<processing, handling, ticks, unseen, finished, disk, writes, crashes>>
  BY DEF Reconstruct
<1>3. writes = <<>> /\ handling = <<>> /\ disk.messages \in Seq(Message)
      /\ ToSet(handling) = {} /\ <<>> \in Seq(Write) /\ Accepted(disk.messages)
  BY <1>1, <1>2, ElementsOfNothing DEF DownIsEmpty, File, FileIsAccepted
<1>4. QueueTypeOK'
  BY <1>1, <1>2, <1>3 DEF QueueInv, QueueTypeOK
<1>5. OneHandler'
  BY <1>1, <1>2 DEF QueueInv, OneHandler
<1>6. LineOnce'
  BY <1>2, <1>3 DEF LineOnce, Accepted
<1>7. FileIsAccepted' /\ DownIsEmpty' /\ UncrashedKeeps'
  BY <1>1, <1>2 DEF FileIsAccepted, Accepted, DownIsEmpty, UncrashedKeeps
<1>8. FileFollows'
  BY <1>2, <1>3 DEF FileFollows, Lines
<1>9. DurableTypeOK'
  BY <1>1, <1>2, <1>3, <1>4, DurableTypeParts
<1> QED
  BY <1>4, <1>5, <1>6, <1>7, <1>8, <1>9 DEF DurableInv, QueueInv

\* Every step of the persistent queue keeps the invariant.
LEMMA DurableStep ==
    Falsy = {} /\ ~SaveThrows /\ DurableInv /\ [DurableNext]_durableVars => DurableInv'
<1> SUFFICES ASSUME Falsy = {}, ~SaveThrows, DurableInv, [DurableNext]_durableVars PROVE DurableInv'
  OBVIOUS
<1>1. CASE UNCHANGED durableVars
  <2>1. disk \in File /\ writes \in Seq(Write) /\ FileIsAccepted /\ FileFollows /\ DownIsEmpty
    BY DurableTypeParts DEF DurableInv
  <2>2. UNCHANGED <<queueVars, up, crashes, tangled>> /\ UNCHANGED queueVars /\ disk' = disk /\ writes' = writes
        /\ pending' = pending /\ handling' = handling /\ processing' = processing /\ unseen' = unseen
        /\ up' = up /\ tangled' = tangled
    BY <1>1 DEF durableVars, queueVars
  <2>3. DurableTypeOK' /\ QueueInv' /\ LineOnce' /\ UncrashedKeeps'
    BY <2>1, <2>2, QueueUntouched
  <2>4. FileIsAccepted' /\ DownIsEmpty'
    BY <2>1, <2>2 DEF FileIsAccepted, Accepted, DownIsEmpty
  <2>5. FileFollows'
    BY <2>1, <2>2 DEF FileFollows, Lines, WritesAreLine
  <2> QED
    BY <2>3, <2>4, <2>5 DEF DurableInv
<1> QED
  BY <1>1, RunningKeeps, WritingKeeps, CrashKeeps, ReconstructKeeps DEF DurableNext

\* The invariant holds of a queue that was just constructed.
LEMMA DurableInitInv == ASSUME DurableInit PROVE DurableInv
<1>1. QueueInv /\ LineOnce /\ FinishedOnce /\ NothingLost
  BY QueueInitInv, OnceInitially DEF DurableInit
<1>2. /\ disk = Overwrite(Unparsable, Initial) /\ writes = <<>> /\ up = TRUE /\ crashes = 0
      /\ tangled = FALSE /\ pending = Initial /\ unseen = Message \ ToSet(Initial)
      /\ Initial \in Seq(Message) /\ handling = <<>> /\ <<>> \in Seq(Write)
  BY QueueAssumption DEF DurableInit, QueueInit
<1>3. Len(Initial) \in Nat
  BY <1>2, LenProperties
<1>4. disk \in File /\ disk.parsed /\ disk.messages = Initial
  BY <1>2, <1>3, OverwriteFits, UnparsableIsFile
<1>5. crashes \in 0..MaxCrashes
  BY <1>2, DurableAssumption
<1>6. DurableTypeOK
  BY <1>1, <1>2, <1>4, <1>5 DEF DurableTypeOK, File, Write, QueueInv
<1>7. Accepted(Initial)
  BY <1>1, <1>2 DEF Accepted, LineOnce
<1>8. FileIsAccepted
  BY <1>2, <1>4, <1>7 DEF FileIsAccepted
<1>9. FileFollows /\ DownIsEmpty /\ UncrashedKeeps
  BY <1>1, <1>2, <1>4 DEF FileFollows, Lines, DownIsEmpty, UncrashedKeeps
<1> QED
  BY <1>1, <1>6, <1>8, <1>9 DEF DurableInv

\* What the invariant says of the file, the queue, and what a new process reads.
LEMMA DurableInvEnough ==
    ASSUME DurableInv
    PROVE  /\ DurableTypeOK /\ SettledFileIsLine /\ ConservedUntilCrash
           /\ Reconstruct => IsInjective(pending') /\ ToSet(pending') \cap unseen = {}
<1>1. SettledFileIsLine
  BY DEF DurableInv, FileFollows, Lines, SettledFileIsLine
<1>2. ConservedUntilCrash
  BY ConservedEnough DEF DurableInv, UncrashedKeeps, ConservedUntilCrash
<1>3. ASSUME Reconstruct PROVE IsInjective(pending') /\ ToSet(pending') \cap unseen = {}
  BY <1>3 DEF Reconstruct, DurableInv, FileIsAccepted, Accepted
<1> QED
  BY <1>1, <1>2, <1>3 DEF DurableInv

\* The file of a queue of truthy messages is the line whenever its writes have
\* settled and none overlapped a different one; and whatever overlapped or was
\* lost in a crash, what a new process reads was enqueued, and is read once
\* (server/src/queue.ts:7-23, core/src/queue.ts).
THEOREM FileStaysWithTheLine ==
    Falsy = {} /\ ~SaveThrows => (DurableSpec => FileKeepsTheLine)
<1> SUFFICES ASSUME Falsy = {}, ~SaveThrows PROVE DurableSpec => FileKeepsTheLine
  OBVIOUS
<1>1. DurableInit => DurableInv
  BY DurableInitInv
<1>2. DurableInv /\ [DurableNext]_durableVars => DurableInv'
  BY DurableStep
<1>3. DurableInv => DurableTypeOK /\ SettledFileIsLine /\ ConservedUntilCrash
  BY DurableInvEnough
<1>4. DurableInv /\ [DurableNext]_durableVars
      => [Reconstruct => IsInjective(pending') /\ ToSet(pending') \cap unseen = {}]_durableVars
  BY DurableInvEnough
<1> QED
  BY <1>1, <1>2, <1>3, <1>4, PTL DEF DurableSpec, FileKeepsTheLine, RestoresOnlyAccepted

-----------------------------------------------------------------------------
(***************************************************************************)
(* Records and their files (JsonFiles).                                    *)
(***************************************************************************)
EntryType == Commands \union {"none", "listed"}
FolderType == [phase : {"known", "making", "made", "listing", "open"},
               listed : {"not yet", "absent", "there"}, entry : EntryType]
CommandType ==
  [op : Kinds, folder : Nat, entry : EntryType,
   at : {"idle", "missed", "asking", "asked", "waiting", "entered", "stat", "statted", "opening", "opened",
         "written", "reading", "read", "unlinking", "unlinked", "done"},
   isNew : BOOLEAN, time : Nat, node : Nat, content : Contents]
FileType == [content : Contents, time : Nat, node : Nat]
KnownType == [content : Contents, read : Nat]

\* The types, with folders as a sequence, and every command's folder in it.
JsonTypes ==
  /\ folders \in Seq(FolderType)
  /\ store \in Nat /\ store <= Len(folders)
  /\ fresh \subseteq Commands
  /\ onDisk \in FileType /\ cached \in KnownType /\ clock \in Nat
  /\ command \in [Commands -> CommandType]
  /\ \A c \in Commands : command[c].folder <= Len(folders)
  /\ ended \in BOOLEAN /\ latest \in Contents
  /\ met \subseteq {"edits", "writes", "reads", "folders", "early"}

At(c, places) == command[c].at \in places

\* Where a command awaits agrees with what it does.
PlacesInStep ==
  \A c \in Commands :
    /\ At(c, {"stat", "statted"}) => command[c].op \in {"insert", "update", "load"}
    /\ At(c, {"opening", "opened", "written"}) => command[c].op \in {"insert", "update"}
    /\ At(c, {"reading", "read"}) => command[c].op = "load"
    /\ At(c, {"unlinking", "unlinked"}) => command[c].op = "delete"
    /\ At(c, {"missed", "asking", "asked"}) => command[c].op \in {"insert", "another"}
    /\ At(c, {"asking", "asked", "waiting", "entered", "unlinking", "unlinked"}) => command[c].folder # 0
    /\ At(c, {"asking", "asked"}) => store # 0
    /\ At(c, {"entered"}) => folders[command[c].folder].phase \in {"made", "open"}
    /\ At(c, {"entered"}) /\ "early" \notin met => folders[command[c].folder].phase = "open"

\* No date is later than the clock; and what a load has read is what the file
\* holds, unless the file has been written since the lstat() of the load.
DatesInStep ==
  /\ onDisk.time <= clock /\ cached.read <= clock
  /\ onDisk # Absent => onDisk.time > 0
  /\ \A c \in Commands :
       /\ At(c, {"statted", "reading", "read"}) => command[c].time <= clock
       /\ At(c, {"read"}) /\ onDisk # Absent /\ onDisk.time <= command[c].time => command[c].content = onDisk.content

\* As long as no two writes ran together there is one at most, and it alone
\* makes the difference between the file, what is known of it, and what was
\* acknowledged.
WriterAlone ==
  "writes" \notin met =>
    /\ \A c, d \in Commands : Writing(c) /\ Writing(d) => c = d
    /\ \A c \in Commands :
         /\ At(c, {"opened"}) => onDisk # Absent /\ onDisk.node = command[c].node
         /\ At(c, {"written"}) => onDisk # Absent /\ onDisk.content = c
         /\ At(c, {"unlinked"}) => onDisk = Absent
    /\ (\A c \in Commands : ~At(c, {"opened", "written", "unlinked"})) => onDisk.content = latest
    /\ onDisk # Absent /\ cached # Unread /\ onDisk.time <= cached.read => cached.content = onDisk.content

\* As long as the collection had one folder, its commands use that one; and a
\* record that it does not know, once it is made or listed, has no file.
FolderKept ==
  met \intersect {"writes", "folders"} = {} =>
    /\ store = 0 => onDisk = Absent
    /\ \A c \in Commands :
         command[c].op # "load" /\ (At(c, {"asking", "asked", "waiting", "entered"}) \/ Writing(c)) =>
           store # 0 /\ command[c].folder = store
    /\ store # 0 =>
         /\ folders[store].phase \in {"known", "making", "listing"} => NothingWritten /\ folders[store].entry = "none"
         /\ folders[store].phase = "making" => onDisk = Absent
         /\ folders[store].phase \in {"known", "listing"} =>
              /\ folders[store].listed = "absent" => onDisk = Absent
              /\ folders[store].listed = "there" => onDisk # Absent
         /\ folders[store].entry = "none" =>
              NothingWritten /\ (folders[store].phase \in {"made", "open"} => onDisk = Absent)
    /\ \A c \in Commands : command[c].op = "insert" /\ At(c, {"stat", "statted", "opening"}) => onDisk = Absent

\* As long as no folder was used before it was listed, the collection knows
\* the record exactly when its file exists, but for the write in progress.
KnownKept ==
  ~ended /\ met \intersect {"writes", "folders", "early"} = {} =>
    /\ store # 0 =>
         /\ folders[store].phase = "made" =>
              NothingWritten /\ onDisk = Absent /\ folders[store].entry = "none" /\ folders[store].listed # "there"
         /\ folders[store].phase = "making" => folders[store].listed = "not yet"
         /\ folders[store].entry # "none" /\ NothingWritten => onDisk # Absent
    /\ \A c \in Commands :
         /\ command[c].op \in {"update", "delete"} /\ At(c, {"stat", "statted", "opening", "unlinking"}) => onDisk # Absent
         /\ command[c].op = "insert" /\ At(c, {"stat", "statted"}) => command[c].isNew
         /\ command[c].op = "update" /\ At(c, {"statted"}) => command[c].time > 0

\* As long as nothing ran together, a command holds the date and the content
\* of the file, and what is known is no older than the file.
NobodyBeside ==
  met \intersect {"edits", "writes", "reads"} = {} =>
    /\ ~ended
    /\ \A c, d \in Commands : Writing(c) => ~Reading(d)
    /\ \A c \in Commands :
         /\ At(c, {"statted", "reading", "read"}) => command[c].time = onDisk.time
         /\ At(c, {"read"}) => command[c].content = onDisk.content
    /\ (\A c \in Commands : ~At(c, {"opened", "written"})) => cached = Unread \/ onDisk.time <= cached.read
    /\ (\A c \in Commands : ~At(c, {"opened"})) => onDisk.content # "cut"

JsonInv ==
  JsonTypes /\ PlacesInStep /\ DatesInStep /\ WriterAlone /\ FolderKept /\ KnownKept /\ NobodyBeside

-----------------------------------------------------------------------------
\* Constants of the records' types, and what tells them apart.
LEMMA JsonConstants ==
  /\ Absent \in FileType /\ Absent.time = 0 /\ Absent.content = "absent" /\ Absent.node = 0
  /\ Unread \in KnownType /\ Unread.read = 0
  /\ Uncalled \in CommandType /\ Uncalled.op = "load" /\ Uncalled.at = "idle" /\ Uncalled.folder = 0
  /\ Commands \subseteq Contents /\ Commands \subseteq EntryType /\ {"none", "listed"} \subseteq EntryType
  /\ \A c \in Commands : c # "none" /\ c # "listed" /\ c # "cut" /\ c # "absent"
  /\ NewFolder \in FolderType /\ NewFolder.phase = "making" /\ NewFolder.listed = "not yet" /\ NewFolder.entry = "none"
<1>1. Commands \subseteq Contents /\ {"absent", "old", "edited", "cut"} \subseteq Contents
  BY DEF Contents
<1>2. Commands \subseteq EntryType /\ {"none", "listed"} \subseteq EntryType
  BY DEF EntryType
<1>3. Absent \in FileType /\ Absent.time = 0 /\ Absent.content = "absent" /\ Absent.node = 0
  BY <1>1 DEF Absent, FileType
<1>4. Unread \in KnownType /\ Unread.read = 0
  BY <1>1 DEF Unread, KnownType
<1>5. Uncalled \in CommandType /\ Uncalled.op = "load" /\ Uncalled.at = "idle" /\ Uncalled.folder = 0
  BY <1>1, <1>2 DEF Uncalled, CommandType, Kinds
<1>6. NewFolder \in FolderType /\ NewFolder.phase = "making" /\ NewFolder.listed = "not yet" /\ NewFolder.entry = "none"
  BY <1>2 DEF NewFolder, FolderType
<1>7. \A c \in Commands : c # "none" /\ c # "listed" /\ c # "cut" /\ c # "absent"
  BY CommandsAreNew
<1> QED
  BY <1>1, <1>2, <1>3, <1>4, <1>5, <1>6, <1>7, Zenon

\* A step of one command.
LEMMA CommandMoves ==
  ASSUME command \in [Commands -> CommandType], NEW c \in Commands, NEW new \in CommandType,
         command' = [command EXCEPT ![c] = new]
  PROVE  /\ command' \in [Commands -> CommandType]
         /\ command'[c] = new /\ \A d \in Commands : d # c => command'[d] = command[d]
OBVIOUS

\* A folder that changes, and one that is made.
LEMMA FolderChanges ==
  ASSUME folders \in Seq(FolderType), NEW f \in DOMAIN folders, NEW new \in FolderType,
         folders' = [folders EXCEPT ![f] = new]
  PROVE  /\ folders' \in Seq(FolderType) /\ Len(folders') = Len(folders) /\ DOMAIN folders' = DOMAIN folders
         /\ folders'[f] = new /\ \A g \in DOMAIN folders : g # f => folders'[g] = folders[g]
<1>1. PICK n \in Nat : n = Len(folders) /\ DOMAIN folders = 1..n /\ folders \in [1..n -> FolderType]
  BY LenProperties
<1>2. folders' \in [1..n -> FolderType]
  BY <1>1
<1>3. folders' \in Seq(FolderType)
  BY <1>1, <1>2, SeqDef
<1>4. Len(folders') = n
  BY <1>1, <1>2, <1>3, LenProperties
<1> QED
  BY <1>1, <1>2, <1>3, <1>4

LEMMA FolderMade ==
  ASSUME folders \in Seq(FolderType), folders' = Append(folders, NewFolder)
  PROVE  /\ folders' \in Seq(FolderType) /\ Len(folders) \in Nat /\ Len(folders') = Len(folders) + 1
         /\ DOMAIN folders = 1..Len(folders) /\ DOMAIN folders' = 1..(Len(folders) + 1)
         /\ folders'[Len(folders) + 1] = NewFolder /\ \A g \in DOMAIN folders : folders'[g] = folders[g]
<1>1. NewFolder \in FolderType
  BY JsonConstants
<1>2. DOMAIN folders = 1..Len(folders) /\ Len(folders) \in Nat
  BY LenProperties
<1>3. /\ folders' \in Seq(FolderType) /\ Len(folders') = Len(folders) + 1
      /\ folders'[Len(folders) + 1] = NewFolder /\ \A g \in 1..Len(folders) : folders'[g] = folders[g]
  BY <1>1, <1>2, AppendProperties
<1>4. DOMAIN folders' = 1..Len(folders')
  BY <1>3, LenProperties
<1> QED
  BY <1>2, <1>3, <1>4

LEMMA JsonInitInv == JsonInit => JsonInv
<1> SUFFICES ASSUME JsonInit PROVE JsonInv
  OBVIOUS
<1>1. /\ command = [c \in Commands |-> Uncalled] /\ fresh = {} /\ cached = Unread /\ ended = FALSE
      /\ latest = onDisk.content /\ met = {} /\ clock = 1
  BY DEF JsonInit
<1>2. \A c \in Commands : command[c] = Uncalled /\ command[c].at = "idle" /\ command[c].op = "load" /\ command[c].folder = 0
  BY <1>1, JsonConstants
<1>3. onDisk \in FileType /\ onDisk.time <= 1 /\ (onDisk # Absent => onDisk.time > 0) /\ onDisk.content # "cut"
      /\ onDisk.content \in Contents
  <2>1. "old" \in Contents /\ "absent" \in Contents /\ "absent" # "cut"
    BY DEF Contents
  <2>2. CASE onDisk = Absent
    <3>1. Absent \in FileType /\ Absent.time = 0 /\ Absent.content = "absent"
      BY JsonConstants
    <3> QED
      BY <2>1, <2>2, <3>1
  <2>3. CASE onDisk = [content |-> "old", time |-> 1, node |-> 1]
    BY <2>1, <2>3 DEF FileType
  <2> QED
    BY <2>2, <2>3 DEF JsonInit
<1>4. \/ store = 0 /\ folders = <<>> /\ onDisk = Absent
      \/ store = 1 /\ folders = <<[phase |-> "known", listed |-> "not yet", entry |-> "none"]>>
  BY DEF JsonInit
<1>5. /\ folders \in Seq(FolderType) /\ store \in Nat /\ store <= Len(folders)
      /\ store = 0 => onDisk = Absent
      /\ store # 0 => folders[store].phase = "known" /\ folders[store].listed = "not yet" /\ folders[store].entry = "none"
  <2> DEFINE known == [phase |-> "known", listed |-> "not yet", entry |-> "none"]
  <2>1. known \in FolderType /\ known.phase = "known" /\ known.listed = "not yet" /\ known.entry = "none"
    BY JsonConstants DEF FolderType
  <2> HIDE DEF known
  <2>2. <<>> \in Seq(FolderType) /\ Len(<<>>) = 0
    OBVIOUS
  <2>3. <<known>> \in Seq(FolderType) /\ Len(<<known>>) = 1 /\ <<known>>[1] = known
    <3>1. Len(<<known>>) = 1 /\ <<known>>[1] = known
      OBVIOUS
    <3>2. <<known>> = Append(<<>>, known)
      OBVIOUS
    <3>3. Append(<<>>, known) \in Seq(FolderType)
      BY <2>1, <2>2, AppendProperties
    <3> QED
      BY <3>1, <3>2, <3>3
  <2>4. CASE store = 0 /\ folders = <<>> /\ onDisk = Absent
    BY <2>2, <2>4
  <2>5. CASE store = 1 /\ folders = <<known>>
    <3>1. folders \in Seq(FolderType) /\ Len(folders) = 1 /\ folders[store] = known
      BY <2>3, <2>5, Zenon
    <3>2. store = 1
      BY <2>5, Zenon
    <3>3. store # 0 /\ store \in Nat
      BY <3>2
    <3>4. store <= Len(folders)
      BY <3>1, <3>2
    <3>5. folders[store].phase = "known" /\ folders[store].listed = "not yet" /\ folders[store].entry = "none"
      BY <2>1, <3>1, Zenon
    <3> QED
      BY <3>1, <3>3, <3>4, <3>5
  <2> QED
    BY <1>4, <2>4, <2>5 DEF known
<1>6. Len(folders) \in Nat
  BY <1>5, LenProperties
<1>7. JsonTypes
  <2>1. command \in [Commands -> CommandType]
    BY <1>1, JsonConstants
  <2>2. cached \in KnownType
    BY <1>1, JsonConstants
  <2>3. \A c \in Commands : command[c].folder <= Len(folders)
    BY <1>2, <1>6
  <2> QED
    BY <1>1, <1>3, <1>5, <2>1, <2>2, <2>3 DEF JsonTypes
<1>8. \A c \in Commands : ~Writing(c) /\ ~Reading(c)
  BY <1>2 DEF Writing, Reading, Writes
<1>9. PlacesInStep
  BY <1>2 DEF PlacesInStep, At
<1>10. DatesInStep
  <2>1. cached.read = 0
    BY <1>1, JsonConstants
  <2> QED
    BY <1>1, <1>2, <1>3, <2>1 DEF DatesInStep, At
<1>11. WriterAlone
  BY <1>1, <1>2, <1>8 DEF WriterAlone, At
<1>12. FolderKept
  BY <1>2, <1>5, <1>8 DEF FolderKept, NothingWritten, At
<1>13. KnownKept
  BY <1>2, <1>5, <1>8 DEF KnownKept, At
<1>14. NobodyBeside
  BY <1>1, <1>2, <1>3, <1>8 DEF NobodyBeside, At
<1> QED
  BY <1>7, <1>9, <1>10, <1>11, <1>12, <1>13, <1>14 DEF JsonInv

\* lstat(): the command holds the date of the file.
LEMMA StatKeeps ==
  ASSUME JsonInv, NEW c \in Commands, Stat(c)
  PROVE  JsonInv'
<1>1. PICK old \in CommandType : old = command[c]
  BY DEF JsonInv, JsonTypes
<1>2. old.at = "stat" /\ onDisk.time \in Nat
  BY <1>1 DEF Stat, JsonInv, JsonTypes, FileType
<1>3. PICK new \in CommandType :
        /\ command' = [command EXCEPT ![c] = new] /\ new.at = "statted" /\ new.time = onDisk.time
        /\ new.op = old.op /\ new.folder = old.folder /\ new.isNew = old.isNew
  <2> DEFINE n == [old EXCEPT !.at = "statted", !.time = onDisk.time]
  <2>1. command' = [command EXCEPT ![c] = n]
    BY <1>1 DEF Stat, JsonInv, JsonTypes
  <2>2. n \in CommandType
    BY <1>2 DEF CommandType
  <2>3. n.at = "statted" /\ n.time = onDisk.time /\ n.op = old.op /\ n.folder = old.folder /\ n.isNew = old.isNew
    BY DEF CommandType
  <2> QED
    BY <2>1, <2>2, <2>3
<1>4. /\ command' \in [Commands -> CommandType]
      /\ command'[c] = new /\ \A d \in Commands : d # c => command'[d] = command[d]
  BY <1>3, CommandMoves DEF JsonInv, JsonTypes
<1>5. UNCHANGED <<store, folders, fresh, onDisk, cached, clock, ended, latest, met>>
  BY DEF Stat
<1>6. JsonTypes'
  BY <1>1, <1>3, <1>4, <1>5 DEF JsonInv, JsonTypes
<1>7. /\ \A d \in Commands : (Writing(d)' <=> Writing(d)) /\ (Reading(d)' <=> Reading(d))
      /\ NothingWritten' <=> NothingWritten
  BY <1>1, <1>2, <1>3, <1>4 DEF Writing, Reading, NothingWritten
<1>8. PlacesInStep'
  BY <1>1, <1>2, <1>3, <1>4, <1>5 DEF JsonInv, PlacesInStep, At
<1>9. DatesInStep'
  BY <1>1, <1>2, <1>3, <1>4, <1>5 DEF JsonInv, JsonTypes, DatesInStep, At
<1>10. WriterAlone'
  BY <1>1, <1>2, <1>3, <1>4, <1>5, <1>7 DEF JsonInv, WriterAlone, At
<1>11. FolderKept'
  BY <1>1, <1>2, <1>3, <1>4, <1>5, <1>7 DEF JsonInv, FolderKept, At
<1>12. KnownKept'
  <2>1. onDisk # Absent => onDisk.time > 0
    BY DEF JsonInv, DatesInStep
  <2> SUFFICES ASSUME ~ended, met \intersect {"writes", "folders", "early"} = {} PROVE KnownKept'
    BY <1>5 DEF KnownKept
  <2>2. KnownKept
    BY DEF JsonInv
  <2>3. ASSUME NEW d \in Commands
        PROVE  /\ command[d].op \in {"update", "delete"} /\ At(d, {"stat", "statted", "opening", "unlinking"}) => onDisk # Absent
               /\ command[d].op = "insert" /\ At(d, {"stat", "statted"}) => command[d].isNew
               /\ command[d].op = "update" /\ At(d, {"statted"}) => command[d].time > 0
    BY <2>2 DEF KnownKept
  <2>4. /\ command'[c].op \in {"update", "delete"} => onDisk # Absent
        /\ command'[c].op = "insert" => command'[c].isNew
        /\ command'[c].op = "update" => command'[c].time > 0
    BY <1>1, <1>2, <1>3, <1>4, <2>1, <2>3 DEF At
  <2> QED
    BY <1>4, <1>5, <1>7, <2>2, <2>4 DEF KnownKept, At
<1>13. NobodyBeside'
  BY <1>1, <1>2, <1>3, <1>4, <1>5, <1>7 DEF JsonInv, NobodyBeside, At
<1> QED
  BY <1>6, <1>8, <1>9, <1>10, <1>11, <1>12, <1>13 DEF JsonInv

\* A command that ends rests.
LEMMA DoneRests ==
  ASSUME command \in [Commands -> CommandType], NEW c \in Commands, command' = Done(c)
  PROVE  /\ command' \in [Commands -> CommandType]
         /\ command'[c].at = "done" /\ command'[c].op = "load" /\ command'[c].folder = 0
         /\ \A d \in Commands : d # c => command'[d] = command[d]
<1>1. PICK done \in CommandType : command' = [command EXCEPT ![c] = done] /\ done.at = "done" /\ done.op = "load" /\ done.folder = 0
  <2> DEFINE done == [Uncalled EXCEPT !.at = "done"]
  <2>1. done \in CommandType /\ done.at = "done" /\ done.op = "load" /\ done.folder = 0
    BY JsonConstants DEF CommandType
  <2> QED
    BY <2>1 DEF Done
<1> QED
  BY <1>1, CommandMoves

\* A command ends and changes nothing: it had not begun to write, and did not
\* mean to as long as what the collection knows agrees with the file.
LEMMA EndsQuietly ==
  ASSUME JsonInv, NEW c \in Commands, command' = Done(c), ~At(c, {"opened", "written", "unlinked"}),
         UNCHANGED <<store, folders, fresh, onDisk, cached, clock, ended, latest, met>>,
         ~ended /\ met \intersect {"writes", "folders", "early"} = {} => ~Writing(c)
  PROVE  JsonInv'
<1>1. /\ command' \in [Commands -> CommandType]
      /\ command'[c].at = "done" /\ command'[c].op = "load" /\ command'[c].folder = 0
      /\ \A d \in Commands : d # c => command'[d] = command[d]
  BY DoneRests DEF JsonInv, JsonTypes
<1>2. JsonTypes'
  <2>1. Len(folders) \in Nat
    BY LenProperties DEF JsonInv, JsonTypes
  <2> QED
    BY <1>1, <2>1 DEF JsonInv, JsonTypes
<1>3. /\ \A d \in Commands : d # c => (Writing(d)' <=> Writing(d)) /\ (Reading(d)' <=> Reading(d))
      /\ ~Writing(c)' /\ ~Reading(c)'
  BY <1>1 DEF Writing, Reading, Writes
<1>4. NothingWritten => NothingWritten'
  BY <1>3 DEF NothingWritten
<1>5. PlacesInStep'
  BY <1>1 DEF JsonInv, PlacesInStep, At
<1>6. DatesInStep'
  BY <1>1 DEF JsonInv, JsonTypes, DatesInStep, At
<1>7. WriterAlone'
  BY <1>1, <1>3 DEF JsonInv, WriterAlone, At
<1>8. FolderKept'
  BY <1>1, <1>3, <1>4 DEF JsonInv, FolderKept, At
<1>9. KnownKept'
  <2> SUFFICES ASSUME ~ended, met \intersect {"writes", "folders", "early"} = {} PROVE KnownKept'
    BY DEF KnownKept
  <2>1. KnownKept /\ ~Writing(c)
    BY DEF JsonInv
  <2>2. NothingWritten' <=> NothingWritten
    BY <1>3, <2>1 DEF NothingWritten
  <2> QED
    BY <1>1, <2>1, <2>2 DEF KnownKept, At
<1>10. NobodyBeside'
  BY <1>1, <1>3 DEF JsonInv, NobodyBeside, At
<1> QED
  BY <1>2, <1>5, <1>6, <1>7, <1>8, <1>9, <1>10 DEF JsonInv

\* The date lets a write begin.
LEMMA StatLeadsOn ==
  ASSUME JsonInv, NEW c \in Commands, StattedWrite(c), command' = GoesTo(c, "opening"), UNCHANGED ended
  PROVE  JsonInv'
<1>1. PICK old \in CommandType : old = command[c]
  BY DEF JsonInv, JsonTypes
<1>2. old.at = "statted" /\ old.op # "load"
  BY <1>1 DEF StattedWrite, JsonInv, JsonTypes, FileType, KnownType
<1>3. PICK new \in CommandType :
        /\ command' = [command EXCEPT ![c] = new] /\ new.op = old.op /\ new.folder = old.folder /\ new.isNew = old.isNew
        /\ new.at = "opening" /\ new.time = old.time
  <2> DEFINE n == [old EXCEPT !.at = "opening"]
  <2>1. command' = [command EXCEPT ![c] = n]
    BY <1>1, <1>2 DEF StattedWrite, GoesTo, JsonInv, JsonTypes
  <2>2. n \in CommandType
    BY <1>2 DEF CommandType
  <2>3. n.op = old.op /\ n.folder = old.folder /\ n.isNew = old.isNew /\ n.at = "opening" /\ n.time = old.time
    BY DEF CommandType
  <2> QED
    BY <2>1, <2>2, <2>3
<1>4. /\ command' \in [Commands -> CommandType]
      /\ command'[c] = new /\ \A d \in Commands : d # c => command'[d] = command[d]
  BY <1>3, CommandMoves DEF JsonInv, JsonTypes
<1>5. UNCHANGED <<store, folders, fresh, onDisk, cached, clock, ended, latest, met>>
  BY DEF StattedWrite
<1>6. JsonTypes'
  BY <1>1, <1>3, <1>4, <1>5 DEF JsonInv, JsonTypes
<1>7. /\ \A d \in Commands : (Writing(d)' <=> Writing(d)) /\ (Reading(d)' <=> Reading(d))
      /\ NothingWritten' <=> NothingWritten
  BY <1>1, <1>2, <1>3, <1>4 DEF Writing, Reading, NothingWritten
<1>8. PlacesInStep'
  BY <1>1, <1>2, <1>3, <1>4, <1>5 DEF JsonInv, PlacesInStep, At
<1>9. DatesInStep'
  BY <1>1, <1>2, <1>3, <1>4, <1>5 DEF JsonInv, JsonTypes, DatesInStep, At
<1>10. WriterAlone'
  BY <1>1, <1>2, <1>3, <1>4, <1>5, <1>7 DEF JsonInv, WriterAlone, At
<1>11. FolderKept'
  BY <1>1, <1>2, <1>3, <1>4, <1>5, <1>7 DEF JsonInv, FolderKept, At
<1>12. KnownKept'
  <2> SUFFICES ASSUME ~ended', met' \intersect {"writes", "folders", "early"} = {} PROVE KnownKept'
    BY DEF KnownKept
  <2>1. KnownKept /\ ~ended /\ met \intersect {"writes", "folders", "early"} = {}
    BY <1>5 DEF JsonInv
  <2>2. /\ command[c].op \in {"update", "delete"} /\ At(c, {"stat", "statted", "opening", "unlinking"}) => onDisk # Absent
        /\ command[c].op = "insert" /\ At(c, {"stat", "statted"}) => command[c].isNew
        /\ command[c].op = "update" /\ At(c, {"statted"}) => command[c].time > 0
    BY <2>1 DEF KnownKept
  <2>3. /\ command'[c].op \in {"update", "delete"} /\ At(c, {"stat", "statted", "opening", "unlinking"})' => onDisk' # Absent
        /\ command'[c].op = "insert" /\ At(c, {"stat", "statted"})' => command'[c].isNew
        /\ command'[c].op = "update" /\ At(c, {"statted"})' => command'[c].time > 0
    BY <1>1, <1>2, <1>3, <1>4, <1>5, <2>2 DEF At
  <2> QED
    BY <1>4, <1>5, <1>7, <2>1, <2>3 DEF KnownKept, At
<1>13. NobodyBeside'
  BY <1>1, <1>2, <1>3, <1>4, <1>5, <1>7 DEF JsonInv, NobodyBeside, At
<1> QED
  BY <1>6, <1>8, <1>9, <1>10, <1>11, <1>12, <1>13 DEF JsonInv


\* The date lets a load read.
LEMMA StatLeadsToRead ==
  ASSUME JsonInv, NEW c \in Commands, StattedRead(c), command' = GoesTo(c, "reading")
  PROVE  JsonInv'
<1>1. PICK old \in CommandType : old = command[c]
  BY DEF JsonInv, JsonTypes
<1>2. old.at = "statted" /\ old.op = "load"
  BY <1>1 DEF StattedRead, JsonInv, JsonTypes, FileType, KnownType
<1>3. PICK new \in CommandType :
        /\ command' = [command EXCEPT ![c] = new] /\ new.op = old.op /\ new.folder = old.folder /\ new.isNew = old.isNew
        /\ new.at = "reading" /\ new.time = old.time
  <2> DEFINE n == [old EXCEPT !.at = "reading"]
  <2>1. command' = [command EXCEPT ![c] = n]
    BY <1>1, <1>2 DEF StattedRead, GoesTo, JsonInv, JsonTypes
  <2>2. n \in CommandType
    BY <1>2 DEF CommandType
  <2>3. n.op = old.op /\ n.folder = old.folder /\ n.isNew = old.isNew /\ n.at = "reading" /\ n.time = old.time
    BY DEF CommandType
  <2> QED
    BY <2>1, <2>2, <2>3
<1>4. /\ command' \in [Commands -> CommandType]
      /\ command'[c] = new /\ \A d \in Commands : d # c => command'[d] = command[d]
  BY <1>3, CommandMoves DEF JsonInv, JsonTypes
<1>5. UNCHANGED <<store, folders, fresh, onDisk, cached, clock, ended, latest, met>>
  BY DEF StattedRead
<1>6. JsonTypes'
  BY <1>1, <1>3, <1>4, <1>5 DEF JsonInv, JsonTypes
<1>7. /\ \A d \in Commands : (Writing(d)' <=> Writing(d)) /\ (Reading(d)' <=> Reading(d))
      /\ NothingWritten' <=> NothingWritten
  BY <1>1, <1>2, <1>3, <1>4 DEF Writing, Reading, NothingWritten, Writes
<1>8. PlacesInStep'
  BY <1>1, <1>2, <1>3, <1>4, <1>5 DEF JsonInv, PlacesInStep, At
<1>9. DatesInStep'
  BY <1>1, <1>2, <1>3, <1>4, <1>5 DEF JsonInv, JsonTypes, DatesInStep, At
<1>10. WriterAlone'
  BY <1>1, <1>2, <1>3, <1>4, <1>5, <1>7 DEF JsonInv, WriterAlone, At
<1>11. FolderKept'
  BY <1>1, <1>2, <1>3, <1>4, <1>5, <1>7 DEF JsonInv, FolderKept, At
<1>12. KnownKept'
  <2> SUFFICES ASSUME ~ended', met' \intersect {"writes", "folders", "early"} = {} PROVE KnownKept'
    BY DEF KnownKept
  <2>1. KnownKept /\ ~ended /\ met \intersect {"writes", "folders", "early"} = {}
    BY <1>5 DEF JsonInv
  <2>2. /\ command[c].op \in {"update", "delete"} /\ At(c, {"stat", "statted", "opening", "unlinking"}) => onDisk # Absent
        /\ command[c].op = "insert" /\ At(c, {"stat", "statted"}) => command[c].isNew
        /\ command[c].op = "update" /\ At(c, {"statted"}) => command[c].time > 0
    BY <2>1 DEF KnownKept
  <2>3. /\ command'[c].op \in {"update", "delete"} /\ At(c, {"stat", "statted", "opening", "unlinking"})' => onDisk' # Absent
        /\ command'[c].op = "insert" /\ At(c, {"stat", "statted"})' => command'[c].isNew
        /\ command'[c].op = "update" /\ At(c, {"statted"})' => command'[c].time > 0
    BY <1>1, <1>2, <1>3, <1>4, <1>5, <2>2 DEF At
  <2> QED
    BY <1>4, <1>5, <1>7, <2>1, <2>3 DEF KnownKept, At
<1>13. NobodyBeside'
  BY <1>1, <1>2, <1>3, <1>4, <1>5, <1>7 DEF JsonInv, NobodyBeside, At
<1> QED
  BY <1>6, <1>8, <1>9, <1>10, <1>11, <1>12, <1>13 DEF JsonInv

\* An exception ends the process, for a reason.
LEMMA ProcessEnds ==
  ASSUME JsonInv, ended' = TRUE, UNCHANGED <<store, folders, fresh, onDisk, cached, clock, command, latest, met>>,
         met \intersect {"edits", "writes", "reads"} # {}
  PROVE  JsonInv'
<1>1. JsonTypes'
  BY DEF JsonInv, JsonTypes
<1>2. PlacesInStep' /\ DatesInStep'
  BY DEF JsonInv, PlacesInStep, DatesInStep, At
<1>3. WriterAlone'
  BY DEF JsonInv, WriterAlone, At, Writing
<1>4. FolderKept'
  BY DEF JsonInv, FolderKept, At, Writing, NothingWritten
<1>5. KnownKept' /\ NobodyBeside'
  BY DEF KnownKept, NobodyBeside
<1> QED
  BY <1>1, <1>2, <1>3, <1>4, <1>5 DEF JsonInv

\* Who writes alone, and who is beside a write.
LEMMA OthersRest ==
  ASSUME JsonInv, NEW c \in Commands, Writing(c), "writes" \notin met
  PROVE  \A d \in Commands : d # c =>
           /\ ~Writing(d)
           /\ ~At(d, {"opening", "opened", "written", "unlinking", "unlinked"})
           /\ At(d, {"stat", "statted"}) => command[d].op = "load"
<1>1. \A d \in Commands : d # c => ~Writing(d)
  BY DEF JsonInv, WriterAlone
<1> QED
  BY <1>1 DEF JsonInv, PlacesInStep, At, Writing, Writes

LEMMA NobodyReads ==
  ASSUME JsonInv, NEW c \in Commands, Writing(c), met \intersect {"edits", "writes", "reads"} = {}
  PROVE  \A d \in Commands : d # c => ~At(d, {"stat", "statted", "reading", "read"})
<1>1. \A d \in Commands : d # c => ~Reading(d) /\ (At(d, {"stat", "statted"}) => command[d].op = "load")
  BY OthersRest DEF JsonInv, NobodyBeside
<1> QED
  BY <1>1 DEF JsonInv, PlacesInStep, At, Reading

\* The answer of lstat() to a write: it ends, ends the process, or goes on.
LEMMA StattedWriteKeeps ==
  ASSUME JsonInv, NEW c \in Commands, StattedWrite(c)
  PROVE  JsonInv'
<1>1. PICK old \in CommandType : old = command[c]
  BY DEF JsonInv, JsonTypes
<1>2. /\ old.at = "statted" /\ old.op \in {"insert", "update"} /\ At(c, {"statted"})
      /\ UNCHANGED <<store, folders, fresh, onDisk, cached, clock, latest, met>>
  BY <1>1 DEF StattedWrite, JsonInv, PlacesInStep, At
<1>3. Writing(c)
  BY <1>1, <1>2 DEF Writing, Writes
<1>4. CASE old.time = 0 /\ ~old.isNew
  <2>1. command' = Done(c) /\ UNCHANGED ended
    BY <1>1, <1>4 DEF StattedWrite
  <2>2. ~At(c, {"opened", "written", "unlinked"})
    BY <1>1, <1>2 DEF At
  <2>3. ~(~ended /\ met \intersect {"writes", "folders", "early"} = {})
    <3> SUFFICES ASSUME ~ended, met \intersect {"writes", "folders", "early"} = {} PROVE FALSE
      OBVIOUS
    <3>1. /\ command[c].op = "insert" => command[c].isNew
          /\ command[c].op = "update" => command[c].time > 0
      BY <1>1, <1>2 DEF JsonInv, KnownKept, At
    <3> QED
      BY <1>1, <1>2, <1>4, <3>1
  <2> QED
    BY <1>2, <2>1, <2>2, <2>3, EndsQuietly
<1>5. CASE ~(old.time = 0 /\ ~old.isNew) /\ cached # Unread /\ ~old.isNew /\ old.time > cached.read
  <2>1. ended' = TRUE /\ UNCHANGED command
    BY <1>1, <1>5 DEF StattedWrite
  <2>2. met \intersect {"edits", "writes", "reads"} # {}
    <3> SUFFICES ASSUME met \intersect {"edits", "writes", "reads"} = {} PROVE FALSE
      OBVIOUS
    <3>1. old.time = onDisk.time
      BY <1>1, <1>2 DEF JsonInv, NobodyBeside, At
    <3>2. \A d \in Commands : ~At(d, {"opened", "written"})
      BY <1>1, <1>2, <1>3, OthersRest DEF At
    <3>3. cached = Unread \/ onDisk.time <= cached.read
      BY <3>2 DEF JsonInv, NobodyBeside
    <3>4. onDisk.time \in Nat /\ cached.read \in Nat
      BY DEF JsonInv, JsonTypes, FileType, KnownType
    <3> QED
      BY <1>5, <3>1, <3>3, <3>4
  <2> QED
    BY <1>2, <2>1, <2>2, ProcessEnds
<1>6. CASE ~(old.time = 0 /\ ~old.isNew) /\ ~(cached # Unread /\ ~old.isNew /\ old.time > cached.read)
  <2>1. command' = GoesTo(c, "opening") /\ UNCHANGED ended
    BY <1>1, <1>6 DEF StattedWrite
  <2> QED
    BY <2>1, StatLeadsOn
<1> QED
  BY <1>4, <1>5, <1>6

\* The answer of lstat() to a load: it reads, or it ends.
LEMMA StattedReadKeeps ==
  ASSUME JsonInv, NEW c \in Commands, StattedRead(c)
  PROVE  JsonInv'
<1>1. CASE command' = GoesTo(c, "reading")
  BY <1>1, StatLeadsToRead
<1>2. CASE command' = Done(c)
  <2>1. /\ command[c].at = "statted" /\ command[c].op = "load"
        /\ UNCHANGED <<store, folders, fresh, onDisk, cached, clock, ended, latest, met>>
    BY DEF StattedRead
  <2>2. ~Writing(c) /\ ~At(c, {"opened", "written", "unlinked"})
    BY <2>1 DEF Writing, Writes, At
  <2> QED
    BY <1>2, <2>1, <2>2, EndsQuietly
<1> QED
  BY <1>1, <1>2 DEF StattedRead

\* The file is cut, or created.
LEMMA OpenRecordKeeps ==
  ASSUME JsonInv, NEW c \in Commands, OpenRecord(c)
  PROVE  JsonInv'
<1>1. PICK old \in CommandType : old = command[c]
  BY DEF JsonInv, JsonTypes
<1>2. old.at = "opening" /\ old.op \in {"insert", "update"} /\ clock \in Nat
  BY <1>1 DEF OpenRecord, JsonInv, JsonTypes, PlacesInStep, At
<1>3. /\ onDisk' \in FileType /\ onDisk'.time = clock + 1 /\ onDisk'.content = "cut" /\ onDisk' # Absent
      /\ clock' = clock + 1 /\ clock' \in Nat
  <2> DEFINE node == IF onDisk = Absent THEN clock' ELSE onDisk.node
             cutFile == [content |-> "cut", time |-> clock', node |-> node]
  <2>1. clock' = clock + 1 /\ clock' \in Nat /\ onDisk' = cutFile
    BY <1>2 DEF OpenRecord
  <2>2. node \in Nat
    BY <2>1 DEF JsonInv, JsonTypes, FileType
  <2>3. cutFile \in FileType /\ cutFile.time = clock' /\ cutFile.content = "cut"
    BY <2>1, <2>2 DEF FileType, Contents
  <2>4. cutFile # Absent
    BY <1>2, <2>1, <2>3, JsonConstants
  <2> QED
    BY <2>1, <2>3, <2>4
<1>4. PICK new \in CommandType :
        /\ command' = [command EXCEPT ![c] = new] /\ new.op = old.op /\ new.folder = old.folder
        /\ new.at = "opened" /\ new.node = onDisk'.node
  <2> DEFINE n == [old EXCEPT !.at = "opened", !.node = onDisk'.node]
  <2>1. command' = [command EXCEPT ![c] = n]
    BY <1>1 DEF OpenRecord, JsonInv, JsonTypes
  <2>2. onDisk'.node \in Nat
    BY <1>3 DEF FileType
  <2>3. n \in CommandType /\ n.op = old.op /\ n.folder = old.folder /\ n.at = "opened" /\ n.node = onDisk'.node
    BY <2>2 DEF CommandType
  <2> QED
    BY <2>1, <2>3
<1>5. /\ command' \in [Commands -> CommandType]
      /\ command'[c] = new /\ \A d \in Commands : d # c => command'[d] = command[d]
  BY <1>4, CommandMoves DEF JsonInv, JsonTypes
<1>6. UNCHANGED <<store, folders, fresh, cached, ended, latest, met>>
  BY DEF OpenRecord
<1>7. /\ Writing(c) /\ Writing(c)' /\ ~At(c, {"stat", "statted", "reading", "read", "opening", "unlinking"})'
      /\ At(c, {"opened"})' /\ ~At(c, {"written"})' /\ ~At(c, {"unlinked"})'
      /\ \A d \in Commands : (Writing(d)' <=> Writing(d)) /\ (Reading(d)' <=> Reading(d))
      /\ ~NothingWritten /\ ~NothingWritten'
  BY <1>1, <1>2, <1>4, <1>5 DEF Writing, Reading, NothingWritten, At, Writes
<1>8. JsonTypes'
  BY <1>1, <1>3, <1>4, <1>5, <1>6 DEF JsonInv, JsonTypes
<1>9. PlacesInStep'
  BY <1>1, <1>2, <1>4, <1>5, <1>6 DEF JsonInv, PlacesInStep, At
<1>10. DatesInStep'
  <2>1. cached.read \in Nat /\ cached.read <= clock
    BY DEF JsonInv, DatesInStep, JsonTypes, KnownType
  <2>2. \A d \in Commands : At(d, {"statted", "reading", "read"})' =>
          d # c /\ command'[d] = command[d] /\ command[d].time \in Nat /\ command[d].time <= clock
    BY <1>5, <1>7 DEF JsonInv, JsonTypes, CommandType, DatesInStep, At
  <2>3. cached' = cached /\ cached'.read <= clock'
    BY <1>2, <1>3, <1>6, <2>1
  <2>4. \A d \in Commands : At(d, {"read"})' => At(d, {"statted", "reading", "read"})'
    BY DEF At
  <2>5. \A d \in Commands : At(d, {"statted", "reading", "read"})' =>
          command'[d].time <= clock' /\ ~(onDisk'.time <= command'[d].time)
    BY <1>2, <1>3, <2>2
  <2> QED
    BY <1>2, <1>3, <2>3, <2>4, <2>5 DEF DatesInStep
<1>11. "writes" \notin met => \A d \in Commands : d # c =>
          /\ ~Writing(d) /\ ~At(d, {"opened", "written", "unlinked"})'
          /\ ~At(d, {"opening", "unlinking"})' /\ (At(d, {"stat", "statted"})' => command'[d].op = "load")
  BY <1>5, <1>7, OthersRest DEF At
<1>12. WriterAlone'
  <2> SUFFICES ASSUME "writes" \notin met PROVE WriterAlone'
    BY <1>6 DEF WriterAlone
  <2>1. \A d, e \in Commands : Writing(d)' /\ Writing(e)' => d = e
    BY <1>7, <1>11
  <2>2. \A d \in Commands : At(d, {"opened", "written", "unlinked"})' => d = c
    BY <1>11
  <2>3. onDisk'.node = command'[c].node
    BY <1>4, <1>5
  <2>4. ~(onDisk'.time <= cached'.read)
    BY <1>2, <1>3, <1>6 DEF JsonInv, DatesInStep, JsonTypes, KnownType
  <2>5. \A d \in Commands : At(d, {"opened"})' \/ At(d, {"written"})' \/ At(d, {"unlinked"})' <=> At(d, {"opened", "written", "unlinked"})'
    BY DEF At
  <2> QED
    BY <1>3, <1>7, <2>1, <2>2, <2>3, <2>4, <2>5 DEF WriterAlone
<1>13. FolderKept'
  <2> SUFFICES ASSUME met \intersect {"writes", "folders"} = {} PROVE FolderKept'
    BY <1>6 DEF FolderKept
  <2>1. FolderKept /\ store # 0
    BY <1>7 DEF JsonInv, FolderKept, Writing, Writes
  <2>2. /\ folders[store].phase \notin {"known", "making", "listing"}
        /\ folders[store].entry # "none"
    BY <1>7, <2>1 DEF FolderKept
  <2>3. \A d \in Commands : command'[d].op = "insert" /\ At(d, {"stat", "statted", "opening"})' => FALSE
    BY <1>7, <1>11 DEF At
  <2>4. \A d \in Commands :
         command'[d].op # "load" /\ (At(d, {"asking", "asked", "waiting", "entered"})' \/ Writing(d)') =>
           command'[d].folder = store
    BY <1>1, <1>4, <1>5, <1>7, <2>1 DEF FolderKept, At
  <2> QED
    BY <1>6, <2>1, <2>2, <2>3, <2>4 DEF FolderKept
<1>14. KnownKept'
  <2> SUFFICES ASSUME ~ended, met \intersect {"writes", "folders", "early"} = {} PROVE KnownKept'
    BY <1>6 DEF KnownKept
  <2>1. KnownKept
    BY DEF JsonInv
  <2>2. store # 0 => folders[store].phase # "made"
    BY <1>7, <2>1 DEF KnownKept
  <2>3. \A d \in Commands : At(d, {"stat", "statted"})' => command'[d].op = "load"
    BY <1>7, <1>11 DEF At
  <2>4. \A d \in Commands : At(d, {"statted"})' => At(d, {"stat", "statted"})'
    BY DEF At
  <2> QED
    BY <1>3, <1>6, <2>1, <2>2, <2>3, <2>4 DEF KnownKept
<1>15. NobodyBeside'
  <2> SUFFICES ASSUME met \intersect {"edits", "writes", "reads"} = {} PROVE NobodyBeside'
    BY <1>6 DEF NobodyBeside
  <2>1. \A d \in Commands : ~At(d, {"stat", "statted", "reading", "read"})'
    BY <1>5, <1>7, NobodyReads DEF At
  <2>2. \A d \in Commands : ~At(d, {"statted", "reading", "read"})' /\ ~At(d, {"read"})'
    BY <2>1 DEF At
  <2>3. ~ended' /\ \A d \in Commands : ~Reading(d)'
    BY <1>6, <2>1 DEF JsonInv, NobodyBeside, At, Reading
  <2>4. At(c, {"opened", "written"})'
    BY <1>7 DEF At
  <2> QED
    BY <1>7, <2>2, <2>3, <2>4 DEF NobodyBeside
<1> QED
  BY <1>8, <1>9, <1>10, <1>12, <1>13, <1>14, <1>15 DEF JsonInv

\* The content is written, into the file that was opened.
LEMMA WriteRecordKeeps ==
  ASSUME JsonInv, NEW c \in Commands, WriteRecord(c)
  PROVE  JsonInv'
<1>1. PICK old \in CommandType : old = command[c]
  BY DEF JsonInv, JsonTypes
<1>2. old.at = "opened" /\ old.op \in {"insert", "update"} /\ clock \in Nat
  BY <1>1 DEF WriteRecord, JsonInv, JsonTypes, PlacesInStep, At
<1>3. /\ clock' = clock + 1 /\ clock' \in Nat /\ onDisk' \in FileType
      /\ \/ onDisk.node # old.node /\ onDisk' = onDisk
         \/ onDisk.node = old.node /\ onDisk'.time = clock + 1 /\ onDisk'.content = c /\ onDisk' # Absent
  <2>1. clock' = clock + 1 /\ clock' \in Nat
    BY <1>2 DEF WriteRecord
  <2>2. CASE onDisk.node # old.node
    BY <1>1, <2>1, <2>2 DEF WriteRecord, JsonInv, JsonTypes
  <2>3. CASE onDisk.node = old.node
    <3> DEFINE newFile == [onDisk EXCEPT !.content = c, !.time = clock']
    <3>1. onDisk' = newFile
      BY <1>1, <2>3 DEF WriteRecord
    <3>2. c \in Contents /\ onDisk \in FileType
      BY JsonConstants DEF JsonInv, JsonTypes
    <3>3. newFile \in FileType /\ newFile.content = c /\ newFile.time = clock'
      BY <2>1, <3>2 DEF FileType
    <3>4. newFile # Absent
      BY <1>2, <2>1, <3>3, JsonConstants
    <3> QED
      BY <2>1, <2>3, <3>1, <3>3, <3>4
  <2> QED
    BY <2>2, <2>3
<1>4. PICK new \in CommandType :
        /\ command' = [command EXCEPT ![c] = new] /\ new.op = old.op /\ new.folder = old.folder
        /\ new.at = "written"
  <2> DEFINE n == [old EXCEPT !.at = "written"]
  <2>1. command' = [command EXCEPT ![c] = n]
    BY <1>1 DEF WriteRecord, GoesTo, JsonInv, JsonTypes
  <2>2. n \in CommandType /\ n.op = old.op /\ n.folder = old.folder /\ n.at = "written"
    BY DEF CommandType
  <2> QED
    BY <2>1, <2>2
<1>5. /\ command' \in [Commands -> CommandType]
      /\ command'[c] = new /\ \A d \in Commands : d # c => command'[d] = command[d]
  BY <1>4, CommandMoves DEF JsonInv, JsonTypes
<1>6. UNCHANGED <<store, folders, fresh, cached, ended, latest, met>>
  BY DEF WriteRecord
<1>7. /\ Writing(c) /\ Writing(c)' /\ ~At(c, {"stat", "statted", "reading", "read", "opening", "unlinking"})'
      /\ At(c, {"written"})' /\ ~At(c, {"opened"})' /\ ~At(c, {"unlinked"})'
      /\ \A d \in Commands : (Writing(d)' <=> Writing(d)) /\ (Reading(d)' <=> Reading(d))
      /\ ~NothingWritten /\ ~NothingWritten'
  BY <1>1, <1>2, <1>4, <1>5 DEF Writing, Reading, NothingWritten, At, Writes
<1>8. JsonTypes'
  BY <1>1, <1>3, <1>4, <1>5, <1>6 DEF JsonInv, JsonTypes
<1>9. PlacesInStep'
  BY <1>1, <1>2, <1>4, <1>5, <1>6 DEF JsonInv, PlacesInStep, At
<1>10. DatesInStep'
  <2>1. /\ cached.read \in Nat /\ cached.read <= clock /\ onDisk.time \in Nat /\ onDisk.time <= clock
        /\ onDisk # Absent => onDisk.time > 0
    BY DEF JsonInv, DatesInStep, JsonTypes, KnownType, FileType
  <2>2. \A d \in Commands : At(d, {"statted", "reading", "read"})' =>
          d # c /\ command'[d] = command[d] /\ command[d].time \in Nat /\ command[d].time <= clock
    BY <1>5, <1>7 DEF JsonInv, JsonTypes, CommandType, DatesInStep, At
  <2>3. /\ cached' = cached /\ cached'.read <= clock' /\ onDisk'.time <= clock'
        /\ onDisk' # Absent => onDisk'.time > 0
    BY <1>2, <1>3, <1>6, <2>1
  <2>4. \A d \in Commands : At(d, {"read"})' => At(d, {"statted", "reading", "read"})' /\ At(d, {"read"})
    BY <2>2 DEF At
  <2>5. \A d \in Commands : At(d, {"statted", "reading", "read"})' => command'[d].time <= clock'
    BY <1>2, <1>3, <2>2
  <2>6. ASSUME NEW d \in Commands, At(d, {"read"})', onDisk' # Absent, onDisk'.time <= command'[d].time
        PROVE  command'[d].content = onDisk'.content
    <3>1. onDisk' = onDisk
      BY <1>2, <1>3, <2>2, <2>4, <2>6
    <3> QED
      BY <2>2, <2>4, <2>6, <3>1 DEF JsonInv, DatesInStep
  <2> QED
    BY <2>3, <2>5, <2>6 DEF DatesInStep
<1>11. "writes" \notin met =>
         /\ onDisk' # Absent /\ onDisk'.time = clock + 1 /\ onDisk'.content = c
         /\ \A d \in Commands : d # c =>
              /\ ~Writing(d) /\ ~At(d, {"opened", "written", "unlinked"})'
              /\ ~At(d, {"opening", "unlinking"})' /\ (At(d, {"stat", "statted"})' => command'[d].op = "load")
  <2>1. "writes" \notin met => onDisk.node = old.node
    BY <1>1, <1>2 DEF JsonInv, WriterAlone, At
  <2> QED
    BY <1>3, <1>5, <1>7, <2>1, OthersRest DEF At
<1>12. WriterAlone'
  <2> SUFFICES ASSUME "writes" \notin met PROVE WriterAlone'
    BY <1>6 DEF WriterAlone
  <2>1. \A d, e \in Commands : Writing(d)' /\ Writing(e)' => d = e
    BY <1>7, <1>11
  <2>2. \A d \in Commands : At(d, {"opened", "written", "unlinked"})' => d = c
    BY <1>11
  <2>3. ~(onDisk'.time <= cached'.read)
    BY <1>2, <1>6, <1>11 DEF JsonInv, DatesInStep, JsonTypes, KnownType
  <2>4. \A d \in Commands : At(d, {"opened"})' \/ At(d, {"written"})' \/ At(d, {"unlinked"})' <=> At(d, {"opened", "written", "unlinked"})'
    BY DEF At
  <2> QED
    BY <1>7, <1>11, <2>1, <2>2, <2>3, <2>4 DEF WriterAlone
<1>13. FolderKept'
  <2> SUFFICES ASSUME met \intersect {"writes", "folders"} = {} PROVE FolderKept'
    BY <1>6 DEF FolderKept
  <2>1. FolderKept /\ store # 0
    BY <1>7 DEF JsonInv, FolderKept, Writing, Writes
  <2>2. /\ folders[store].phase \notin {"known", "making", "listing"}
        /\ folders[store].entry # "none"
    BY <1>7, <2>1 DEF FolderKept
  <2>3. \A d \in Commands : command'[d].op = "insert" /\ At(d, {"stat", "statted", "opening"})' => FALSE
    BY <1>7, <1>11 DEF At
  <2>4. \A d \in Commands :
         command'[d].op # "load" /\ (At(d, {"asking", "asked", "waiting", "entered"})' \/ Writing(d)') =>
           command'[d].folder = store
    BY <1>1, <1>4, <1>5, <1>7, <2>1 DEF FolderKept, At
  <2> QED
    BY <1>6, <2>1, <2>2, <2>3, <2>4 DEF FolderKept
<1>14. KnownKept'
  <2> SUFFICES ASSUME ~ended, met \intersect {"writes", "folders", "early"} = {} PROVE KnownKept'
    BY <1>6 DEF KnownKept
  <2>1. KnownKept
    BY DEF JsonInv
  <2>2. store # 0 => folders[store].phase # "made"
    BY <1>7, <2>1 DEF KnownKept
  <2>3. \A d \in Commands : At(d, {"stat", "statted"})' => command'[d].op = "load"
    BY <1>7, <1>11 DEF At
  <2>4. \A d \in Commands : At(d, {"statted"})' => At(d, {"stat", "statted"})'
    BY DEF At
  <2> QED
    BY <1>6, <1>11, <2>1, <2>2, <2>3, <2>4 DEF KnownKept
<1>15. NobodyBeside'
  <2> SUFFICES ASSUME met \intersect {"edits", "writes", "reads"} = {} PROVE NobodyBeside'
    BY <1>6 DEF NobodyBeside
  <2>1. \A d \in Commands : ~At(d, {"stat", "statted", "reading", "read"})'
    BY <1>5, <1>7, NobodyReads DEF At
  <2>2. \A d \in Commands : ~At(d, {"statted", "reading", "read"})' /\ ~At(d, {"read"})'
    BY <2>1 DEF At
  <2>3. ~ended' /\ \A d \in Commands : ~Reading(d)'
    BY <1>6, <2>1 DEF JsonInv, NobodyBeside, At, Reading
  <2>4. At(c, {"opened", "written"})'
    BY <1>7 DEF At
  <2>5. onDisk'.content # "cut"
    BY <1>11, JsonConstants
  <2> QED
    BY <2>2, <2>3, <2>4, <2>5 DEF NobodyBeside
<1> QED
  BY <1>8, <1>9, <1>10, <1>12, <1>13, <1>14, <1>15 DEF JsonInv

\* The write is acknowledged.
LEMMA SavedKeeps ==
  ASSUME JsonInv, NEW c \in Commands, Saved(c)
  PROVE  JsonInv'
<1>1. /\ command[c].at = "written" /\ command[c].op \in {"insert", "update"} /\ clock \in Nat /\ c \in Contents
      /\ onDisk \in FileType /\ cached \in KnownType
  BY JsonConstants DEF Saved, JsonInv, JsonTypes, PlacesInStep, At
<1>2. /\ command' \in [Commands -> CommandType]
      /\ command'[c].at = "done" /\ command'[c].op = "load" /\ command'[c].folder = 0
      /\ \A d \in Commands : d # c => command'[d] = command[d]
  BY DoneRests DEF JsonInv, JsonTypes, Saved
<1>3. /\ UNCHANGED <<store, folders, onDisk, clock, ended, met>> /\ latest' = c
      /\ fresh' \subseteq fresh
      /\ cached' \in KnownType /\ cached'.content = c /\ cached'.read = clock
  BY <1>1 DEF Saved, KnownType
<1>4. /\ Writing(c) /\ ~Writing(c)' /\ ~Reading(c)' /\ ~NothingWritten
      /\ \A places : "done" \notin places => ~At(c, places)'
      /\ \A d \in Commands : d # c => (Writing(d)' <=> Writing(d)) /\ (Reading(d)' <=> Reading(d))
      /\ \A d \in Commands : d # c => \A places : At(d, places)' <=> At(d, places)
  BY <1>1, <1>2 DEF Writing, Reading, NothingWritten, Writes, At
<1>5. JsonTypes'
  <2>1. Len(folders) \in Nat
    BY LenProperties DEF JsonInv, JsonTypes
  <2> QED
    BY <1>1, <1>2, <1>3, <2>1 DEF JsonInv, JsonTypes
<1>6. PlacesInStep'
  BY <1>2, <1>3 DEF JsonInv, PlacesInStep, At
<1>7. DatesInStep'
  <2>1. cached'.read <= clock'
    BY <1>1, <1>3
  <2> QED
    BY <1>2, <1>3, <2>1 DEF JsonInv, JsonTypes, DatesInStep, At
<1>8. "writes" \notin met =>
        /\ onDisk # Absent /\ onDisk.content = c /\ NothingWritten'
        /\ \A d \in Commands :
             /\ ~At(d, {"opening", "opened", "written", "unlinking", "unlinked"})'
             /\ At(d, {"stat", "statted"})' => command'[d].op = "load"
  <2>1. "writes" \notin met => onDisk # Absent /\ onDisk.content = c
    BY <1>1 DEF JsonInv, WriterAlone, At
  <2>2. "writes" \notin met => NothingWritten'
    BY <1>4, OthersRest DEF NothingWritten
  <2> QED
    BY <1>2, <1>4, <2>1, <2>2, OthersRest DEF At
<1>9. WriterAlone'
  <2> SUFFICES ASSUME "writes" \notin met PROVE WriterAlone'
    BY <1>3 DEF WriterAlone
  <2>1. \A d \in Commands : ~Writing(d)' /\ ~At(d, {"opened"})' /\ ~At(d, {"written"})' /\ ~At(d, {"unlinked"})'
    BY <1>8 DEF NothingWritten, At
  <2> QED
    BY <1>3, <1>8, <2>1 DEF WriterAlone
<1>10. FolderKept'
  <2> SUFFICES ASSUME met \intersect {"writes", "folders"} = {} PROVE FolderKept'
    BY <1>3 DEF FolderKept
  <2>1. FolderKept /\ store # 0
    BY <1>4 DEF JsonInv, FolderKept, Writing, Writes
  <2>2. /\ folders[store].phase \notin {"known", "making", "listing"}
        /\ folders[store].entry # "none"
    BY <1>4, <2>1 DEF FolderKept
  <2>3. \A d \in Commands : command'[d].op = "insert" /\ At(d, {"stat", "statted", "opening"})' => FALSE
    BY <1>8 DEF At
  <2>4. \A d \in Commands :
         command'[d].op # "load" /\ (At(d, {"asking", "asked", "waiting", "entered"})' \/ Writing(d)') =>
           command'[d].folder = store
    BY <1>2, <1>4, <2>1 DEF FolderKept, At
  <2> QED
    BY <1>3, <2>1, <2>2, <2>3, <2>4 DEF FolderKept
<1>11. KnownKept'
  <2> SUFFICES ASSUME ~ended, met \intersect {"writes", "folders", "early"} = {} PROVE KnownKept'
    BY <1>3 DEF KnownKept
  <2>1. KnownKept
    BY DEF JsonInv
  <2>2. store # 0 => folders[store].phase # "made"
    BY <1>4, <2>1 DEF KnownKept
  <2>3. \A d \in Commands : At(d, {"stat", "statted"})' => command'[d].op = "load"
    BY <1>8
  <2>4. \A d \in Commands : At(d, {"statted"})' => At(d, {"stat", "statted"})'
    BY DEF At
  <2> QED
    BY <1>3, <1>8, <2>1, <2>2, <2>3, <2>4 DEF KnownKept
<1>12. NobodyBeside'
  <2> SUFFICES ASSUME met \intersect {"edits", "writes", "reads"} = {} PROVE NobodyBeside'
    BY <1>3 DEF NobodyBeside
  <2>1. \A d \in Commands : ~At(d, {"stat", "statted", "reading", "read"})'
    BY <1>4, NobodyReads
  <2>2. \A d \in Commands : ~At(d, {"statted", "reading", "read"})' /\ ~At(d, {"read"})' /\ ~Writing(d)'
    BY <1>8, <2>1 DEF At, NothingWritten
  <2>3. ~ended'
    BY <1>3 DEF JsonInv, NobodyBeside
  <2>4. onDisk'.content # "cut"
    BY <1>3, <1>8, JsonConstants
  <2>5. onDisk'.time <= cached'.read
    BY <1>3 DEF JsonInv, DatesInStep
  <2> QED
    BY <2>2, <2>3, <2>4, <2>5 DEF NobodyBeside
<1> QED
  BY <1>5, <1>6, <1>7, <1>9, <1>10, <1>11, <1>12 DEF JsonInv

\* A load reads the file, or finds none.
LEMMA ReadRecordKeeps ==
  ASSUME JsonInv, NEW c \in Commands, ReadRecord(c)
  PROVE  JsonInv'
<1>1. PICK old \in CommandType : old = command[c]
  BY DEF JsonInv, JsonTypes
<1>2. /\ old.at = "reading" /\ old.op = "load" /\ onDisk.content \in Contents
      /\ UNCHANGED <<store, folders, fresh, onDisk, cached, clock, ended, latest, met>>
  BY <1>1 DEF ReadRecord, JsonInv, JsonTypes, FileType, PlacesInStep, At
<1>3. CASE onDisk = Absent
  <2>1. ~Writing(c) /\ ~At(c, {"opened", "written", "unlinked"})
    BY <1>1, <1>2 DEF Writing, Writes, At
  <2> QED
    BY <1>2, <1>3, <2>1, EndsQuietly DEF ReadRecord
<1>4. CASE onDisk # Absent
  <2>1. PICK new \in CommandType :
          /\ command' = [command EXCEPT ![c] = new] /\ new.op = "load" /\ new.folder = old.folder
          /\ new.at = "read" /\ new.time = old.time /\ new.content = onDisk.content
    <3> DEFINE n == [old EXCEPT !.at = "read", !.content = onDisk.content]
    <3>1. command' = [command EXCEPT ![c] = n]
      BY <1>1, <1>4 DEF ReadRecord, JsonInv, JsonTypes
    <3>2. n \in CommandType /\ n.op = "load" /\ n.folder = old.folder /\ n.at = "read" /\ n.time = old.time
          /\ n.content = onDisk.content
      BY <1>2 DEF CommandType
    <3> QED
      BY <3>1, <3>2
  <2>2. /\ command' \in [Commands -> CommandType]
        /\ command'[c] = new /\ \A d \in Commands : d # c => command'[d] = command[d]
    BY <2>1, CommandMoves DEF JsonInv, JsonTypes
  <2>3. JsonTypes'
    BY <1>1, <1>2, <2>1, <2>2 DEF JsonInv, JsonTypes
  <2>4. /\ \A d \in Commands : (Writing(d)' <=> Writing(d)) /\ (Reading(d)' <=> Reading(d))
        /\ NothingWritten' <=> NothingWritten
    BY <1>1, <1>2, <2>1, <2>2 DEF Writing, Reading, NothingWritten, Writes
  <2>5. PlacesInStep'
    BY <1>1, <1>2, <2>1, <2>2 DEF JsonInv, PlacesInStep, At
  <2>6. DatesInStep'
    BY <1>1, <1>2, <2>1, <2>2 DEF JsonInv, JsonTypes, DatesInStep, At
  <2>7. WriterAlone'
    BY <1>1, <1>2, <2>1, <2>2, <2>4 DEF JsonInv, WriterAlone, At
  <2>8. FolderKept'
    BY <1>1, <1>2, <2>1, <2>2, <2>4 DEF JsonInv, FolderKept, At
  <2>9. KnownKept'
    BY <1>1, <1>2, <2>1, <2>2, <2>4 DEF JsonInv, KnownKept, At
  <2>10. NobodyBeside'
    BY <1>1, <1>2, <2>1, <2>2, <2>4 DEF JsonInv, NobodyBeside, At
  <2> QED
    BY <2>3, <2>5, <2>6, <2>7, <2>8, <2>9, <2>10 DEF JsonInv
<1> QED
  BY <1>3, <1>4

\* What was read is known, with the date of the lstat() before it.
LEMMA ParsedKeeps ==
  ASSUME JsonInv, NEW c \in Commands, Parsed(c)
  PROVE  JsonInv'
<1>1. PICK old \in CommandType : old = command[c]
  BY DEF JsonInv, JsonTypes
<1>2. /\ old.at = "read" /\ old.op = "load" /\ old.time \in Nat /\ old.content \in Contents
      /\ UNCHANGED <<store, folders, fresh, onDisk, clock, latest, met>>
  BY <1>1 DEF Parsed, JsonInv, JsonTypes, CommandType, PlacesInStep, At
<1>3. At(c, {"read"}) /\ At(c, {"statted", "reading", "read"}) /\ Reading(c) /\ ~Writing(c)
  BY <1>1, <1>2 DEF At, Reading, Writing, Writes
<1>4. CASE old.content = "cut"
  <2>1. ended' = TRUE /\ UNCHANGED <<cached, command>>
    BY <1>1, <1>4 DEF Parsed
  <2>2. met \intersect {"edits", "writes", "reads"} # {}
    <3> SUFFICES ASSUME met \intersect {"edits", "writes", "reads"} = {} PROVE FALSE
      OBVIOUS
    <3>1. onDisk.content = "cut"
      BY <1>1, <1>3, <1>4 DEF JsonInv, NobodyBeside
    <3>2. \A d \in Commands : ~Writing(d)
      BY <1>3 DEF JsonInv, NobodyBeside
    <3>3. \A d \in Commands : ~At(d, {"opened"})
      BY <3>2 DEF JsonInv, PlacesInStep, At, Writing, Writes
    <3> QED
      BY <3>1, <3>3 DEF JsonInv, NobodyBeside
  <2> QED
    BY <1>2, <2>1, <2>2, ProcessEnds
<1>5. CASE old.content # "cut"
  <2>1. /\ command' = Done(c) /\ UNCHANGED ended
        /\ cached' \in KnownType /\ cached'.content = old.content /\ cached'.read = old.time
    BY <1>1, <1>2, <1>5 DEF Parsed, KnownType
  <2>2. /\ command' \in [Commands -> CommandType]
        /\ command'[c].at = "done" /\ command'[c].op = "load" /\ command'[c].folder = 0
        /\ \A d \in Commands : d # c => command'[d] = command[d]
    BY <2>1, DoneRests DEF JsonInv, JsonTypes
  <2>3. JsonTypes'
    <3>1. Len(folders) \in Nat
      BY LenProperties DEF JsonInv, JsonTypes
    <3> QED
      BY <1>2, <2>1, <2>2, <3>1 DEF JsonInv, JsonTypes
  <2>4. /\ \A d \in Commands : (Writing(d)' <=> Writing(d)) /\ (Reading(d)' => Reading(d))
        /\ NothingWritten' <=> NothingWritten
        /\ \A places : "done" \notin places => ~At(c, places)'
        /\ \A d \in Commands : d # c => \A places : At(d, places)' <=> At(d, places)
    BY <1>3, <2>2 DEF Writing, Reading, NothingWritten, Writes, At
  <2>5. ~At(c, {"opened", "written", "unlinked"})
    BY <1>1, <1>2 DEF At
  <2>6. PlacesInStep'
    BY <1>2, <2>2 DEF JsonInv, PlacesInStep, At
  <2>7. DatesInStep'
    <3>1. old.time <= clock
      BY <1>1, <1>3 DEF JsonInv, DatesInStep
    <3> QED
      BY <1>2, <2>1, <2>2, <3>1 DEF JsonInv, JsonTypes, DatesInStep, At
  <2>8. onDisk # Absent /\ onDisk.time <= cached'.read => cached'.content = onDisk.content
    BY <1>1, <1>3, <2>1 DEF JsonInv, DatesInStep
  <2>9. WriterAlone'
    BY <1>2, <2>2, <2>4, <2>5, <2>8 DEF JsonInv, WriterAlone, At
  <2>10. FolderKept'
    BY <1>2, <2>2, <2>4 DEF JsonInv, FolderKept, At
  <2>11. KnownKept'
    <3>1. ~At(c, {"stat", "statted", "opening", "unlinking"})' /\ ~At(c, {"stat", "statted"})' /\ ~At(c, {"statted"})'
      BY <2>4
    <3> QED
      BY <1>2, <2>1, <2>2, <2>4, <3>1 DEF JsonInv, KnownKept
  <2>12. NobodyBeside'
    <3> SUFFICES ASSUME met \intersect {"edits", "writes", "reads"} = {} PROVE NobodyBeside'
      BY <1>2 DEF NobodyBeside
    <3>1. onDisk.time = cached'.read /\ onDisk.time \in Nat
      BY <1>1, <1>3, <2>1 DEF JsonInv, NobodyBeside, JsonTypes, FileType
    <3>2. onDisk'.time <= cached'.read
      BY <1>2, <3>1
    <3>3. ~At(c, {"opened"})
      BY <1>1, <1>2 DEF At
    <3> QED
      BY <1>2, <2>1, <2>2, <2>4, <3>2, <3>3 DEF JsonInv, NobodyBeside, At
  <2> QED
    BY <2>3, <2>6, <2>7, <2>9, <2>10, <2>11, <2>12 DEF JsonInv
<1> QED
  BY <1>4, <1>5

\* The file is removed, or there was none.
LEMMA UnlinkKeeps ==
  ASSUME JsonInv, NEW c \in Commands, Unlink(c)
  PROVE  JsonInv'
<1>1. PICK old \in CommandType : old = command[c]
  BY DEF JsonInv, JsonTypes
<1>2. /\ old.at = "unlinking" /\ old.op = "delete" /\ onDisk' = Absent
      /\ UNCHANGED <<store, folders, fresh, cached, clock, ended, latest, met>>
  BY <1>1 DEF Unlink, JsonInv, JsonTypes, PlacesInStep, At
<1>3. Writing(c) /\ ~NothingWritten
  BY <1>1, <1>2 DEF Writing, Writes, NothingWritten
<1>4. CASE onDisk = Absent
  <2>1. ~At(c, {"opened", "written", "unlinked"}) /\ command' = Done(c) /\ UNCHANGED onDisk
    BY <1>1, <1>2, <1>4 DEF At, Unlink
  <2>2. ~(~ended /\ met \intersect {"writes", "folders", "early"} = {})
    BY <1>1, <1>2, <1>4 DEF JsonInv, KnownKept, At
  <2> QED
    BY <1>2, <2>1, <2>2, EndsQuietly
<1>5. CASE onDisk # Absent
  <2>1. PICK new \in CommandType :
          /\ command' = [command EXCEPT ![c] = new] /\ new.op = "delete" /\ new.folder = old.folder
          /\ new.at = "unlinked"
    <3> DEFINE n == [old EXCEPT !.at = "unlinked"]
    <3>1. command' = [command EXCEPT ![c] = n]
      BY <1>1, <1>5 DEF Unlink, GoesTo, JsonInv, JsonTypes
    <3>2. n \in CommandType /\ n.op = "delete" /\ n.folder = old.folder /\ n.at = "unlinked"
      BY <1>2 DEF CommandType
    <3> QED
      BY <3>1, <3>2
  <2>2. /\ command' \in [Commands -> CommandType]
        /\ command'[c] = new /\ \A d \in Commands : d # c => command'[d] = command[d]
    BY <2>1, CommandMoves DEF JsonInv, JsonTypes
  <2>3. JsonTypes'
    BY <1>1, <1>2, <2>1, <2>2, JsonConstants DEF JsonInv, JsonTypes
  <2>4. /\ Writing(c)' /\ ~NothingWritten' /\ At(c, {"unlinked"})' /\ At(c, {"opened", "written", "unlinked"})'
        /\ \A places : "unlinked" \notin places => ~At(c, places)'
        /\ \A d \in Commands : (Writing(d)' <=> Writing(d)) /\ (Reading(d)' <=> Reading(d))
        /\ \A d \in Commands : d # c => \A places : At(d, places)' <=> At(d, places)
    BY <1>1, <1>2, <1>3, <2>1, <2>2 DEF Writing, Reading, NothingWritten, Writes, At
  <2>5. PlacesInStep'
    <3>1. command[c].folder # 0
      BY <1>1, <1>2, <2>1 DEF JsonInv, PlacesInStep, At
    <3> QED
      BY <1>1, <1>2, <2>1, <2>2, <3>1 DEF JsonInv, PlacesInStep, At
  <2>6. DatesInStep'
    <3>1. onDisk'.time = 0
      BY <1>2, JsonConstants
    <3> QED
      BY <1>2, <2>1, <2>2, <3>1 DEF JsonInv, JsonTypes, DatesInStep, At
  <2>7. WriterAlone'
    <3> SUFFICES ASSUME "writes" \notin met PROVE WriterAlone'
      BY <1>2 DEF WriterAlone
    <3>1. \A d \in Commands : d # c => ~At(d, {"opening", "opened", "written", "unlinking", "unlinked"})
      BY <1>3, OthersRest
    <3>2. \A d \in Commands : d # c => ~At(d, {"opened"})' /\ ~At(d, {"written"})' /\ ~At(d, {"unlinked"})'
      BY <2>4, <3>1 DEF At
    <3>3. ~At(c, {"opened"})' /\ ~At(c, {"written"})'
      BY <2>4
    <3> QED
      BY <1>2, <2>4, <3>2, <3>3 DEF JsonInv, WriterAlone
  <2>8. FolderKept'
    <3> SUFFICES ASSUME met \intersect {"writes", "folders"} = {} PROVE FolderKept'
      BY <1>2 DEF FolderKept
    <3>1. FolderKept /\ store # 0
      BY <1>3 DEF JsonInv, FolderKept, Writing, Writes
    <3>2. folders[store].phase \notin {"known", "making", "listing"} /\ folders[store].entry # "none"
      BY <1>3, <3>1 DEF FolderKept
    <3>3. \A d \in Commands :
           command'[d].op # "load" /\ (At(d, {"asking", "asked", "waiting", "entered"})' \/ Writing(d)') =>
             command'[d].folder = store
      BY <1>1, <1>2, <1>3, <2>1, <2>2, <2>4, <3>1 DEF FolderKept
    <3> QED
      BY <1>2, <3>1, <3>2, <3>3 DEF FolderKept
  <2>9. KnownKept'
    <3> SUFFICES ASSUME ~ended, met \intersect {"writes", "folders", "early"} = {} PROVE KnownKept'
      BY <1>2 DEF KnownKept
    <3>1. KnownKept
      BY DEF JsonInv
    <3>2. store # 0 => folders[store].phase # "made"
      BY <1>3, <3>1 DEF KnownKept
    <3>3. \A d \in Commands : d # c =>
            ~At(d, {"opening", "unlinking"}) /\ (At(d, {"stat", "statted"}) => command[d].op = "load")
      BY <1>3, OthersRest DEF At
    <3>4. \A d \in Commands : At(d, {"stat", "statted", "opening", "unlinking"})' =>
            d # c /\ At(d, {"stat", "statted"}) /\ command'[d].op = "load"
      BY <2>2, <2>4, <3>3 DEF At
    <3>5. \A d \in Commands : At(d, {"stat", "statted"})' \/ At(d, {"statted"})' => At(d, {"stat", "statted", "opening", "unlinking"})'
      BY DEF At
    <3>6. \A d \in Commands : At(d, {"stat", "statted", "opening", "unlinking"})' =>
            command'[d].op \notin {"insert", "update", "delete"}
      BY <3>4
    <3> QED
      BY <1>2, <2>4, <3>1, <3>2, <3>5, <3>6 DEF KnownKept
  <2>10. NobodyBeside'
    <3> SUFFICES ASSUME met \intersect {"edits", "writes", "reads"} = {} PROVE NobodyBeside'
      BY <1>2 DEF NobodyBeside
    <3>1. \A d \in Commands : ~At(d, {"stat", "statted", "reading", "read"})'
      BY <1>3, <2>4, NobodyReads
    <3>2. \A d \in Commands : ~At(d, {"statted", "reading", "read"})' /\ ~At(d, {"read"})'
      BY <3>1 DEF At
    <3>3. \A d, e \in Commands : Writing(d)' => ~Reading(e)'
      BY <2>4 DEF JsonInv, NobodyBeside
    <3>4. onDisk'.time = 0 /\ onDisk'.content # "cut" /\ cached'.read \in Nat
      BY <1>2, <2>3, JsonConstants DEF JsonTypes, KnownType
    <3>5. ~ended' /\ onDisk'.time <= cached'.read
      BY <1>2, <3>4 DEF JsonInv, NobodyBeside
    <3> QED
      BY <3>2, <3>3, <3>4, <3>5 DEF NobodyBeside
  <2> QED
    BY <2>3, <2>5, <2>6, <2>7, <2>8, <2>9, <2>10 DEF JsonInv
<1> QED
  BY <1>4, <1>5

\* The removal is acknowledged.
LEMMA UnlinkedKeeps ==
  ASSUME JsonInv, NEW c \in Commands, Unlinked(c)
  PROVE  JsonInv'
<1>1. PICK f \in Nat : f = command[c].folder
  BY DEF JsonInv, JsonTypes, CommandType
<1>2. /\ command[c].at = "unlinked" /\ command[c].op = "delete" /\ f # 0 /\ f <= Len(folders)
      /\ UNCHANGED <<store, fresh, onDisk, clock, ended, met>> /\ latest' = "absent"
      /\ cached' = Unread
  BY <1>1 DEF Unlinked, JsonInv, JsonTypes, PlacesInStep, At
<1>3. DOMAIN folders = 1..Len(folders) /\ Len(folders) \in Nat /\ f \in DOMAIN folders
  BY <1>1, <1>2, LenProperties DEF JsonInv, JsonTypes
<1>4. /\ command' \in [Commands -> CommandType]
      /\ command'[c].at = "done" /\ command'[c].op = "load" /\ command'[c].folder = 0
      /\ \A d \in Commands : d # c => command'[d] = command[d]
  BY DoneRests DEF JsonInv, JsonTypes, Unlinked
<1>5. PICK new \in FolderType :
        /\ folders' = [folders EXCEPT ![f] = new] /\ new.entry = "none"
        /\ new.phase = folders[f].phase /\ new.listed = folders[f].listed
  <2>1. PICK old \in FolderType : old = folders[f]
    BY <1>3 DEF JsonInv, JsonTypes
  <2> DEFINE n == [old EXCEPT !.entry = "none"]
  <2>2. n \in FolderType /\ n.entry = "none" /\ n.phase = old.phase /\ n.listed = old.listed
    BY JsonConstants DEF FolderType
  <2>3. folders' = [folders EXCEPT ![f] = n]
    BY <1>1, <1>3, <2>1 DEF Unlinked
  <2> QED
    BY <2>1, <2>2, <2>3
<1>6. /\ folders' \in Seq(FolderType) /\ Len(folders') = Len(folders) /\ DOMAIN folders' = DOMAIN folders
      /\ folders'[f] = new /\ \A g \in DOMAIN folders : g # f => folders'[g] = folders[g]
  BY <1>3, <1>5, FolderChanges DEF JsonInv, JsonTypes
<1>7. \A g \in DOMAIN folders : folders'[g].phase = folders[g].phase /\ folders'[g].listed = folders[g].listed
  BY <1>5, <1>6
<1>8. /\ Writing(c) /\ ~Writing(c)' /\ ~Reading(c)' /\ ~NothingWritten
      /\ \A places : "done" \notin places => ~At(c, places)'
      /\ \A d \in Commands : d # c => (Writing(d)' <=> Writing(d)) /\ (Reading(d)' <=> Reading(d))
      /\ \A d \in Commands : d # c => \A places : At(d, places)' <=> At(d, places)
  BY <1>2, <1>4 DEF Writing, Reading, NothingWritten, Writes, At
<1>9. JsonTypes'
  <2>1. latest' \in Contents
    BY <1>2 DEF Contents
  <2>2. cached' \in KnownType
    BY <1>2, JsonConstants
  <2>3. \A d \in Commands : command'[d].folder <= Len(folders')
    BY <1>3, <1>4, <1>6 DEF JsonInv, JsonTypes
  <2> QED
    BY <1>2, <1>4, <1>6, <2>1, <2>2, <2>3 DEF JsonInv, JsonTypes
<1>10. PlacesInStep'
  <2>1. \A d \in Commands : At(d, {"entered"})' => command[d].folder \in DOMAIN folders /\ command'[d] = command[d] /\ At(d, {"entered"})
    <3>1. \A d \in Commands : At(d, {"entered"})' => d # c /\ At(d, {"entered"}) /\ command'[d] = command[d]
      BY <1>4, <1>8
    <3>2. \A d \in Commands : command[d].folder \in Nat /\ command[d].folder <= Len(folders)
      BY DEF JsonInv, JsonTypes, CommandType
    <3>3. \A d \in Commands : At(d, {"entered"}) => command[d].folder # 0
      BY DEF JsonInv, PlacesInStep, At
    <3> QED
      BY <1>3, <3>1, <3>2, <3>3
  <2>2. \A d \in Commands : At(d, {"entered"})' =>
          /\ folders'[command'[d].folder].phase \in {"made", "open"}
          /\ "early" \notin met => folders'[command'[d].folder].phase = "open"
    BY <1>7, <2>1 DEF JsonInv, PlacesInStep
  <2>3. ASSUME NEW d \in Commands
        PROVE  /\ At(d, {"stat", "statted"})' => command'[d].op \in {"insert", "update", "load"}
               /\ At(d, {"opening", "opened", "written"})' => command'[d].op \in {"insert", "update"}
               /\ At(d, {"reading", "read"})' => command'[d].op = "load"
               /\ At(d, {"unlinking", "unlinked"})' => command'[d].op = "delete"
               /\ At(d, {"missed", "asking", "asked"})' => command'[d].op \in {"insert", "another"}
               /\ At(d, {"asking", "asked", "waiting", "entered", "unlinking", "unlinked"})' => command'[d].folder # 0
               /\ At(d, {"asking", "asked"})' => store # 0
    BY <1>4, <1>8 DEF JsonInv, PlacesInStep
  <2> QED
    BY <1>2, <2>2, <2>3 DEF PlacesInStep
<1>11. DatesInStep'
  <2>1. cached'.read = 0
    BY <1>2, JsonConstants
  <2> QED
    BY <1>2, <1>4, <1>8, <2>1 DEF JsonInv, JsonTypes, DatesInStep
<1>12. "writes" \notin met =>
        /\ onDisk = Absent /\ NothingWritten'
        /\ \A d \in Commands :
             /\ ~At(d, {"opening", "opened", "written", "unlinking", "unlinked"})'
             /\ At(d, {"stat", "statted"})' => command'[d].op = "load"
  <2>1. "writes" \notin met => onDisk = Absent
    BY <1>2 DEF JsonInv, WriterAlone, At
  <2>2. "writes" \notin met => NothingWritten'
    BY <1>8, OthersRest DEF NothingWritten
  <2> QED
    BY <1>4, <1>8, <2>1, <2>2, OthersRest
<1>13. WriterAlone'
  <2> SUFFICES ASSUME "writes" \notin met PROVE WriterAlone'
    BY <1>2 DEF WriterAlone
  <2>1. \A d \in Commands : ~Writing(d)' /\ ~At(d, {"opened"})' /\ ~At(d, {"written"})' /\ ~At(d, {"unlinked"})'
    BY <1>12 DEF NothingWritten, At
  <2>2. onDisk'.content = latest'
    BY <1>2, <1>12, JsonConstants
  <2> QED
    BY <1>2, <1>12, <2>1, <2>2 DEF WriterAlone
<1>14. ASSUME met \intersect {"writes", "folders"} = {}
       PROVE  /\ store # 0 /\ f = store /\ store \in DOMAIN folders
              /\ folders'[store].phase \notin {"known", "making", "listing"} /\ folders'[store].entry = "none"
              /\ folders[store].phase = folders'[store].phase /\ FolderKept /\ NothingWritten' /\ onDisk = Absent
  <2>1. FolderKept /\ store # 0 /\ f = store
    BY <1>1, <1>2, <1>8, <1>14 DEF JsonInv, FolderKept
  <2>2. folders[store].phase \notin {"known", "making", "listing"}
    BY <1>8, <1>14, <2>1 DEF FolderKept
  <2> QED
    BY <1>3, <1>5, <1>6, <1>12, <1>14, <2>1, <2>2
<1>15. FolderKept'
  <2> SUFFICES ASSUME met \intersect {"writes", "folders"} = {} PROVE FolderKept'
    BY <1>2 DEF FolderKept
  <2>1. \A d \in Commands :
         command'[d].op # "load" /\ (At(d, {"asking", "asked", "waiting", "entered"})' \/ Writing(d)') =>
           command'[d].folder = store
    BY <1>4, <1>8, <1>14 DEF FolderKept
  <2> QED
    BY <1>2, <1>14, <2>1 DEF FolderKept
<1>16. KnownKept'
  <2> SUFFICES ASSUME ~ended, met \intersect {"writes", "folders", "early"} = {} PROVE KnownKept'
    BY <1>2 DEF KnownKept
  <2>1. KnownKept
    BY DEF JsonInv
  <2>2. store # 0 /\ folders'[store].phase \notin {"making", "made"} /\ folders'[store].entry = "none"
    BY <1>8, <1>14, <2>1 DEF KnownKept
  <2>3. \A d \in Commands : ~At(d, {"opening", "unlinking"})' /\ (At(d, {"stat", "statted"})' => command'[d].op = "load")
    BY <1>12 DEF At
  <2>4. \A d \in Commands : At(d, {"stat", "statted", "opening", "unlinking"})' \/ At(d, {"stat", "statted"})' \/ At(d, {"statted"})' =>
          command'[d].op = "load"
    BY <2>3 DEF At
  <2>5. \A d \in Commands : command'[d].op = "load" => command'[d].op \notin {"insert", "update", "delete"}
    OBVIOUS
  <2> QED
    BY <1>2, <2>2, <2>4, <2>5 DEF KnownKept
<1>17. NobodyBeside'
  <2> SUFFICES ASSUME met \intersect {"edits", "writes", "reads"} = {} PROVE NobodyBeside'
    BY <1>2 DEF NobodyBeside
  <2>1. \A d \in Commands : ~At(d, {"stat", "statted", "reading", "read"})'
    BY <1>8, NobodyReads
  <2>2. \A d \in Commands : ~At(d, {"statted", "reading", "read"})' /\ ~At(d, {"read"})' /\ ~Writing(d)'
    BY <1>12, <2>1 DEF At, NothingWritten
  <2>3. ~ended'
    BY <1>2 DEF JsonInv, NobodyBeside
  <2>4. onDisk'.content # "cut"
    BY <1>2, <1>12, JsonConstants
  <2> QED
    BY <1>2, <2>2, <2>3, <2>4 DEF NobodyBeside
<1> QED
  BY <1>9, <1>10, <1>11, <1>13, <1>15, <1>16, <1>17 DEF JsonInv

\* Another program edits the file.
LEMMA EditKeeps ==
  ASSUME JsonInv, Edit
  PROVE  JsonInv'
<1>1. /\ onDisk # Absent /\ clock \in Nat /\ onDisk \in FileType
      /\ UNCHANGED <<store, folders, fresh, cached, command, ended>>
      /\ latest' = "edited" /\ "edits" \in met' /\ met \subseteq met'
      /\ (\E c \in Commands : Writing(c)) => "writes" \in met'
  BY DEF Edit, JsonInv, JsonTypes
<1>2. /\ clock' = clock + 1 /\ clock' \in Nat
      /\ onDisk' \in FileType /\ onDisk'.content = "edited" /\ onDisk'.time = clock + 1 /\ onDisk' # Absent
  <2> DEFINE editedFile == [onDisk EXCEPT !.content = "edited", !.time = clock']
  <2>1. clock' = clock + 1 /\ clock' \in Nat /\ onDisk' = editedFile
    BY <1>1 DEF Edit
  <2>2. editedFile \in FileType /\ editedFile.content = "edited" /\ editedFile.time = clock'
    BY <1>1, <2>1 DEF FileType, Contents
  <2>3. editedFile # Absent
    BY <2>1, <2>2, <1>1, JsonConstants
  <2> QED
    BY <2>1, <2>2, <2>3
<1>3. JsonTypes'
  <2>1. met' \subseteq {"edits", "writes", "reads", "folders", "early"}
    BY DEF Edit, JsonInv, JsonTypes
  <2>2. latest' \in Contents
    BY <1>1 DEF Contents
  <2> QED
    BY <1>1, <1>2, <2>1, <2>2 DEF JsonInv, JsonTypes
<1>4. /\ \A d \in Commands : (Writing(d)' <=> Writing(d)) /\ (Reading(d)' <=> Reading(d))
      /\ NothingWritten' <=> NothingWritten
      /\ \A d \in Commands : \A places : At(d, places)' <=> At(d, places)
  BY <1>1 DEF Writing, Reading, NothingWritten, At
<1>5. "writes" \notin met' =>
        /\ "writes" \notin met /\ NothingWritten
        /\ \A d \in Commands : ~Writing(d) /\ ~At(d, {"opening", "opened", "written", "unlinking", "unlinked"})
                               /\ (At(d, {"stat", "statted"}) => command[d].op = "load")
  BY <1>1 DEF NothingWritten, JsonInv, PlacesInStep, At, Writing, Writes
<1>6. PlacesInStep'
  <2>1. "early" \in met => "early" \in met'
    BY <1>1
  <2> QED
    BY <1>1, <1>4, <2>1 DEF JsonInv, PlacesInStep
<1>7. DatesInStep'
  <2>1. \A d \in Commands : At(d, {"statted", "reading", "read"}) =>
          command[d].time \in Nat /\ command[d].time <= clock
    BY DEF JsonInv, JsonTypes, CommandType, DatesInStep
  <2>2. \A d \in Commands : At(d, {"read"}) => At(d, {"statted", "reading", "read"})
    BY DEF At
  <2>3. cached.read \in Nat /\ cached.read <= clock
    BY DEF JsonInv, JsonTypes, KnownType, DatesInStep
  <2>4. \A d \in Commands : At(d, {"statted", "reading", "read"})' =>
          command'[d].time <= clock' /\ ~(onDisk'.time <= command'[d].time)
    BY <1>1, <1>2, <1>4, <2>1
  <2>5. cached'.read <= clock' /\ onDisk'.time <= clock' /\ onDisk'.time > 0
    BY <1>1, <1>2, <2>3
  <2> QED
    BY <1>2, <1>4, <2>2, <2>4, <2>5 DEF DatesInStep
<1>8. WriterAlone'
  <2> SUFFICES ASSUME "writes" \notin met' PROVE WriterAlone'
    BY DEF WriterAlone
  <2>1. ~(onDisk'.time <= cached'.read)
    BY <1>1, <1>2 DEF JsonInv, JsonTypes, KnownType, DatesInStep
  <2>2. \A d \in Commands : ~Writing(d)' /\ ~At(d, {"opened"})' /\ ~At(d, {"written"})' /\ ~At(d, {"unlinked"})'
    BY <1>1, <1>5 DEF At, Writing
  <2> QED
    BY <1>1, <1>2, <2>1, <2>2 DEF WriterAlone
<1>9. FolderKept'
  <2> SUFFICES ASSUME met' \intersect {"writes", "folders"} = {} PROVE FolderKept'
    BY DEF FolderKept
  <2>1. FolderKept /\ met \intersect {"writes", "folders"} = {}
    BY <1>1 DEF JsonInv
  <2>2. store # 0
    BY <1>1, <2>1 DEF FolderKept
  <2>3. \A d \in Commands : At(d, {"stat", "statted", "opening"}) => command[d].op = "load"
    BY <1>5 DEF At
  <2>4. folders[store].phase # "making" /\ (folders[store].entry = "none" => folders[store].phase \notin {"made", "open"})
        /\ (folders[store].phase \in {"known", "listing"} => folders[store].listed # "absent")
    BY <1>1, <2>1, <2>2 DEF FolderKept
  <2> QED
    BY <1>1, <1>2, <1>4, <2>1, <2>2, <2>3, <2>4 DEF FolderKept
<1>10. KnownKept'
  <2> SUFFICES ASSUME ~ended, met' \intersect {"writes", "folders", "early"} = {} PROVE KnownKept'
    BY <1>1 DEF KnownKept
  <2>1. KnownKept /\ met \intersect {"writes", "folders", "early"} = {}
    BY <1>1 DEF JsonInv
  <2>2. store # 0 => folders[store].phase # "made"
    BY <1>1, <2>1 DEF KnownKept
  <2> QED
    BY <1>1, <1>2, <1>4, <2>1, <2>2 DEF KnownKept
<1>11. NobodyBeside'
  BY <1>1 DEF NobodyBeside
<1> QED
  BY <1>3, <1>6, <1>7, <1>8, <1>9, <1>10, <1>11 DEF JsonInv

\* A folder that the file system has made, read or listed: what the commands
\* hold does not change.
LEMMA FolderOf ==
  ASSUME JsonInv, NEW c \in Commands, At(c, {"asking", "asked", "waiting", "entered", "unlinking", "unlinked"})
  PROVE  command[c].folder \in DOMAIN folders
<1>1. DOMAIN folders = 1..Len(folders) /\ Len(folders) \in Nat
  BY LenProperties DEF JsonInv, JsonTypes
<1>2. command[c].folder \in Nat /\ command[c].folder <= Len(folders) /\ command[c].folder # 0
  BY DEF JsonInv, JsonTypes, CommandType, PlacesInStep
<1> QED
  BY <1>1, <1>2

LEMMA StoreInFolders ==
  ASSUME JsonInv, store # 0
  PROVE  store \in DOMAIN folders
<1>1. DOMAIN folders = 1..Len(folders) /\ Len(folders) \in Nat
  BY LenProperties DEF JsonInv, JsonTypes
<1> QED
  BY <1>1 DEF JsonInv, JsonTypes

LEMMA FolderSteps ==
  ASSUME JsonInv, NEW f \in DOMAIN folders, NEW new \in FolderType, folders' = [folders EXCEPT ![f] = new],
         folders[f].phase \in {"made", "open"} => new.phase \in {folders[f].phase, "open"},
         UNCHANGED <<store, fresh, onDisk, cached, clock, command, ended, latest, met>>
  PROVE  /\ JsonTypes' /\ PlacesInStep' /\ DatesInStep' /\ WriterAlone' /\ NobodyBeside'
         /\ NothingWritten' <=> NothingWritten
         /\ folders'[f] = new /\ \A g \in DOMAIN folders : g # f => folders'[g] = folders[g]
<1>1. /\ folders' \in Seq(FolderType) /\ Len(folders') = Len(folders) /\ DOMAIN folders' = DOMAIN folders
      /\ folders'[f] = new /\ \A g \in DOMAIN folders : g # f => folders'[g] = folders[g]
  BY FolderChanges DEF JsonInv, JsonTypes
<1>2. /\ \A d \in Commands : (Writing(d)' <=> Writing(d)) /\ (Reading(d)' <=> Reading(d))
      /\ \A d \in Commands : \A places : At(d, places)' <=> At(d, places)
      /\ NothingWritten' <=> NothingWritten
  BY DEF Writing, Reading, At, NothingWritten
<1>3. JsonTypes'
  BY <1>1 DEF JsonInv, JsonTypes
<1>4. PlacesInStep'
  <2>1. ASSUME NEW d \in Commands, At(d, {"entered"})
        PROVE  /\ folders'[command[d].folder].phase \in {"made", "open"}
               /\ "early" \notin met => folders'[command[d].folder].phase = "open"
    <3>1. PICK g \in DOMAIN folders : g = command[d].folder
      BY <2>1, FolderOf DEF At
    <3>2. folders[g].phase \in {"made", "open"} /\ ("early" \notin met => folders[g].phase = "open")
      BY <2>1, <3>1 DEF JsonInv, PlacesInStep
    <3>3. folders'[g].phase \in {folders[g].phase, "open"}
      BY <1>1, <3>2
    <3> QED
      BY <3>1, <3>2, <3>3
  <2> QED
    BY <1>2, <2>1 DEF JsonInv, PlacesInStep
<1>5. DatesInStep' /\ WriterAlone' /\ NobodyBeside'
  BY <1>2 DEF JsonInv, DatesInStep, WriterAlone, NobodyBeside
<1> QED
  BY <1>1, <1>2, <1>3, <1>4, <1>5

\* mkdir() is done.
LEMMA MadeFolderKeeps ==
  ASSUME JsonInv, NEW f \in DOMAIN folders, MadeFolder(f)
  PROVE  JsonInv'
<1>1. PICK old \in FolderType : old = folders[f]
  BY DEF JsonInv, JsonTypes
<1>2. old.phase = "making" /\ UNCHANGED <<store, fresh, onDisk, cached, clock, command, ended, latest, met>>
  BY <1>1 DEF MadeFolder
<1>3. PICK new \in FolderType :
        /\ folders' = [folders EXCEPT ![f] = new] /\ new.phase = "made" /\ new.listed = old.listed /\ new.entry = old.entry
  <2> DEFINE n == [old EXCEPT !.phase = "made"]
  <2>1. n \in FolderType /\ n.phase = "made" /\ n.listed = old.listed /\ n.entry = old.entry
    BY DEF FolderType
  <2>2. folders' = [folders EXCEPT ![f] = n]
    BY <1>1 DEF MadeFolder
  <2> QED
    BY <2>1, <2>2
<1>4. /\ JsonTypes' /\ PlacesInStep' /\ DatesInStep' /\ WriterAlone' /\ NobodyBeside'
      /\ NothingWritten' <=> NothingWritten
      /\ folders'[f] = new /\ \A g \in DOMAIN folders : g # f => folders'[g] = folders[g]
  BY <1>1, <1>2, <1>3, FolderSteps
<1>5. /\ \A d \in Commands : (Writing(d)' <=> Writing(d)) /\ \A places : At(d, places)' <=> At(d, places)
  BY <1>2 DEF Writing, At
<1>6. FolderKept'
  <2> SUFFICES ASSUME met \intersect {"writes", "folders"} = {} PROVE FolderKept'
    BY <1>2 DEF FolderKept
  <2>1. FolderKept
    BY DEF JsonInv
  <2>2. CASE store = f
    <3>1. store # 0 /\ folders[store].phase = "making"
      BY <1>1, <1>2, <2>2, LenProperties DEF JsonInv, JsonTypes
    <3> QED
      BY <1>1, <1>2, <1>3, <1>4, <1>5, <2>1, <2>2, <3>1 DEF FolderKept
  <2>3. CASE store # f
    BY <1>2, <1>4, <1>5, <2>1, <2>3, StoreInFolders DEF FolderKept
  <2> QED
    BY <2>2, <2>3
<1>7. KnownKept'
  <2> SUFFICES ASSUME ~ended, met \intersect {"writes", "folders", "early"} = {} PROVE KnownKept'
    BY <1>2 DEF KnownKept
  <2>1. KnownKept /\ FolderKept
    BY DEF JsonInv
  <2>2. CASE store = f
    <3>1. store # 0 /\ folders[store].phase = "making"
      BY <1>1, <1>2, <2>2, LenProperties DEF JsonInv, JsonTypes
    <3>2. NothingWritten /\ onDisk = Absent /\ folders[store].entry = "none" /\ folders[store].listed = "not yet"
      BY <2>1, <3>1 DEF KnownKept, FolderKept
    <3> QED
      BY <1>1, <1>2, <1>3, <1>4, <1>5, <2>1, <2>2, <3>1, <3>2 DEF KnownKept
  <2>3. CASE store # f
    BY <1>2, <1>4, <1>5, <2>1, <2>3, StoreInFolders DEF KnownKept
  <2> QED
    BY <2>2, <2>3
<1> QED
  BY <1>4, <1>6, <1>7 DEF JsonInv

\* readdir() reads the folder.
LEMMA ReadsFolderKeeps ==
  ASSUME JsonInv, NEW f \in DOMAIN folders, ReadsFolder(f)
  PROVE  JsonInv'
<1>1. PICK old \in FolderType : old = folders[f]
  BY DEF JsonInv, JsonTypes
<1>2. /\ old.phase \in {"made", "listing"}
      /\ UNCHANGED <<store, fresh, onDisk, cached, clock, command, ended, latest, met>>
  BY <1>1 DEF ReadsFolder
<1>3. PICK new \in FolderType :
        /\ folders' = [folders EXCEPT ![f] = new] /\ new.phase = old.phase /\ new.entry = old.entry
        /\ new.listed \in {"absent", "there"} /\ (new.listed = "absent" <=> onDisk = Absent)
  <2> DEFINE l == IF onDisk = Absent THEN "absent" ELSE "there"
             n == [old EXCEPT !.listed = l]
  <2>1. l \in {"absent", "there"} /\ (l = "absent" <=> onDisk = Absent)
    OBVIOUS
  <2>2. folders' = [folders EXCEPT ![f] = n]
    BY <1>1 DEF ReadsFolder
  <2> HIDE DEF l
  <2>3. n \in FolderType /\ n.phase = old.phase /\ n.listed = l /\ n.entry = old.entry
    BY <2>1 DEF FolderType
  <2> QED
    BY <2>1, <2>2, <2>3
<1>4. /\ JsonTypes' /\ PlacesInStep' /\ DatesInStep' /\ WriterAlone' /\ NobodyBeside'
      /\ NothingWritten' <=> NothingWritten
      /\ folders'[f] = new /\ \A g \in DOMAIN folders : g # f => folders'[g] = folders[g]
  BY <1>1, <1>2, <1>3, FolderSteps
<1>5. /\ \A d \in Commands : (Writing(d)' <=> Writing(d)) /\ \A places : At(d, places)' <=> At(d, places)
  BY <1>2 DEF Writing, At
<1>6. FolderKept'
  <2> SUFFICES ASSUME met \intersect {"writes", "folders"} = {} PROVE FolderKept'
    BY <1>2 DEF FolderKept
  <2>1. FolderKept
    BY DEF JsonInv
  <2>2. CASE store = f
    <3>1. store # 0
      BY <2>2, LenProperties DEF JsonInv, JsonTypes
    <3> QED
      BY <1>1, <1>2, <1>3, <1>4, <1>5, <2>1, <2>2, <3>1 DEF FolderKept
  <2>3. CASE store # f
    BY <1>2, <1>4, <1>5, <2>1, <2>3, StoreInFolders DEF FolderKept
  <2> QED
    BY <2>2, <2>3
<1>7. KnownKept'
  <2> SUFFICES ASSUME ~ended, met \intersect {"writes", "folders", "early"} = {} PROVE KnownKept'
    BY <1>2 DEF KnownKept
  <2>1. KnownKept
    BY DEF JsonInv
  <2>2. CASE store = f
    <3>1. store # 0
      BY <2>2, LenProperties DEF JsonInv, JsonTypes
    <3> QED
      BY <1>1, <1>2, <1>3, <1>4, <1>5, <2>1, <2>2, <3>1 DEF KnownKept
  <2>3. CASE store # f
    BY <1>2, <1>4, <1>5, <2>1, <2>3, StoreInFolders DEF KnownKept
  <2> QED
    BY <2>2, <2>3
<1> QED
  BY <1>4, <1>6, <1>7 DEF JsonInv

\* The answer of readdir().
LEMMA ListedFolderKeeps ==
  ASSUME JsonInv, NEW f \in DOMAIN folders, ListedFolder(f)
  PROVE  JsonInv'
<1>1. PICK old \in FolderType : old = folders[f]
  BY DEF JsonInv, JsonTypes
<1>2. /\ old.phase \in {"made", "listing"} /\ old.listed \in {"absent", "there"}
      /\ UNCHANGED <<store, fresh, onDisk, cached, clock, command, ended, latest, met>>
  BY <1>1 DEF ListedFolder, FolderType
<1>3. PICK new \in FolderType :
        /\ folders' = [folders EXCEPT ![f] = new] /\ new.phase = "open"
        /\ old.listed = "there" => new.entry = "listed" /\ new.entry # "none"
        /\ old.listed = "absent" => new.entry = old.entry
  <2> DEFINE e == IF old.listed = "there" THEN "listed" ELSE old.entry
             n == [old EXCEPT !.phase = "open", !.entry = e]
  <2>1. e \in EntryType /\ (old.listed = "there" => e = "listed") /\ (old.listed = "absent" => e = old.entry)
    BY JsonConstants DEF FolderType
  <2>2. folders' = [folders EXCEPT ![f] = n]
    BY <1>1 DEF ListedFolder
  <2> HIDE DEF e
  <2>3. n \in FolderType /\ n.phase = "open" /\ n.entry = e
    BY <2>1 DEF FolderType
  <2> QED
    BY <2>1, <2>2, <2>3
<1>4. /\ JsonTypes' /\ PlacesInStep' /\ DatesInStep' /\ WriterAlone' /\ NobodyBeside'
      /\ NothingWritten' <=> NothingWritten
      /\ folders'[f] = new /\ \A g \in DOMAIN folders : g # f => folders'[g] = folders[g]
  BY <1>1, <1>2, <1>3, FolderSteps
<1>5. /\ \A d \in Commands : (Writing(d)' <=> Writing(d)) /\ \A places : At(d, places)' <=> At(d, places)
  BY <1>2 DEF Writing, At
<1>6. FolderKept'
  <2> SUFFICES ASSUME met \intersect {"writes", "folders"} = {} PROVE FolderKept'
    BY <1>2 DEF FolderKept
  <2>1. FolderKept
    BY DEF JsonInv
  <2>2. CASE store = f
    <3>1. store # 0
      BY <2>2, LenProperties DEF JsonInv, JsonTypes
    <3>2. new.entry = "none" => old.listed = "absent" /\ old.entry = "none"
      BY <1>2, <1>3
    <3>3. new.entry = "none" => NothingWritten /\ onDisk = Absent
      BY <1>1, <1>2, <2>1, <2>2, <3>1, <3>2 DEF FolderKept
    <3> QED
      BY <1>2, <1>3, <1>4, <1>5, <2>1, <2>2, <3>1, <3>3 DEF FolderKept
  <2>3. CASE store # f
    BY <1>2, <1>4, <1>5, <2>1, <2>3, StoreInFolders DEF FolderKept
  <2> QED
    BY <2>2, <2>3
<1>7. KnownKept'
  <2> SUFFICES ASSUME ~ended, met \intersect {"writes", "folders", "early"} = {} PROVE KnownKept'
    BY <1>2 DEF KnownKept
  <2>1. KnownKept /\ FolderKept
    BY DEF JsonInv
  <2>2. CASE store = f
    <3>1. store # 0
      BY <2>2, LenProperties DEF JsonInv, JsonTypes
    <3>2. CASE old.phase = "made"
      <4>1. old.entry = "none" /\ old.listed = "absent"
        BY <1>1, <1>2, <2>1, <2>2, <3>1, <3>2 DEF KnownKept
      <4> QED
        BY <1>2, <1>3, <1>4, <1>5, <2>1, <2>2, <3>1, <4>1 DEF KnownKept
    <3>3. CASE old.phase = "listing"
      <4>1. old.entry = "none" /\ (old.listed = "there" => onDisk # Absent)
        BY <1>1, <1>2, <2>1, <2>2, <3>1, <3>3 DEF FolderKept
      <4>2. new.entry # "none" => onDisk # Absent
        BY <1>2, <1>3, <4>1
      <4> QED
        BY <1>2, <1>3, <1>4, <1>5, <2>1, <2>2, <3>1, <4>2 DEF KnownKept
    <3> QED
      BY <1>2, <3>2, <3>3
  <2>3. CASE store # f
    BY <1>2, <1>4, <1>5, <2>1, <2>3, StoreInFolders DEF KnownKept
  <2> QED
    BY <2>2, <2>3
<1> QED
  BY <1>4, <1>6, <1>7 DEF JsonInv

\* FolderEntry.then(), for the folder of the collection.
LEMMA AwaitsKeeps ==
  ASSUME JsonInv, NEW c \in Commands, At(c, {"idle", "asking", "asked"}), store # 0,
         NEW op \in Kinds, NEW waits, NEW resumes, Awaits(c, op, store, waits, resumes),
         \/ waits = "asking" /\ resumes = "asked" /\ op \in {"insert", "another"}
         \/ waits = "waiting" /\ resumes = "entered",
         UNCHANGED <<store, fresh, onDisk, cached, clock, ended, latest>>
  PROVE  JsonInv'
<1>1. PICK s \in DOMAIN folders : s = store
  BY StoreInFolders
<1>2. PICK old \in FolderType : old = folders[s]
  BY DEF JsonInv, JsonTypes
<1>3. PICK new \in FolderType :
        /\ folders' = [folders EXCEPT ![s] = new] /\ new.listed = old.listed /\ new.entry = old.entry
        /\ new.phase = IF old.phase = "known" THEN "listing" ELSE old.phase
  <2> DEFINE p == IF old.phase = "known" THEN "listing" ELSE old.phase
             n == [old EXCEPT !.phase = p]
  <2>1. p \in {"known", "making", "made", "listing", "open"}
    BY DEF FolderType
  <2>2. folders' = [folders EXCEPT ![s] = n]
    BY <1>1, <1>2 DEF Awaits
  <2> HIDE DEF p
  <2>3. n \in FolderType /\ n.phase = p /\ n.listed = old.listed /\ n.entry = old.entry
    BY <2>1 DEF FolderType
  <2> QED
    BY <2>2, <2>3 DEF p
<1>4. /\ folders' \in Seq(FolderType) /\ Len(folders') = Len(folders) /\ DOMAIN folders' = DOMAIN folders
      /\ folders'[s] = new /\ \A g \in DOMAIN folders : g # s => folders'[g] = folders[g]
  BY <1>3, FolderChanges DEF JsonInv, JsonTypes
<1>5. s \in Nat /\ s # 0 /\ s <= Len(folders)
  BY <1>1 DEF JsonInv, JsonTypes
<1>6. PICK q \in CommandType :
        /\ command' = [command EXCEPT ![c] = q] /\ q.op = op /\ q.folder = s
        /\ q.at = IF new.phase \in {"made", "open"} THEN resumes ELSE waits
  <2>1. PICK r \in CommandType : r = command[c]
    BY DEF JsonInv, JsonTypes
  <2> DEFINE a == IF new.phase \in {"made", "open"} THEN resumes ELSE waits
             n == [r EXCEPT !.op = op, !.folder = s, !.at = a]
  <2>2. a \in {"asking", "asked", "waiting", "entered"}
    OBVIOUS
  <2>3. command' = [command EXCEPT ![c] = n]
    <3>1. command' = [command EXCEPT ![c].op = op, ![c].folder = store,
                                     ![c].at = IF folders'[store].phase \in {"made", "open"} THEN resumes ELSE waits]
      BY DEF Awaits
    <3> QED
      BY <1>1, <1>4, <2>1, <3>1 DEF JsonInv, JsonTypes
  <2> HIDE DEF a
  <2>4. n \in CommandType /\ n.op = op /\ n.folder = s /\ n.at = a
    BY <1>5, <2>2 DEF CommandType
  <2> QED
    BY <2>3, <2>4 DEF a
<1>7. /\ command' \in [Commands -> CommandType]
      /\ command'[c] = q /\ \A d \in Commands : d # c => command'[d] = command[d]
  BY <1>6, CommandMoves DEF JsonInv, JsonTypes
<1>8. met' = IF new.phase = "made" THEN met \union {"early"} ELSE met
  BY <1>1, <1>4 DEF Awaits
<1>9. /\ ~Writing(c) /\ ~Reading(c) /\ ~Writing(c)' /\ ~Reading(c)'
      /\ At(c, {"asking", "asked", "waiting", "entered"})'
      /\ \A places : places \intersect {"asking", "asked", "waiting", "entered"} = {} => ~At(c, places)'
      /\ \A places : places \intersect {"idle", "asking", "asked"} = {} => ~At(c, places)
      /\ \A d \in Commands : (Writing(d)' <=> Writing(d)) /\ (Reading(d)' <=> Reading(d))
      /\ \A d \in Commands : d # c => \A places : At(d, places)' <=> At(d, places)
      /\ NothingWritten' <=> NothingWritten
  <2>1. q.at \in {"asking", "asked", "waiting", "entered"}
    BY <1>6
  <2>2. At(c, {"asking", "asked", "waiting", "entered"})'
    BY <1>7, <2>1 DEF At
  <2>3. \A places : places \intersect {"asking", "asked", "waiting", "entered"} = {} => ~At(c, places)'
    BY <2>2 DEF At
  <2>4. \A places : places \intersect {"idle", "asking", "asked"} = {} => ~At(c, places)
    BY DEF At
  <2>5. ~Writing(c) /\ ~Reading(c) /\ ~Writing(c)' /\ ~Reading(c)'
    BY <2>2 DEF Writing, Reading, At
  <2>6. \A d \in Commands : (Writing(d)' <=> Writing(d)) /\ (Reading(d)' <=> Reading(d))
    BY <1>7, <2>5 DEF Writing, Reading
  <2>7. \A d \in Commands : d # c => \A places : At(d, places)' <=> At(d, places)
    BY <1>7 DEF At
  <2> QED
    BY <2>2, <2>3, <2>4, <2>5, <2>6, <2>7 DEF NothingWritten
<1>10. JsonTypes'
  BY <1>4, <1>5, <1>6, <1>7, <1>8 DEF JsonInv, JsonTypes
<1>11. PlacesInStep'
  <2>1. ASSUME NEW d \in Commands, At(d, {"entered"})'
        PROVE  /\ folders'[command'[d].folder].phase \in {"made", "open"}
               /\ "early" \notin met' => folders'[command'[d].folder].phase = "open"
    <3>1. CASE d = c
      <4>1. new.phase \in {"made", "open"} /\ folders'[command'[d].folder] = new
        BY <1>4, <1>6, <1>7, <2>1, <3>1 DEF At
      <4> QED
        BY <1>8, <4>1
    <3>2. CASE d # c
      <4>1. At(d, {"entered"}) /\ command'[d] = command[d]
        BY <1>7, <1>9, <2>1, <3>2
      <4>2. PICK g \in DOMAIN folders : g = command[d].folder
        BY <4>1, FolderOf DEF At
      <4>3. folders[g].phase \in {"made", "open"} /\ ("early" \notin met => folders[g].phase = "open")
        BY <4>1, <4>2 DEF JsonInv, PlacesInStep
      <4>4. folders'[g].phase = folders[g].phase
        BY <1>2, <1>3, <1>4, <4>3
      <4> QED
        BY <1>8, <4>1, <4>2, <4>3, <4>4
    <3> QED
      BY <3>1, <3>2
  <2>2. ASSUME NEW d \in Commands
        PROVE  /\ At(d, {"stat", "statted"})' => command'[d].op \in {"insert", "update", "load"}
               /\ At(d, {"opening", "opened", "written"})' => command'[d].op \in {"insert", "update"}
               /\ At(d, {"reading", "read"})' => command'[d].op = "load"
               /\ At(d, {"unlinking", "unlinked"})' => command'[d].op = "delete"
               /\ At(d, {"missed", "asking", "asked"})' => command'[d].op \in {"insert", "another"}
               /\ At(d, {"asking", "asked", "waiting", "entered", "unlinking", "unlinked"})' => command'[d].folder # 0
    <3>1. CASE d = c
      <4>1. q.folder # 0
        BY <1>5, <1>6
      <4>2. At(c, {"missed", "asking", "asked"})' => q.op \in {"insert", "another"}
        BY <1>6, <1>7 DEF At
      <4> QED
        BY <1>7, <1>9, <3>1, <4>1, <4>2
    <3>2. CASE d # c
      BY <1>7, <1>9, <3>2 DEF JsonInv, PlacesInStep
    <3> QED
      BY <3>1, <3>2
  <2> QED
    BY <2>1, <2>2 DEF PlacesInStep
<1>12. DatesInStep'
  BY <1>7, <1>9 DEF JsonInv, DatesInStep
<1>13. WriterAlone'
  <2> SUFFICES ASSUME "writes" \notin met PROVE WriterAlone'
    BY <1>8 DEF WriterAlone
  <2>1. ~At(c, {"opened"})' /\ ~At(c, {"written"})' /\ ~At(c, {"unlinked"})' /\ ~At(c, {"opened", "written", "unlinked"})
    BY <1>9
  <2> QED
    BY <1>7, <1>9, <2>1 DEF JsonInv, WriterAlone, At
<1>14. FolderKept'
  <2> SUFFICES ASSUME met \intersect {"writes", "folders"} = {} PROVE FolderKept'
    BY <1>8 DEF FolderKept
  <2>1. FolderKept
    BY DEF JsonInv
  <2>2. \A d \in Commands :
         command'[d].op # "load" /\ (At(d, {"asking", "asked", "waiting", "entered"})' \/ Writing(d)') =>
           command'[d].folder = store
    BY <1>1, <1>6, <1>7, <1>9, <2>1 DEF FolderKept
  <2>3. \A d \in Commands : command'[d].op = "insert" /\ At(d, {"stat", "statted", "opening"})' => onDisk = Absent
    <3>1. ~At(c, {"stat", "statted", "opening"})'
      BY <1>9
    <3> QED
      BY <1>7, <1>9, <2>1, <3>1 DEF FolderKept
  <2>4. /\ new.phase \in {"known", "making", "listing"} <=> old.phase \in {"known", "making", "listing"}
        /\ new.phase = "making" <=> old.phase = "making"
        /\ new.phase \in {"known", "listing"} <=> old.phase \in {"known", "listing"}
        /\ new.phase \in {"made", "open"} <=> old.phase \in {"made", "open"}
    BY <1>3
  <2> QED
    BY <1>1, <1>2, <1>3, <1>4, <1>9, <2>1, <2>2, <2>3, <2>4 DEF FolderKept
<1>15. KnownKept'
  <2> SUFFICES ASSUME ~ended, met \intersect {"writes", "folders", "early"} = {}, met' \intersect {"writes", "folders", "early"} = {}
               PROVE  KnownKept'
    BY <1>8 DEF KnownKept
  <2>1. KnownKept
    BY DEF JsonInv
  <2>2. ~At(c, {"stat", "statted", "opening", "unlinking"})' /\ ~At(c, {"stat", "statted"})' /\ ~At(c, {"statted"})'
    BY <1>9
  <2>3. (new.phase = "making" <=> old.phase = "making") /\ (new.phase = "made" <=> old.phase = "made")
    BY <1>3
  <2> QED
    BY <1>1, <1>2, <1>3, <1>4, <1>7, <1>9, <2>1, <2>2, <2>3 DEF KnownKept
<1>16. NobodyBeside'
  <2> SUFFICES ASSUME met \intersect {"edits", "writes", "reads"} = {} PROVE NobodyBeside'
    BY <1>8 DEF NobodyBeside
  <2>1. ~At(c, {"statted", "reading", "read"})' /\ ~At(c, {"read"})' /\ ~At(c, {"opened", "written"}) /\ ~At(c, {"opened"})
    BY <1>9
  <2> QED
    BY <1>7, <1>9, <2>1 DEF JsonInv, NobodyBeside
<1> QED
  BY <1>10, <1>11, <1>12, <1>13, <1>14, <1>15, <1>16 DEF JsonInv

\* A folder that is made for a command: an insertion, which the collection
\* keeps it for, or a load.
LEMMA MadeFor ==
  ASSUME JsonInv, NEW c \in Commands, At(c, {"idle", "missed"}), NEW op \in Kinds,
         folders' = Append(folders, NewFolder),
         command' = [command EXCEPT ![c] = [command[c] EXCEPT !.op = op, !.at = "waiting", !.folder = Len(folders) + 1]]
  PROVE  /\ folders' \in Seq(FolderType) /\ Len(folders) \in Nat /\ Len(folders') = Len(folders) + 1
         /\ DOMAIN folders = 1..Len(folders) /\ DOMAIN folders' = 1..(Len(folders) + 1)
         /\ folders'[Len(folders) + 1] = NewFolder /\ \A g \in DOMAIN folders : folders'[g] = folders[g]
         /\ command' \in [Commands -> CommandType] /\ \A d \in Commands : command'[d].folder <= Len(folders')
         /\ command'[c].op = op /\ command'[c].folder = Len(folders) + 1 /\ command'[c].at = "waiting"
         /\ \A d \in Commands : d # c => command'[d] = command[d] /\ \A places : At(d, places)' <=> At(d, places)
         /\ \A places : "waiting" \notin places => ~At(c, places)'
         /\ \A places : places \intersect {"idle", "missed"} = {} => ~At(c, places)
         /\ \A d \in Commands : (Writing(d)' <=> Writing(d)) /\ (Reading(d)' <=> Reading(d))
         /\ ~Writing(c) /\ ~Reading(c) /\ (NothingWritten' <=> NothingWritten)
<1>1. /\ folders' \in Seq(FolderType) /\ Len(folders) \in Nat /\ Len(folders') = Len(folders) + 1
      /\ DOMAIN folders = 1..Len(folders) /\ DOMAIN folders' = 1..(Len(folders) + 1)
      /\ folders'[Len(folders) + 1] = NewFolder /\ \A g \in DOMAIN folders : folders'[g] = folders[g]
  BY FolderMade DEF JsonInv, JsonTypes
<1>2. PICK n \in Nat : n = Len(folders) + 1
  BY <1>1
<1>3. PICK old \in CommandType : old = command[c]
  BY DEF JsonInv, JsonTypes
<1>4. PICK new \in CommandType :
        command' = [command EXCEPT ![c] = new] /\ new.op = op /\ new.folder = n /\ new.at = "waiting"
  <2> DEFINE q == [old EXCEPT !.op = op, !.at = "waiting", !.folder = n]
  <2>1. q \in CommandType /\ q.op = op /\ q.folder = n /\ q.at = "waiting"
    BY DEF CommandType
  <2> QED
    BY <1>2, <1>3, <2>1
<1>5. /\ command' \in [Commands -> CommandType]
      /\ command'[c] = new /\ \A d \in Commands : d # c => command'[d] = command[d]
  BY <1>4, CommandMoves DEF JsonInv, JsonTypes
<1>6. \A d \in Commands : command'[d].folder <= Len(folders')
  <2>1. \A d \in Commands : command[d].folder \in Nat /\ command[d].folder <= Len(folders)
    BY DEF JsonInv, JsonTypes, CommandType
  <2> QED
    BY <1>1, <1>2, <1>4, <1>5, <2>1
<1>7. /\ \A d \in Commands : d # c => \A places : At(d, places)' <=> At(d, places)
      /\ \A places : "waiting" \notin places => ~At(c, places)'
      /\ \A places : places \intersect {"idle", "missed"} = {} => ~At(c, places)
  BY <1>4, <1>5 DEF At
<1>8. ~Writing(c) /\ ~Reading(c) /\ ~Writing(c)' /\ ~Reading(c)'
  BY <1>3, <1>4, <1>5 DEF Writing, Reading, At
<1>9. \A d \in Commands : (Writing(d)' <=> Writing(d)) /\ (Reading(d)' <=> Reading(d))
  BY <1>5, <1>8 DEF Writing, Reading
<1>10. NothingWritten' <=> NothingWritten
  BY <1>9 DEF NothingWritten
<1> QED
  BY <1>1, <1>2, <1>4, <1>5, <1>6, <1>7, <1>8, <1>9, <1>10

\* A folder that is made changes nothing for the other commands.
LEMMA MadeForKeeps ==
  ASSUME JsonInv, NEW c \in Commands, At(c, {"idle", "missed"}), NEW op \in Kinds,
         folders' = Append(folders, NewFolder),
         command' = [command EXCEPT ![c] = [command[c] EXCEPT !.op = op, !.at = "waiting", !.folder = Len(folders) + 1]],
         UNCHANGED <<fresh, onDisk, cached, clock, ended, latest>>, store' \in {store, Len(folders) + 1},
         store' = 0 => store = 0, met' \in {met, met \union {"folders"}}
  PROVE  JsonTypes' /\ PlacesInStep' /\ DatesInStep' /\ WriterAlone' /\ NobodyBeside'
<1>0. /\ folders' \in Seq(FolderType) /\ Len(folders) \in Nat /\ Len(folders') = Len(folders) + 1
      /\ DOMAIN folders = 1..Len(folders) /\ DOMAIN folders' = 1..(Len(folders) + 1)
      /\ folders'[Len(folders) + 1] = NewFolder /\ \A g \in DOMAIN folders : folders'[g] = folders[g]
      /\ command' \in [Commands -> CommandType] /\ \A d \in Commands : command'[d].folder <= Len(folders')
      /\ command'[c].op = op /\ command'[c].folder = Len(folders) + 1 /\ command'[c].at = "waiting"
      /\ \A d \in Commands : d # c => command'[d] = command[d] /\ \A places : At(d, places)' <=> At(d, places)
      /\ \A places : "waiting" \notin places => ~At(c, places)'
      /\ \A places : places \intersect {"idle", "missed"} = {} => ~At(c, places)
      /\ \A d \in Commands : (Writing(d)' <=> Writing(d)) /\ (Reading(d)' <=> Reading(d))
      /\ ~Writing(c) /\ ~Reading(c) /\ (NothingWritten' <=> NothingWritten)
  BY MadeFor
<1>1. JsonTypes'
  <2>1. store' \in Nat /\ store' <= Len(folders')
    BY <1>0 DEF JsonInv, JsonTypes
  <2>2. met' \subseteq {"edits", "writes", "reads", "folders", "early"}
    BY DEF JsonInv, JsonTypes
  <2> QED
    BY <1>0, <2>1, <2>2 DEF JsonInv, JsonTypes
<1>2. PlacesInStep'
  <2>1. ASSUME NEW d \in Commands, At(d, {"entered"})'
        PROVE  /\ folders'[command'[d].folder].phase \in {"made", "open"}
               /\ "early" \notin met' => folders'[command'[d].folder].phase = "open"
    <3>1. d # c /\ At(d, {"entered"}) /\ command'[d] = command[d]
      BY <1>0, <2>1
    <3>2. PICK g \in DOMAIN folders : g = command[d].folder
      BY <3>1, FolderOf DEF At
    <3>3. folders[g].phase \in {"made", "open"} /\ ("early" \notin met => folders[g].phase = "open")
      BY <3>1, <3>2 DEF JsonInv, PlacesInStep
    <3>4. folders'[g] = folders[g]
      BY <1>0, <3>2
    <3> QED
      BY <3>1, <3>2, <3>3, <3>4
  <2>2. ASSUME NEW d \in Commands
        PROVE  /\ At(d, {"stat", "statted"})' => command'[d].op \in {"insert", "update", "load"}
               /\ At(d, {"opening", "opened", "written"})' => command'[d].op \in {"insert", "update"}
               /\ At(d, {"reading", "read"})' => command'[d].op = "load"
               /\ At(d, {"unlinking", "unlinked"})' => command'[d].op = "delete"
               /\ At(d, {"missed", "asking", "asked"})' => command'[d].op \in {"insert", "another"}
               /\ At(d, {"asking", "asked"})' => store' # 0
               /\ At(d, {"asking", "asked", "waiting", "entered", "unlinking", "unlinked"})' => command'[d].folder # 0
    <3>1. CASE d = c
      <4>1. command'[c].folder # 0
        BY <1>0
      <4> QED
        BY <1>0, <3>1, <4>1
    <3>2. CASE d # c
      BY <1>0, <3>2 DEF JsonInv, PlacesInStep
    <3> QED
      BY <3>1, <3>2
  <2> QED
    BY <2>1, <2>2 DEF PlacesInStep
<1>3. DatesInStep'
  <2>1. ASSUME NEW d \in Commands
        PROVE  /\ At(d, {"statted", "reading", "read"})' => command'[d].time <= clock
               /\ At(d, {"read"})' /\ onDisk # Absent /\ onDisk.time <= command'[d].time =>
                    command'[d].content = onDisk.content
    <3>1. CASE d = c
      <4>1. ~At(c, {"statted", "reading", "read"})' /\ ~At(c, {"read"})'
        BY <1>0
      <4> QED
        BY <3>1, <4>1
    <3>2. CASE d # c
      BY <1>0, <3>2 DEF JsonInv, DatesInStep
    <3> QED
      BY <3>1, <3>2
  <2> QED
    BY <2>1 DEF JsonInv, DatesInStep
<1>4. WriterAlone'
  <2>1. ~At(c, {"opened"})' /\ ~At(c, {"written"})' /\ ~At(c, {"unlinked"})' /\ ~At(c, {"opened", "written", "unlinked"})
    BY <1>0
  <2>2. "writes" \in met => "writes" \in met'
    OBVIOUS
  <2> SUFFICES ASSUME "writes" \notin met PROVE WriterAlone'
    BY <2>2 DEF WriterAlone
  <2>3. WriterAlone
    BY DEF JsonInv
  <2>4. \A d, e \in Commands : Writing(d)' /\ Writing(e)' => d = e
    BY <1>0, <2>3 DEF WriterAlone
  <2>5. \A d \in Commands :
         /\ At(d, {"opened"})' => onDisk # Absent /\ onDisk.node = command'[d].node
         /\ At(d, {"written"})' => onDisk # Absent /\ onDisk.content = d
         /\ At(d, {"unlinked"})' => onDisk = Absent
    BY <1>0, <2>1, <2>3 DEF WriterAlone
  <2>6. (\A d \in Commands : ~At(d, {"opened", "written", "unlinked"})') => onDisk.content = latest
    BY <1>0, <2>1, <2>3 DEF WriterAlone
  <2> QED
    BY <2>3, <2>4, <2>5, <2>6 DEF WriterAlone
<1>5. NobodyBeside'
  <2> SUFFICES ASSUME met' \intersect {"edits", "writes", "reads"} = {} PROVE NobodyBeside'
    BY DEF NobodyBeside
  <2>1. ~At(c, {"statted", "reading", "read"})' /\ ~At(c, {"read"})' /\ ~At(c, {"opened", "written"}) /\ ~At(c, {"opened"})
    BY <1>0
  <2>2. met \intersect {"edits", "writes", "reads"} = {}
    OBVIOUS
  <2> QED
    BY <1>0, <2>1, <2>2 DEF JsonInv, NobodyBeside
<1> QED
  BY <1>1, <1>2, <1>3, <1>4, <1>5

\* An insertion makes the folder of the collection.
LEMMA CreateFolderKeeps ==
  ASSUME JsonInv, NEW c \in Commands, CreateFolder(c)
  PROVE  JsonInv'
<1>1. PICK old \in CommandType : old = command[c]
  BY DEF JsonInv, JsonTypes
<1>2. /\ old.at = "missed" /\ old.op \in {"insert", "another"} /\ At(c, {"idle", "missed"}) /\ old.op \in Kinds
      /\ UNCHANGED <<fresh, onDisk, cached, clock, ended, latest>>
      /\ folders' = Append(folders, NewFolder) /\ store' = Len(folders) + 1
      /\ met' = IF store # 0 THEN met \union {"folders"} ELSE met
  BY <1>1 DEF CreateFolder, Missed, JsonInv, PlacesInStep, At, CommandType
<1>3. command' = [command EXCEPT ![c] = [command[c] EXCEPT !.op = old.op, !.at = "waiting", !.folder = Len(folders) + 1]]
  <2>1. command' = [command EXCEPT ![c].at = "waiting", ![c].folder = Len(folders) + 1]
    BY DEF CreateFolder
  <2>2. PICK n : n = Len(folders) + 1
    OBVIOUS
  <2>3. [old EXCEPT !.op = old.op, !.at = "waiting", !.folder = n] = [old EXCEPT !.at = "waiting", !.folder = n]
    BY DEF CommandType
  <2> QED
    BY <1>1, <2>1, <2>2, <2>3 DEF JsonInv, JsonTypes
<1>4. Len(folders) \in Nat /\ store' # 0
  BY <1>2, LenProperties DEF JsonInv, JsonTypes
<1> DEFINE op == old.op
<1>5. op \in Kinds /\ op # "load"
  BY <1>2
<1> HIDE DEF op
<1>6. /\ folders'[Len(folders) + 1] = NewFolder
      /\ command'[c].op = op /\ command'[c].folder = Len(folders) + 1 /\ command'[c].at = "waiting"
      /\ \A d \in Commands : d # c => command'[d] = command[d] /\ \A places : At(d, places)' <=> At(d, places)
      /\ \A places : "waiting" \notin places => ~At(c, places)'
      /\ \A d \in Commands : Writing(d)' <=> Writing(d)
      /\ ~Writing(c) /\ (NothingWritten' <=> NothingWritten)
  <2>1. command' = [command EXCEPT ![c] = [command[c] EXCEPT !.op = op, !.at = "waiting", !.folder = Len(folders) + 1]]
    BY <1>3 DEF op
  <2>2. At(c, {"idle", "missed"}) /\ folders' = Append(folders, NewFolder)
    BY <1>2
  <2> QED
    BY <1>5, <2>1, <2>2, MadeFor
<1>7. JsonTypes' /\ PlacesInStep' /\ DatesInStep' /\ WriterAlone' /\ NobodyBeside'
  <2>1. command' = [command EXCEPT ![c] = [command[c] EXCEPT !.op = op, !.at = "waiting", !.folder = Len(folders) + 1]]
    BY <1>3 DEF op
  <2>2. /\ At(c, {"idle", "missed"}) /\ folders' = Append(folders, NewFolder)
        /\ UNCHANGED <<fresh, onDisk, cached, clock, ended, latest>>
        /\ store' \in {store, Len(folders) + 1} /\ (store' = 0 => store = 0) /\ met' \in {met, met \union {"folders"}}
    BY <1>2, <1>4
  <2> QED
    BY <1>5, <2>1, <2>2, MadeForKeeps
<1>8. ASSUME met' \intersect {"writes", "folders"} = {}
      PROVE  /\ store = 0 /\ met' = met /\ onDisk = Absent /\ NothingWritten
             /\ \A d \in Commands : command[d].op # "load" => ~At(d, {"asking", "asked", "waiting", "entered"}) /\ ~Writing(d)
             /\ folders'[store'] = NewFolder /\ NewFolder.phase = "making" /\ NewFolder.listed = "not yet" /\ NewFolder.entry = "none"
  <2>1. store = 0 /\ met' = met
    BY <1>2, <1>8
  <2>2. FolderKept /\ met \intersect {"writes", "folders"} = {}
    BY <1>8, <2>1 DEF JsonInv
  <2>3. \A d \in Commands : command[d].op # "load" => ~At(d, {"asking", "asked", "waiting", "entered"}) /\ ~Writing(d)
    BY <2>1, <2>2 DEF FolderKept
  <2>4. NothingWritten
    BY <2>3 DEF NothingWritten, Writing, Writes
  <2> QED
    BY <1>2, <1>6, <2>1, <2>2, <2>3, <2>4, JsonConstants DEF FolderKept
<1>9. FolderKept'
  <2> SUFFICES ASSUME met' \intersect {"writes", "folders"} = {} PROVE FolderKept'
    BY DEF FolderKept
  <2>1. \A d \in Commands :
         command'[d].op # "load" /\ (At(d, {"asking", "asked", "waiting", "entered"})' \/ Writing(d)') =>
           command'[d].folder = store'
    BY <1>2, <1>6, <1>8
  <2> QED
    BY <1>2, <1>4, <1>6, <1>8, <2>1 DEF FolderKept
<1>10. KnownKept'
  <2> SUFFICES ASSUME ~ended, met' \intersect {"writes", "folders", "early"} = {} PROVE KnownKept'
    BY <1>2 DEF KnownKept
  <2>1. KnownKept /\ met \intersect {"writes", "folders", "early"} = {} /\ met' \intersect {"writes", "folders"} = {}
    BY <1>2 DEF JsonInv
  <2>2. ~At(c, {"stat", "statted", "opening", "unlinking"})' /\ ~At(c, {"stat", "statted"})' /\ ~At(c, {"statted"})'
    BY <1>6
  <2> QED
    BY <1>2, <1>6, <1>8, <2>1, <2>2 DEF KnownKept
<1> QED
  BY <1>7, <1>9, <1>10 DEF JsonInv

\* A load makes a folder of its own.
LEMMA LoadMakes ==
  ASSUME JsonInv, NEW c \in Commands, At(c, {"idle"}), store = 0, folders' = Append(folders, NewFolder),
         command' = [command EXCEPT ![c].op = "load", ![c].at = "waiting", ![c].folder = Len(folders) + 1],
         UNCHANGED <<store, fresh, onDisk, cached, clock, ended, latest, met>>
  PROVE  JsonInv'
<1>1. command' = [command EXCEPT ![c] = [command[c] EXCEPT !.op = "load", !.at = "waiting", !.folder = Len(folders) + 1]]
  BY DEF JsonInv, JsonTypes
<1>2. At(c, {"idle", "missed"}) /\ "load" \in Kinds
  BY DEF At, Kinds
<1>3. /\ command'[c].op = "load"
      /\ \A d \in Commands : d # c => command'[d] = command[d] /\ \A places : At(d, places)' <=> At(d, places)
      /\ \A places : "waiting" \notin places => ~At(c, places)'
      /\ \A d \in Commands : Writing(d)' <=> Writing(d)
      /\ ~Writing(c) /\ (NothingWritten' <=> NothingWritten)
  BY <1>1, <1>2, MadeFor
<1>4. JsonTypes' /\ PlacesInStep' /\ DatesInStep' /\ WriterAlone' /\ NobodyBeside'
  <2>1. store' \in {store, Len(folders) + 1} /\ (store' = 0 => store = 0) /\ met' \in {met, met \union {"folders"}}
    OBVIOUS
  <2> QED
    BY <1>1, <1>2, <2>1, MadeForKeeps
<1>5. FolderKept'
  <2> SUFFICES ASSUME met \intersect {"writes", "folders"} = {} PROVE FolderKept'
    BY DEF FolderKept
  <2>1. \A d \in Commands :
         command'[d].op # "load" /\ (At(d, {"asking", "asked", "waiting", "entered"})' \/ Writing(d)') => FALSE
    BY <1>3 DEF JsonInv, FolderKept
  <2>2. \A d \in Commands : command'[d].op = "insert" /\ At(d, {"stat", "statted", "opening"})' => onDisk = Absent
    BY DEF JsonInv, FolderKept
  <2> QED
    BY <2>1, <2>2 DEF JsonInv, FolderKept
<1>6. KnownKept'
  <2> SUFFICES ASSUME ~ended, met \intersect {"writes", "folders", "early"} = {} PROVE KnownKept'
    BY DEF KnownKept
  <2>1. ~At(c, {"stat", "statted", "opening", "unlinking"})' /\ ~At(c, {"stat", "statted"})' /\ ~At(c, {"statted"})'
    BY <1>3
  <2> QED
    BY <1>3, <2>1 DEF JsonInv, KnownKept
<1> QED
  BY <1>4, <1>5, <1>6 DEF JsonInv

\* An insertion finds no folder.
LEMMA FindsNoFolder ==
  ASSUME JsonInv, NEW c \in Commands, At(c, {"idle"}), NEW op \in {"insert", "another"},
         command' = [command EXCEPT ![c].op = op, ![c].at = "missed"],
         UNCHANGED <<store, folders, fresh, onDisk, cached, clock, ended, latest, met>>
  PROVE  JsonInv'
<1>1. PICK old \in CommandType : old = command[c]
  BY DEF JsonInv, JsonTypes
<1>2. PICK new \in CommandType :
        command' = [command EXCEPT ![c] = new] /\ new.op = op /\ new.at = "missed" /\ new.folder = old.folder
  <2> DEFINE q == [old EXCEPT !.op = op, !.at = "missed"]
  <2>1. q \in CommandType /\ q.op = op /\ q.at = "missed" /\ q.folder = old.folder
    BY DEF CommandType, Kinds, Writes
  <2>2. command' = [command EXCEPT ![c] = q]
    BY <1>1 DEF JsonInv, JsonTypes
  <2> QED
    BY <2>1, <2>2
<1>3. /\ command' \in [Commands -> CommandType]
      /\ command'[c] = new /\ \A d \in Commands : d # c => command'[d] = command[d]
  BY <1>2, CommandMoves DEF JsonInv, JsonTypes
<1>4. /\ \A d \in Commands : d # c => \A places : At(d, places)' <=> At(d, places)
      /\ \A places : "missed" \notin places => ~At(c, places)'
      /\ \A places : "idle" \notin places => ~At(c, places)
  BY <1>2, <1>3 DEF At
<1>5. ~Writing(c) /\ ~Reading(c) /\ ~Writing(c)' /\ ~Reading(c)'
  BY <1>2, <1>3 DEF Writing, Reading, At
<1>6. /\ \A d \in Commands : (Writing(d)' <=> Writing(d)) /\ (Reading(d)' <=> Reading(d))
      /\ NothingWritten' <=> NothingWritten
  BY <1>3, <1>5 DEF Writing, Reading, NothingWritten
<1>7. JsonTypes'
  BY <1>1, <1>2, <1>3 DEF JsonInv, JsonTypes
<1>8. PlacesInStep'
  <2>1. At(c, {"missed", "asking", "asked"})' => new.op \in {"insert", "another"}
    BY <1>2
  <2> QED
    BY <1>3, <1>4, <2>1 DEF JsonInv, PlacesInStep
<1>9. DatesInStep'
  BY <1>3, <1>4 DEF JsonInv, DatesInStep
<1>10. FolderKept'
  <2> SUFFICES ASSUME met \intersect {"writes", "folders"} = {} PROVE FolderKept'
    BY DEF FolderKept
  <2>1. FolderKept
    BY DEF JsonInv
  <2>2. ~At(c, {"asking", "asked", "waiting", "entered"})' /\ ~At(c, {"stat", "statted", "opening"})'
    BY <1>4
  <2>3. \A d \in Commands :
         command'[d].op # "load" /\ (At(d, {"asking", "asked", "waiting", "entered"})' \/ Writing(d)') =>
           store # 0 /\ command'[d].folder = store
    BY <1>3, <1>4, <1>5, <1>6, <2>1, <2>2 DEF FolderKept
  <2>4. \A d \in Commands : command'[d].op = "insert" /\ At(d, {"stat", "statted", "opening"})' => onDisk = Absent
    BY <1>3, <1>4, <2>1, <2>2 DEF FolderKept
  <2> QED
    BY <1>6, <2>1, <2>3, <2>4 DEF FolderKept
<1>11. WriterAlone' /\ NobodyBeside'
  BY <1>3, <1>4, <1>6 DEF JsonInv, WriterAlone, NobodyBeside
<1>12. KnownKept'
  BY <1>3, <1>4, <1>6 DEF JsonInv, KnownKept
<1> QED
  BY <1>7, <1>8, <1>9, <1>10, <1>11, <1>12 DEF JsonInv

\* A command is called.
LEMMA CallKeeps ==
  ASSUME JsonInv, NEW c \in Commands, NEW op \in Kinds, Call(c, op)
  PROVE  JsonInv'
<1>1. command[c].at = "idle" /\ UNCHANGED <<store, fresh, onDisk, cached, clock, ended, latest>>
  BY DEF Call
<1>2. At(c, {"idle"}) /\ At(c, {"idle", "asking", "asked"}) /\ ~At(c, {"opened", "written", "unlinked"}) /\ ~Writing(c)
  BY <1>1 DEF At, Writing
<1>3. CASE store # 0
  <2>1. CASE op \in {"insert", "another"}
    <3>1. Awaits(c, op, store, "asking", "asked")
      BY <1>3, <2>1 DEF Call
    <3> QED
      BY <1>1, <1>2, <1>3, <2>1, <3>1, AwaitsKeeps
  <2>2. CASE op \notin {"insert", "another"}
    <3>1. Awaits(c, op, store, "waiting", "entered")
      BY <1>3, <2>2 DEF Call
    <3> QED
      BY <1>1, <1>2, <1>3, <2>2, <3>1, AwaitsKeeps
  <2> QED
    BY <2>1, <2>2
<1>4. CASE store = 0
  <2>1. UNCHANGED met
    BY <1>4 DEF Call
  <2>2. CASE op \in {"insert", "another"} /\ UNCHANGED folders /\ command' = [command EXCEPT ![c].op = op, ![c].at = "missed"]
    BY <1>1, <1>2, <2>1, <2>2, FindsNoFolder
  <2>3. CASE command' = Done(c) /\ UNCHANGED folders
    BY <1>1, <1>2, <2>1, <2>3, EndsQuietly
  <2>4. CASE /\ folders' = Append(folders, NewFolder)
             /\ command' = [command EXCEPT ![c].op = "load", ![c].at = "waiting", ![c].folder = Len(folders) + 1]
    BY <1>1, <1>2, <1>4, <2>1, <2>4, LoadMakes
  <2> QED
    BY <1>4, <2>2, <2>3, <2>4 DEF Call
<1> QED
  BY <1>3, <1>4

\* An insertion takes the folder that is there by now.
LEMMA AsksAgainKeeps ==
  ASSUME JsonInv, NEW c \in Commands, AsksAgain(c)
  PROVE  JsonInv'
<1>1. At(c, {"asking", "asked"}) /\ At(c, {"idle", "asking", "asked"})
  BY DEF AsksAgain, Asked, At
<1>2. store # 0 /\ command[c].op \in Kinds
  BY <1>1 DEF JsonInv, PlacesInStep, JsonTypes, CommandType
<1>3. Awaits(c, command[c].op, store, "waiting", "entered") /\ UNCHANGED <<store, fresh, onDisk, cached, clock, ended, latest>>
  BY DEF AsksAgain
<1> QED
  BY <1>1, <1>2, <1>3, AwaitsKeeps

\* A command that waited for its folder finds it made, or listed.
LEMMA HasMadeFolder ==
  ASSUME JsonInv, NEW c \in Commands, HasFolder(c)
  PROVE  /\ At(c, {"waiting", "entered"}) /\ command[c].folder \in DOMAIN folders
         /\ folders[command[c].folder].phase \in {"made", "open"}
         /\ "early" \notin met => folders[command[c].folder].phase = "open"
<1>1. At(c, {"waiting", "entered"}) /\ At(c, {"asking", "asked", "waiting", "entered", "unlinking", "unlinked"})
  BY DEF HasFolder, At
<1>2. command[c].folder \in DOMAIN folders
  BY <1>1, FolderOf
<1>3. CASE command[c].at = "entered"
  BY <1>1, <1>2, <1>3 DEF JsonInv, PlacesInStep, At
<1>4. CASE command[c].at = "waiting"
  BY <1>1, <1>2, <1>4 DEF HasFolder, PhaseOf
<1> QED
  BY <1>1, <1>3, <1>4 DEF At

\* A command looks for the record in its folder, and goes on.
LEMMA FindsKeeps ==
  ASSUME JsonInv, NEW c \in Commands, Looks(c), NEW op \in Kinds, op = command[c].op,
         NEW f \in DOMAIN folders, f = command[c].folder, op # "another", (op = "insert") <=> (folders[f].entry = "none")
  PROVE  JsonInv'
<1>1. PICK old \in CommandType : old = command[c]
  BY DEF JsonInv, JsonTypes
<1>2. PICK here \in FolderType : here = folders[f]
  BY DEF JsonInv, JsonTypes
<1>3. /\ At(c, {"waiting", "entered"}) /\ here.phase \in {"made", "open"} /\ ("early" \notin met => here.phase = "open")
      /\ f \in Nat /\ f # 0 /\ f <= Len(folders) /\ Len(folders) \in Nat /\ old.op = op /\ old.folder = f
  <2>1. HasFolder(c)
    BY DEF Looks
  <2>2. DOMAIN folders = 1..Len(folders) /\ Len(folders) \in Nat
    BY LenProperties DEF JsonInv, JsonTypes
  <2> QED
    BY <1>1, <1>2, <2>1, <2>2, HasMadeFolder
<1>4. /\ folders' = IF op = "insert" THEN [folders EXCEPT ![f].entry = c] ELSE folders
      /\ fresh' = IF op = "insert" THEN fresh \union {c} ELSE fresh
      /\ command' = [command EXCEPT ![c].at = IF op = "delete" THEN "unlinking" ELSE "stat",
                                    ![c].entry = folders'[f].entry, ![c].isNew = folders'[f].entry \in fresh']
      /\ met' = met \union {w \in {"writes"} : op # "load" /\ \E d \in Commands \ {c} : Writing(d)}
                    \union {r \in {"reads"} : \E d \in Commands \ {c} :
                              (op = "load" /\ Writing(d)) \/ (op # "load" /\ Reading(d))}
      /\ UNCHANGED <<store, onDisk, cached, clock, ended, latest>>
  BY DEF Looks
<1>5. PICK there \in FolderType :
        /\ there.phase = here.phase /\ there.listed = here.listed
        /\ there.entry = IF op = "insert" THEN c ELSE here.entry
        /\ folders' \in Seq(FolderType) /\ Len(folders') = Len(folders) /\ DOMAIN folders' = DOMAIN folders
        /\ folders'[f] = there /\ \A g \in DOMAIN folders : g # f => folders'[g] = folders[g]
  <2>1. CASE op = "insert"
    <3> DEFINE q == [here EXCEPT !.entry = c]
    <3>1. q \in FolderType /\ q.phase = here.phase /\ q.listed = here.listed /\ q.entry = c
      BY JsonConstants DEF FolderType
    <3>2. folders' = [folders EXCEPT ![f] = q]
      BY <1>2, <1>4, <2>1
    <3>3. /\ folders' \in Seq(FolderType) /\ Len(folders') = Len(folders) /\ DOMAIN folders' = DOMAIN folders
          /\ folders'[f] = q /\ \A g \in DOMAIN folders : g # f => folders'[g] = folders[g]
      BY <3>1, <3>2, FolderChanges DEF JsonInv, JsonTypes
    <3> HIDE DEF q
    <3> QED
      BY <2>1, <3>1, <3>3
  <2>2. CASE op # "insert"
    BY <1>2, <1>4, <2>2 DEF JsonInv, JsonTypes
  <2> QED
    BY <2>1, <2>2
<1>6. PICK new \in CommandType :
        /\ command' = [command EXCEPT ![c] = new] /\ new.op = op /\ new.folder = f
        /\ new.at = (IF op = "delete" THEN "unlinking" ELSE "stat") /\ (op = "insert" => new.isNew)
  <2> DEFINE a == IF op = "delete" THEN "unlinking" ELSE "stat"
             n == there.entry \in fresh'
             q == [old EXCEPT !.at = a, !.entry = there.entry, !.isNew = n]
  <2>1. a \in {"unlinking", "stat"} /\ n \in BOOLEAN /\ there.entry \in EntryType
    <3>1. a \in {"unlinking", "stat"}
      OBVIOUS
    <3>2. n \in BOOLEAN
      OBVIOUS
    <3>3. there.entry \in EntryType
      BY DEF FolderType
    <3> QED
      BY <3>1, <3>2, <3>3, Zenon
  <2>2. op = "insert" => n
    BY <1>4, <1>5
  <2>3. command' = [command EXCEPT ![c] = q]
    <3>1. command' = [command EXCEPT ![c].at = a, ![c].entry = folders'[f].entry, ![c].isNew = folders'[f].entry \in fresh']
      BY <1>4, Zenon
    <3>2. command' = [command EXCEPT ![c].at = a, ![c].entry = there.entry, ![c].isNew = n]
      BY <1>5, <3>1, Zenon
    <3> HIDE DEF a, n
    <3> QED
      BY <1>1, <3>2 DEF JsonInv, JsonTypes
  <2> HIDE DEF a, n
  <2>4. q \in CommandType /\ q.op = old.op /\ q.folder = old.folder /\ q.at = a /\ q.isNew = n
    BY <2>1 DEF CommandType
  <2> QED
    BY <1>3, <2>2, <2>3, <2>4 DEF a
<1>7. /\ command' \in [Commands -> CommandType]
      /\ command'[c] = new /\ \A d \in Commands : d # c => command'[d] = command[d]
  BY <1>6, CommandMoves DEF JsonInv, JsonTypes
<1>8. /\ \A d \in Commands : d # c => \A places : At(d, places)' <=> At(d, places)
      /\ \A places : places \intersect {"stat", "unlinking"} = {} => ~At(c, places)'
      /\ \A places : places \intersect {"waiting", "entered"} = {} => ~At(c, places)
  BY <1>3, <1>6, <1>7 DEF At
<1>9. /\ ~Writing(c) /\ ~Reading(c) /\ (Writing(c)' <=> op # "load") /\ (Reading(c)' <=> op = "load")
      /\ \A d \in Commands : d # c => (Writing(d)' <=> Writing(d)) /\ (Reading(d)' <=> Reading(d))
  BY <1>3, <1>6, <1>7 DEF Writing, Reading, At, Kinds, Writes
<1>10. /\ met \subseteq met' /\ met' \subseteq met \union {"writes", "reads"}
       /\ "writes" \notin met' /\ op # "load" => NothingWritten
       /\ "reads" \notin met' /\ op # "load" => \A d \in Commands : ~Reading(d)
       /\ "reads" \notin met' /\ op = "load" => NothingWritten
  BY <1>4, <1>9 DEF NothingWritten
<1>11. JsonTypes'
  <2>1. fresh' \subseteq Commands
    BY <1>4 DEF JsonInv, JsonTypes
  <2>2. met' \subseteq {"edits", "writes", "reads", "folders", "early"}
    BY <1>10 DEF JsonInv, JsonTypes
  <2>3. \A d \in Commands : command'[d].folder <= Len(folders')
    BY <1>3, <1>5, <1>6, <1>7 DEF JsonInv, JsonTypes
  <2> QED
    BY <1>4, <1>5, <1>7, <2>1, <2>2, <2>3 DEF JsonInv, JsonTypes
<1>12. PlacesInStep'
  <2>1. ASSUME NEW d \in Commands, At(d, {"entered"})'
        PROVE  /\ folders'[command'[d].folder].phase \in {"made", "open"}
               /\ "early" \notin met' => folders'[command'[d].folder].phase = "open"
    <3>1. d # c /\ At(d, {"entered"}) /\ command'[d] = command[d]
      BY <1>7, <1>8, <2>1
    <3>2. PICK g \in DOMAIN folders : g = command[d].folder
      BY <3>1, FolderOf DEF At
    <3>3. folders[g].phase \in {"made", "open"} /\ ("early" \notin met => folders[g].phase = "open")
      BY <3>1, <3>2 DEF JsonInv, PlacesInStep
    <3>4. folders'[g].phase = folders[g].phase
      BY <1>2, <1>5
    <3> QED
      BY <1>10, <3>1, <3>2, <3>3, <3>4
  <2>2. ASSUME NEW d \in Commands
        PROVE  /\ At(d, {"stat", "statted"})' => command'[d].op \in {"insert", "update", "load"}
               /\ At(d, {"opening", "opened", "written"})' => command'[d].op \in {"insert", "update"}
               /\ At(d, {"reading", "read"})' => command'[d].op = "load"
               /\ At(d, {"unlinking", "unlinked"})' => command'[d].op = "delete"
               /\ At(d, {"missed", "asking", "asked"})' => command'[d].op \in {"insert", "another"}
               /\ At(d, {"asking", "asked"})' => store' # 0
               /\ At(d, {"asking", "asked", "waiting", "entered", "unlinking", "unlinked"})' => command'[d].folder # 0
    <3>1. CASE d = c
      <4>1. At(c, {"stat", "statted"})' => new.op \in {"insert", "update", "load"}
        BY <1>6, <1>7 DEF At, Kinds, Writes
      <4>2. At(c, {"unlinking", "unlinked"})' => new.op = "delete"
        BY <1>6, <1>7 DEF At
      <4> QED
        BY <1>3, <1>6, <1>7, <1>8, <3>1, <4>1, <4>2
    <3>2. CASE d # c
      BY <1>4, <1>7, <1>8, <3>2 DEF JsonInv, PlacesInStep
    <3> QED
      BY <3>1, <3>2
  <2> QED
    BY <2>1, <2>2 DEF PlacesInStep
<1>13. DatesInStep'
  <2>1. ~At(c, {"statted", "reading", "read"})' /\ ~At(c, {"read"})'
    BY <1>8
  <2> QED
    BY <1>4, <1>7, <1>8, <2>1 DEF JsonInv, DatesInStep
<1>14. WriterAlone'
  <2> SUFFICES ASSUME "writes" \notin met, "writes" \notin met' PROVE WriterAlone'
    BY <1>10 DEF WriterAlone
  <2>1. WriterAlone
    BY DEF JsonInv
  <2>2. ~At(c, {"opened"})' /\ ~At(c, {"written"})' /\ ~At(c, {"unlinked"})' /\ ~At(c, {"opened", "written", "unlinked"})
    BY <1>8
  <2>3. \A d, e \in Commands : Writing(d)' /\ Writing(e)' => d = e
    BY <1>9, <1>10, <2>1 DEF WriterAlone, NothingWritten
  <2>4. \A d \in Commands :
         /\ At(d, {"opened"})' => onDisk # Absent /\ onDisk.node = command'[d].node
         /\ At(d, {"written"})' => onDisk # Absent /\ onDisk.content = d
         /\ At(d, {"unlinked"})' => onDisk = Absent
    BY <1>7, <1>8, <2>1, <2>2 DEF WriterAlone
  <2>5. (\A d \in Commands : ~At(d, {"opened", "written", "unlinked"})') => onDisk.content = latest
    BY <1>8, <2>1, <2>2 DEF WriterAlone
  <2> QED
    BY <1>4, <2>1, <2>3, <2>4, <2>5 DEF WriterAlone
<1>15. FolderKept'
  <2> SUFFICES ASSUME met' \intersect {"writes", "folders"} = {} PROVE FolderKept'
    BY DEF FolderKept
  <2>1. FolderKept /\ met \intersect {"writes", "folders"} = {}
    BY <1>10 DEF JsonInv
  <2>2. CASE op = "load"
    <3>1. folders' = folders /\ (NothingWritten' <=> NothingWritten)
      BY <1>4, <1>9, <2>2 DEF NothingWritten
    <3>2. \A d \in Commands :
           command'[d].op # "load" /\ (At(d, {"asking", "asked", "waiting", "entered"})' \/ Writing(d)') =>
             store # 0 /\ command'[d].folder = store
      BY <1>6, <1>7, <1>8, <1>9, <2>1, <2>2 DEF FolderKept
    <3>3. \A d \in Commands : command'[d].op = "insert" /\ At(d, {"stat", "statted", "opening"})' => onDisk = Absent
      BY <1>6, <1>7, <1>8, <2>1, <2>2 DEF FolderKept
    <3> QED
      BY <1>4, <2>1, <3>1, <3>2, <3>3 DEF FolderKept
  <2>3. CASE op # "load"
    <3>1. NothingWritten /\ store # 0 /\ f = store
      <4>1. At(c, {"asking", "asked", "waiting", "entered"})
        BY <1>3 DEF At
      <4> QED
        BY <1>10, <2>1, <2>3, <4>1 DEF FolderKept
    <3>2. op = "insert" => onDisk = Absent
      BY <1>2, <1>3, <2>1, <3>1 DEF FolderKept
    <3>3. there.entry # "none" /\ there.phase \in {"made", "open"}
      BY <1>2, <1>3, <1>5, JsonConstants
    <3>4. \A d \in Commands :
           command'[d].op # "load" /\ (At(d, {"asking", "asked", "waiting", "entered"})' \/ Writing(d)') =>
             store # 0 /\ command'[d].folder = store
      BY <1>6, <1>7, <1>8, <1>9, <2>1, <3>1 DEF FolderKept
    <3>5. \A d \in Commands : command'[d].op = "insert" /\ At(d, {"stat", "statted", "opening"})' => onDisk = Absent
      BY <1>6, <1>7, <1>8, <2>1, <3>2 DEF FolderKept
    <3> QED
      BY <1>4, <1>5, <3>1, <3>3, <3>4, <3>5 DEF FolderKept
  <2> QED
    BY <2>2, <2>3
<1>16. KnownKept'
  <2> SUFFICES ASSUME ~ended, met' \intersect {"writes", "folders", "early"} = {} PROVE KnownKept'
    BY <1>4 DEF KnownKept
  <2>1. KnownKept /\ FolderKept /\ met \intersect {"writes", "folders", "early"} = {} /\ met' \intersect {"writes", "folders"} = {}
    BY <1>10 DEF JsonInv
  <2>2. \A d \in Commands : d # c =>
         /\ command'[d].op \in {"update", "delete"} /\ At(d, {"stat", "statted", "opening", "unlinking"})' => onDisk # Absent
         /\ command'[d].op = "insert" /\ At(d, {"stat", "statted"})' => command'[d].isNew
         /\ command'[d].op = "update" /\ At(d, {"statted"})' => command'[d].time > 0
    BY <1>7, <1>8, <2>1 DEF KnownKept
  <2>3. ~At(c, {"statted"})' /\ (command'[c].op = "insert" => command'[c].isNew)
    BY <1>6, <1>7, <1>8
  <2>4. CASE op = "load"
    <3>1. folders' = folders /\ (NothingWritten' <=> NothingWritten) /\ command'[c].op = "load"
      BY <1>4, <1>6, <1>7, <1>9, <2>4 DEF NothingWritten
    <3> QED
      BY <1>4, <2>1, <2>2, <2>3, <3>1 DEF KnownKept
  <2>5. CASE op # "load"
    <3>1. NothingWritten /\ store # 0 /\ f = store /\ ~NothingWritten'
      <4>1. At(c, {"asking", "asked", "waiting", "entered"})
        BY <1>3 DEF At
      <4>2. ~NothingWritten'
        BY <1>9, <2>5 DEF NothingWritten
      <4> QED
        BY <1>10, <2>1, <2>5, <4>1, <4>2 DEF FolderKept
    <3>2. there.phase = "open"
      BY <1>3, <1>5, <2>1
    <3>3. op \in {"update", "delete"} => onDisk # Absent
      BY <2>1, <3>1 DEF KnownKept
    <3> QED
      BY <1>4, <1>5, <1>6, <1>7, <2>2, <2>3, <3>1, <3>2, <3>3 DEF KnownKept
  <2> QED
    BY <2>4, <2>5
<1>17. NobodyBeside'
  <2> SUFFICES ASSUME met' \intersect {"edits", "writes", "reads"} = {} PROVE NobodyBeside'
    BY DEF NobodyBeside
  <2>1. NobodyBeside /\ met \intersect {"edits", "writes", "reads"} = {}
    BY <1>10 DEF JsonInv
  <2>2. \A d, e \in Commands : Writing(d)' => ~Reading(e)'
    BY <1>9, <1>10, <2>1 DEF NobodyBeside, NothingWritten
  <2>3. ~At(c, {"statted", "reading", "read"})' /\ ~At(c, {"read"})' /\ ~At(c, {"opened", "written"}) /\ ~At(c, {"opened"})
    BY <1>8
  <2>4. \A d \in Commands :
         /\ At(d, {"statted", "reading", "read"})' => command'[d].time = onDisk.time
         /\ At(d, {"read"})' => command'[d].content = onDisk.content
    BY <1>7, <1>8, <2>1, <2>3 DEF NobodyBeside
  <2>5. /\ (\A d \in Commands : ~At(d, {"opened", "written"})') => cached = Unread \/ onDisk.time <= cached.read
        /\ (\A d \in Commands : ~At(d, {"opened"})') => onDisk.content # "cut"
    BY <1>8, <2>1, <2>3 DEF NobodyBeside
  <2> QED
    BY <1>4, <2>1, <2>2, <2>4, <2>5 DEF NobodyBeside
<1> QED
  BY <1>11, <1>12, <1>13, <1>14, <1>15, <1>16, <1>17 DEF JsonInv

\* A command looks for the record in its folder.
LEMMA LooksKeeps ==
  ASSUME JsonInv, NEW c \in Commands, Looks(c)
  PROVE  JsonInv'
<1>1. PICK f \in DOMAIN folders : f = command[c].folder
  BY HasMadeFolder DEF Looks
<1>2. PICK op \in Kinds : op = command[c].op
  BY DEF JsonInv, JsonTypes, CommandType
<1>3. CASE op = "another" \/ ((op = "insert") # (folders[f].entry = "none"))
  <2>1. command' = Done(c) /\ UNCHANGED <<store, folders, fresh, onDisk, cached, clock, ended, latest, met>>
    BY <1>1, <1>2, <1>3 DEF Looks
  <2>2. ~Writing(c) /\ ~At(c, {"opened", "written", "unlinked"})
    BY HasMadeFolder DEF Looks, Writing, At
  <2> QED
    BY <2>1, <2>2, EndsQuietly
<1>4. CASE op # "another" /\ ((op = "insert") <=> (folders[f].entry = "none"))
  BY <1>1, <1>2, <1>4, FindsKeeps
<1> QED
  BY <1>3, <1>4
\* A step of one command, or of one folder.
LEMMA ContinuesKeeps ==
  ASSUME JsonInv, NEW c \in Commands, Continues(c)
  PROVE  JsonInv'
BY CreateFolderKeeps, AsksAgainKeeps, LooksKeeps, StatKeeps, StattedWriteKeeps, StattedReadKeeps, OpenRecordKeeps,
   WriteRecordKeeps, SavedKeeps, ReadRecordKeeps, ParsedKeeps, UnlinkKeeps, UnlinkedKeeps DEF Continues

LEMMA JsonStep == JsonInv /\ [JsonNext]_jsonVars => JsonInv'
<1> SUFFICES ASSUME JsonInv, [JsonNext]_jsonVars PROVE JsonInv'
  OBVIOUS
<1>1. CASE \E c \in Commands, op \in Kinds : Call(c, op)
  BY <1>1, CallKeeps
<1>2. CASE \E c \in Commands : Continues(c)
  BY <1>2, ContinuesKeeps
<1>3. CASE \E f \in DOMAIN folders : Opens(f)
  BY <1>3, MadeFolderKeeps, ReadsFolderKeeps, ListedFolderKeeps DEF Opens
<1>4. CASE Edit
  BY <1>4, EditKeeps
<1>5. CASE UNCHANGED jsonVars
  <2> USE <1>5 DEF jsonVars
  <2>1. \A d \in Commands : (Writing(d)' <=> Writing(d)) /\ (Reading(d)' <=> Reading(d)) /\ \A places : At(d, places)' <=> At(d, places)
    BY DEF Writing, Reading, At
  <2>2. NothingWritten' <=> NothingWritten
    BY <2>1 DEF NothingWritten
  <2>3. JsonTypes' /\ PlacesInStep' /\ DatesInStep'
    BY <2>1 DEF JsonInv, JsonTypes, PlacesInStep, DatesInStep
  <2>4. WriterAlone' /\ FolderKept'
    BY <2>1, <2>2 DEF JsonInv, WriterAlone, FolderKept
  <2>5. KnownKept' /\ NobodyBeside'
    BY <2>1, <2>2 DEF JsonInv, KnownKept, NobodyBeside
  <2> QED
    BY <2>3, <2>4, <2>5 DEF JsonInv
<1> QED
  BY <1>1, <1>2, <1>3, <1>4, <1>5 DEF JsonNext

\* What the invariant says of records and files.
LEMMA JsonInvEnough ==
  ASSUME JsonInv
  PROVE  JsonTypeOK /\ BelievedIsTrue /\ WritesStay /\ InsertsNothingOver /\ KnownIfPresent /\ EndsForAReason
<1>1. DOMAIN folders = 1..Len(folders) /\ Len(folders) \in Nat
  BY LenProperties DEF JsonInv, JsonTypes
<1>2. JsonTypeOK
  <2>1. \A f \in DOMAIN folders : folders[f] \in FolderType
    BY <1>1 DEF JsonInv, JsonTypes
  <2>2. store \in 0..Len(folders)
    BY <1>1 DEF JsonInv, JsonTypes
  <2>3. command \in [Commands ->
       [op : Kinds, folder : 0..Len(folders), entry : Commands \union {"none", "listed"},
        at : {"idle", "missed", "asking", "asked", "waiting", "entered", "stat", "statted", "opening", "opened",
              "written", "reading", "read", "unlinking", "unlinked", "done"},
        isNew : BOOLEAN, time : Nat, node : Nat, content : Contents]]
    <3> DEFINE places == {"idle", "missed", "asking", "asked", "waiting", "entered", "stat", "statted", "opening", "opened",
              "written", "reading", "read", "unlinking", "unlinked", "done"}
               Smaller == [op : Kinds, folder : 0..Len(folders), entry : EntryType, at : places,
                           isNew : BOOLEAN, time : Nat, node : Nat, content : Contents]
    <3>1. ASSUME NEW c \in Commands PROVE command[c] \in Smaller
      <4>1. PICK k \in CommandType : k = command[c]
        BY DEF JsonInv, JsonTypes
      <4>2. k.folder \in 0..Len(folders)
        <5>1. k.folder \in Nat
          BY DEF CommandType
        <5>2. k.folder <= Len(folders)
          BY <4>1 DEF JsonInv, JsonTypes
        <5> QED
          BY <1>1, <5>1, <5>2
      <4>3. k \in Smaller
        <5> HIDE DEF places
        <5>1. k \in [op : Kinds, folder : Nat, entry : EntryType, at : places,
                     isNew : BOOLEAN, time : Nat, node : Nat, content : Contents]
          BY DEF CommandType, places
        <5> QED
          BY <4>2, <5>1
      <4> QED
        BY <4>1, <4>3
    <3>2. DOMAIN command = Commands /\ command = [c \in Commands |-> command[c]]
      BY DEF JsonInv, JsonTypes
    <3> HIDE DEF Smaller
    <3>3. command \in [Commands -> Smaller]
      BY <3>1, <3>2
    <3> QED
      BY <3>3 DEF Smaller, places, EntryType
  <2> QED
    BY <2>1, <2>2, <2>3 DEF JsonInv, JsonTypes, JsonTypeOK, FolderType, EntryType, FileType, KnownType
<1>3. NothingWritten => \A c \in Commands : ~At(c, {"opened", "written", "unlinked"})
  BY DEF JsonInv, PlacesInStep, NothingWritten, Writing, Writes, At
<1>4. BelievedIsTrue /\ WritesStay
  BY <1>3 DEF JsonInv, WriterAlone, BelievedIsTrue, WritesStay
<1>5. InsertsNothingOver
  BY DEF JsonInv, FolderKept, InsertsNothingOver, At
<1>6. KnownIfPresent
  <2> SUFFICES ASSUME ~ended, store # 0, NothingWritten, folders[store].phase = "open",
                      met \intersect {"writes", "folders", "early"} = {}, met \intersect {"writes", "folders"} = {}
               PROVE  (folders[store].entry # "none") <=> (onDisk # Absent)
    BY DEF KnownIfPresent
  <2> QED
    BY DEF JsonInv, FolderKept, KnownKept
<1>7. EndsForAReason
  BY DEF JsonInv, NobodyBeside, EndsForAReason
<1> QED
  BY <1>2, <1>4, <1>5, <1>6, <1>7

\* The commands of a transaction run together on a collection and one of its
\* records (packages/storage/src/providers/file.ts): as long as no two writes
\* did, what is known of the record, if it is no older than the file, is what
\* the file holds, and the file holds what was acknowledged last; an insertion
\* writes over no record, and the collection knows the record exactly when its
\* file is there, as long as it had one folder, that was listed before it was
\* used; and the process only ends if something ran together, or beside the
\* engine.  For any number of commands.
THEOREM RecordsAgree == JsonSpec => []RecordsAreKept
<1>1. JsonInv => RecordsAreKept
  BY JsonInvEnough DEF RecordsAreKept
<1> QED
  BY <1>1, JsonInitInv, JsonStep, PTL DEF JsonSpec
==============================================================================

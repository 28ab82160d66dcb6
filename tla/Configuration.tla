---------------------------- MODULE Configuration ----------------------------
(***************************************************************************)
(* A configuration file and its secrets                                    *)
(* (packages/config/src/configuration.ts).  The values of the              *)
(* configuration are abstracted to its secrets, and a secret to the key    *)
(* that encrypted it: NoKey when it was never set.  A Configuration and    *)
(* those that get() cuts out of it share one cryptKey, through the         *)
(* accessor that get() defines, and one document, so one module stands for *)
(* the whole tree.                                                         *)
(*                                                                         *)
(* Calls are asynchronous functions that run together: a call stands where *)
(* it awaits.                                                              *)
(***************************************************************************)
EXTENDS FiniteSets

CONSTANTS
  Secrets,  \* the names of secrets
  Calls,    \* calls in progress at the same time
  Keys,     \* the keys that may be generated
  NoKey     \* undefined

ASSUME NoKeyIsNoKey == NoKey \notin Keys

VARIABLES
  path,       \* the configuration has a file of its own
  running,    \* the process runs
  secret,     \* the document in memory: the key of each secret
  cryptKey,   \* the field cryptKey
  file,       \* the document in the file
  keyFile,    \* the key in the file beside it, ".key"
  torn,       \* the files of which a write that was cut has left half
  call,       \* where each call awaits, and what it holds
  generated,  \* history: the keys generated so far
  overlap,    \* history: a call needed a key while another was looking for the first one
  lost,       \* history: a crash left secrets in the file whose key was never saved
  misread,    \* history: the key could not be read though it had been saved
  unsaved     \* history: the last write of the key failed

configVars == <<path, running, secret, cryptKey, file, keyFile, torn, call, generated, overlap, lost,
                misread, unsaved>>

MaybeKey == Keys \union {NoKey}
Document == [Secrets -> MaybeKey]
Empty == [s \in Secrets |-> NoKey]
CallType == [at : {"idle", "loading", "loaded", "generating", "encrypting", "writing", "written", "saving key"},
             reads : BOOLEAN, name : Secrets \union {NoKey}, key : MaybeKey, image : Document]
AtRest == [at |-> "idle", reads |-> FALSE, name |-> NoKey, key |-> NoKey, image |-> Empty]

Idle(c) == call[c].at = "idle"
Returns(c) == [call EXCEPT ![c] = AtRest]
LooksForKey == \E c \in Calls : call[c].at \in {"loading", "loaded", "generating", "encrypting"}
histories == <<overlap, lost, misread, unsaved>>
KeyUnknown == cryptKey = NoKey /\ keyFile = NoKey

------------------------------------------------------------------------------
\* A new configuration, or one built on a file without loading its key: the
\* key is then read by the first call that needs it.
ConfigInit ==
  /\ path \in BOOLEAN
  /\ running = TRUE
  /\ \/ keyFile = NoKey /\ file = Empty
     \/ path /\ keyFile \in Keys /\ file \in [Secrets -> {keyFile, NoKey}]
  /\ secret = file
  /\ cryptKey = NoKey
  /\ torn = {}
  /\ call = [c \in Calls |-> AtRest]
  /\ generated = {keyFile} \ {NoKey}
  /\ overlap = FALSE
  /\ lost = FALSE
  /\ misread = FALSE
  /\ unsaved = FALSE

\* setSecret(s): without a key it reads the key file, or generates a key when
\* there is no file to look beside; with one it encrypts at once.
SetSecret(c, s) ==
  /\ running /\ Idle(c)
  /\ call' = [call EXCEPT ![c].name = s, ![c].key = cryptKey,
                          ![c].at = IF cryptKey # NoKey THEN "encrypting"
                                    ELSE IF path THEN "loading" ELSE "generating"]
  /\ overlap' = (overlap \/ (KeyUnknown /\ LooksForKey))
  /\ UNCHANGED <<path, running, secret, cryptKey, file, keyFile, torn, generated, lost, misread, unsaved>>

\* getSecret(s) of a secret that is set, while no key is known: the other
\* calls of getSecret change nothing.
GetSecret(c, s) ==
  /\ running /\ Idle(c)
  /\ secret[s] # NoKey /\ cryptKey = NoKey /\ path
  /\ call' = [call EXCEPT ![c].name = s, ![c].reads = TRUE, ![c].at = "loading"]
  /\ overlap' = (overlap \/ (KeyUnknown /\ LooksForKey))
  /\ UNCHANGED <<path, running, secret, cryptKey, file, keyFile, torn, generated, lost, misread, unsaved>>

\* loadKey() reads the file; it resolves to undefined when it cannot, be there
\* no file or not, and throws on half a key.
ReadsKey(k) ==
  \/ k = keyFile /\ "key" \notin torn /\ UNCHANGED misread
  \/ k = NoKey /\ misread' = (misread \/ keyFile # NoKey)

LoadKey(c) ==
  /\ call[c].at = "loading"
  /\ \/ \E k \in {keyFile, NoKey} :
          /\ ReadsKey(k)
          /\ call' = [call EXCEPT ![c].at = "loaded", ![c].key = k]
     \/ /\ "key" \in torn
        /\ call' = Returns(c)
        /\ UNCHANGED misread
  /\ UNCHANGED <<path, running, secret, cryptKey, file, keyFile, torn, generated,
                 overlap, lost, unsaved>>

\* The answer of loadKey() is assigned to cryptKey, whatever is there by then.
KeyLoaded(c) ==
  /\ call[c].at = "loaded"
  /\ cryptKey' = call[c].key
  /\ call' = IF call[c].reads THEN Returns(c) ELSE [call EXCEPT ![c].at = "encrypting"]
  /\ UNCHANGED <<path, running, secret, file, keyFile, torn, generated, histories>>

\* The key generated by setSecret for a configuration without a path.
KeyGenerated(c, k) ==
  /\ call[c].at = "generating"
  /\ k \in Keys \ generated
  /\ generated' = generated \union {k}
  /\ cryptKey' = k
  /\ call' = [call EXCEPT ![c].at = "encrypting", ![c].key = k]
  /\ UNCHANGED <<path, running, secret, file, keyFile, torn, histories>>

\* aesEncrypt() generates the key it was not given; its key becomes that of
\* the configuration, and the secret is set.
Encrypted(c, k) ==
  /\ call[c].at = "encrypting"
  /\ IF call[c].key # NoKey THEN k = call[c].key /\ UNCHANGED generated
     ELSE k \in Keys \ generated /\ generated' = generated \union {k}
  /\ cryptKey' = k
  /\ secret' = [secret EXCEPT ![call[c].name] = k]
  /\ call' = Returns(c)
  /\ UNCHANGED <<path, running, file, keyFile, torn, histories>>

\* commit(): the document is turned into text at once and written ...
Commit(c) ==
  /\ running /\ Idle(c)
  /\ call' = [call EXCEPT ![c].at = "writing", ![c].image = secret]
  /\ UNCHANGED <<path, running, secret, cryptKey, file, keyFile, torn, generated, histories>>

WriteFile(c) ==
  /\ call[c].at = "writing"
  /\ file' = call[c].image
  /\ torn' = torn \ {"file"}
  /\ call' = [call EXCEPT ![c].at = "written", ![c].image = Empty]
  /\ UNCHANGED <<path, running, secret, cryptKey, keyFile, generated, histories>>

\* Mutant of FileWritten: the key is saved only when there is none yet in memory.
FileWrittenOnly(c) ==
  /\ call[c].at = "written"
  /\ call' = Returns(c)
  /\ UNCHANGED <<path, running, secret, cryptKey, file, keyFile, torn, generated, histories>>

\* ... then the key of that moment, when there is one.
FileWritten(c) ==
  /\ call[c].at = "written"
  /\ call' = IF cryptKey = NoKey THEN Returns(c)
             ELSE [call EXCEPT ![c].at = "saving key", ![c].key = cryptKey]
  /\ UNCHANGED <<path, running, secret, cryptKey, file, keyFile, torn, generated, histories>>

WriteKey(c) ==
  /\ call[c].at = "saving key"
  /\ keyFile' = call[c].key
  /\ torn' = torn \ {"key"}
  /\ unsaved' = FALSE
  /\ call' = Returns(c)
  /\ UNCHANGED <<path, running, secret, cryptKey, file, generated, overlap, lost, misread>>

\* The file that a call is writing.
BeingWritten(c) ==
  CASE call[c].at = "writing" -> {"file"}
    [] call[c].at = "saving key" -> {"key"}
    [] OTHER -> {}

\* A write fails, which leaves its file alone or half of it, and commit() with it.
WriteFails(c) ==
  /\ BeingWritten(c) # {}
  /\ torn' \in {torn, torn \union BeingWritten(c)}
  /\ unsaved' = (unsaved \/ call[c].at = "saving key")
  /\ call' = Returns(c)
  /\ UNCHANGED <<path, running, secret, cryptKey, file, keyFile, generated, overlap, lost, misread>>

\* delete(s), or set(s) with a value that is no secret.
Delete(s) ==
  /\ running
  /\ secret' = [secret EXCEPT ![s] = NoKey]
  /\ UNCHANGED <<path, running, cryptKey, file, keyFile, torn, call, generated, histories>>

\* The process ends; a write in progress may leave half a file.
Crash ==
  /\ running /\ path
  /\ running' = FALSE
  /\ call' = [c \in Calls |-> AtRest]
  /\ torn' \in {torn \union h : h \in SUBSET UNION {BeingWritten(c) : c \in Calls}}
  /\ lost' = (lost \/ \E s \in Secrets : file[s] \notin {NoKey, keyFile})
  /\ secret' = Empty
  /\ cryptKey' = NoKey
  /\ UNCHANGED <<path, file, keyFile, generated, overlap, misread, unsaved>>

\* load(): the key first, then the document; it throws on half a file.
Load ==
  /\ ~running /\ "file" \notin torn
  /\ running' = TRUE
  /\ \E k \in {keyFile, NoKey} : ReadsKey(k) /\ cryptKey' = k
  /\ secret' = file
  /\ UNCHANGED <<path, file, keyFile, torn, call, generated, overlap, lost, unsaved>>

ConfigNext ==
  \/ \E c \in Calls :
       \/ \E s \in Secrets : SetSecret(c, s) \/ GetSecret(c, s)
       \/ LoadKey(c) \/ KeyLoaded(c)
       \/ \E k \in Keys : KeyGenerated(c, k) \/ Encrypted(c, k)
       \/ Commit(c) \/ WriteFile(c) \/ FileWritten(c) \/ WriteKey(c)
       \/ WriteFails(c)
  \/ \E s \in Secrets : Delete(s)
  \/ Crash
  \/ Load

ConfigSpec == ConfigInit /\ [][ConfigNext]_configVars

------------------------------------------------------------------------------
\* The fields are well typed; a key that is used somewhere was generated.
ConfigTypeOK ==
  /\ path \in BOOLEAN /\ running \in BOOLEAN /\ torn \in SUBSET {"file", "key"}
  /\ overlap \in BOOLEAN /\ lost \in BOOLEAN /\ misread \in BOOLEAN /\ unsaved \in BOOLEAN
  /\ generated \in SUBSET Keys
  /\ cryptKey \in generated \union {NoKey} /\ keyFile \in generated \union {NoKey}
  /\ secret \in Document /\ file \in Document
  /\ call \in [Calls -> CallType]

\* The key that a call made now would use.
KeyInUse == IF cryptKey # NoKey THEN cryptKey ELSE keyFile

\* What the properties of the key leave out: calls that found no key overlapped,
\* since setSecret() and getSecret() await between finding that there is none
\* and storing the one they made (lines 281, 326 and 331); a crash lost the key,
\* between the two writes of a commit() or after the second one failed (lines
\* 362 and 364); or a key that was saved could not be read, which loadKey() takes
\* for no key, so that setSecret() makes another one (lines 242, 326 and 330).
KeyAtRisk == overlap \/ lost \/ misread

\* Every secret of the document in memory can be read.
SecretsShareTheKey ==
  running /\ ~KeyAtRisk => \A s \in Secrets : secret[s] \in {NoKey, KeyInUse}

\* The secrets in the file can be read with the key beside it, or a commit() in
\* progress will write that key; or its write failed (it may have left half of
\* it), and the key is in memory for the next commit() to write.
SavedSecretsReadable ==
  running /\ ~KeyAtRisk =>
    \A s \in Secrets : file[s] # NoKey =>
      \/ file[s] = keyFile
      \/ KeyInUse = file[s] /\ (unsaved \/ \E c \in Calls : call[c].at \in {"written", "saving key"})

\* A key that was saved is never replaced by another, even after a crash, unless
\* calls that found no key overlapped, or the key could not be read.
SavedKeyIsKept ==
  [][~overlap' /\ ~misread' /\ keyFile # NoKey => keyFile' = keyFile]_configVars

\* Secrets and their key stay together: in memory, in the files, and from one
\* commit() or crash to the next, whatever reads and writes fail meanwhile.
SecretsStayReadable ==
  /\ [](ConfigTypeOK /\ SecretsShareTheKey /\ SavedSecretsReadable)
  /\ SavedKeyIsKept
==============================================================================

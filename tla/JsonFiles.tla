------------------------------- MODULE JsonFiles -------------------------------
(***************************************************************************)
(* The persistence engine that keeps a collection in a folder, and a       *)
(* record in a JSON file of it (packages/storage/src/providers/file.ts):   *)
(* one collection and one of its records, in a namespace whose folder is   *)
(* known.  Commands of a transaction run together (Promise.all of          *)
(* CommandProcessor.visitCommands), and stand where they await.  A         *)
(* callback of the file system runs once nothing is ready to go on: what   *)
(* only awaits promises that are settled goes first.                       *)
(*                                                                         *)
(* Dates are a clock that every write of the file moves.                   *)
(***************************************************************************)
EXTENDS Naturals, Sequences, FiniteSets

CONSTANTS
  Commands,    \* what the program asks for, each once
  MaxTogether  \* bound: how many of them run together

\* Commands stand for what they write, and for the entries they make.
ASSUME CommandsAreNew == Commands \intersect {"absent", "old", "edited", "cut", "none", "listed"} = {}

VARIABLES
  store,    \* the FolderEntry of the collection, by its place in folders: 0 when there is none
  folders,  \* every FolderEntry: where its promise stands, what readdir saw, its entry for the record
  fresh,    \* the commands whose JsonFileEntry has isNew
  onDisk,   \* the file of the record
  cached,   \* fileContents[path]
  clock,    \* the date of the last write
  command,  \* where each command awaits, and what it holds
  ended,    \* an exception thrown in a callback has ended the process
  latest,   \* history: the content of the last write that was acknowledged
  met       \* history: what has run together, or beside the engine

jsonVars == <<store, folders, fresh, onDisk, cached, clock, command, ended, latest, met>>

Writes == {"insert", "update", "delete"}
\* "another" is the insertion of a record of which only the folder is followed.
Kinds == Writes \union {"load", "another"}
Contents == Commands \union {"absent", "old", "edited", "cut"}

Absent == [content |-> "absent", time |-> 0, node |-> 0]
Unread == [content |-> "absent", read |-> 0]
NewFolder == [phase |-> "making", listed |-> "not yet", entry |-> "none"]
Uncalled == [op |-> "load", at |-> "idle", folder |-> 0, entry |-> "none", isNew |-> FALSE,
             time |-> 0, node |-> 0, content |-> "absent"]

\* No folder yet; or one found by the readdir() of its parent.
JsonInit ==
  /\ clock = 1
  /\ \/ store = 0 /\ folders = <<>> /\ onDisk = Absent
     \/ /\ store = 1
        /\ folders = <<[phase |-> "known", listed |-> "not yet", entry |-> "none"]>>
        /\ onDisk \in {Absent, [content |-> "old", time |-> 1, node |-> 1]}
  /\ fresh = {}
  /\ cached = Unread
  /\ command = [c \in Commands |-> Uncalled]
  /\ ended = FALSE
  /\ latest = onDisk.content
  /\ met = {}

------------------------------------------------------------------------------
Writing(c) ==
  /\ command[c].op \in Writes
  /\ command[c].at \in {"stat", "statted", "opening", "opened", "written", "unlinking", "unlinked"}
Reading(c) == command[c].op = "load" /\ command[c].at \in {"stat", "statted", "reading", "read"}

PhaseOf(c) == folders[command[c].folder].phase
HasFolder(c) == command[c].at = "entered" \/ (command[c].at = "waiting" /\ PhaseOf(c) = "open")
Asked(c) == command[c].at = "asked" \/ (command[c].at = "asking" /\ PhaseOf(c) = "open")
Missed(c) == command[c].at = "missed"

Rests(c) == command[c].at \in {"idle", "done"}

\* Nothing is ready to go on: the callbacks of the file system may run.
NotReady(c) == ~(HasFolder(c) \/ Asked(c) \/ Missed(c))
Called == ~ended /\ \A c \in Commands : NotReady(c)

Done(c) == [command EXCEPT ![c] = [Uncalled EXCEPT !.at = "done"]]
GoesTo(c, place) == [command EXCEPT ![c].at = place]

\* FolderEntry.then: the first call makes a new folder, or lists one.  A call
\* that comes when mkdir() has just replaced the promise does not wait for
\* the list.
Awaits(c, op, f, waits, resumes) ==
  LET begun == [folders EXCEPT ![f].phase = IF @ = "known" THEN "listing" ELSE @]
      early == begun[f].phase \in {"made", "open"}
  IN /\ folders' = begun
     /\ command' = [command EXCEPT ![c].op = op, ![c].folder = f,
                                   ![c].at = IF early THEN resumes ELSE waits]
     /\ met' = IF begun[f].phase = "made" THEN met \union {"early"} ELSE met

\* A command is called, any of those left, which differ in nothing: what it
\* needs first is the folder of the collection.  load() makes one of its own
\* when there is none, and does not keep it.
Call(c, op) ==
  /\ ~ended
  /\ command[c].at = "idle"
  /\ c = CHOOSE d \in Commands : command[d].at = "idle"
  /\ Cardinality({d \in Commands : ~Rests(d)}) < MaxTogether
  /\ IF store # 0
     THEN IF op \in {"insert", "another"} THEN Awaits(c, op, store, "asking", "asked")
          ELSE Awaits(c, op, store, "waiting", "entered")
     ELSE /\ UNCHANGED met
          /\ \/ /\ op \in {"insert", "another"}
                /\ command' = [command EXCEPT ![c].op = op, ![c].at = "missed"]
                /\ UNCHANGED folders
             \/ /\ op \in {"update", "delete"}
                /\ command' = Done(c)
                /\ UNCHANGED folders
             \/ /\ op = "load"
                /\ folders' = Append(folders, NewFolder)
                /\ command' = [command EXCEPT ![c].op = op, ![c].at = "waiting", ![c].folder = Len(folders) + 1]
  /\ UNCHANGED <<store, fresh, onDisk, cached, clock, ended, latest>>

\* An insertion that found no folder makes one, whatever is there by now.
CreateFolder(c) ==
  /\ ~ended /\ Missed(c)
  /\ folders' = Append(folders, NewFolder)
  /\ store' = Len(folders) + 1
  /\ command' = [command EXCEPT ![c].at = "waiting", ![c].folder = Len(folders) + 1]
  /\ met' = IF store # 0 THEN met \union {"folders"} ELSE met
  /\ UNCHANGED <<fresh, onDisk, cached, clock, ended, latest>>

\* An insertion that found a folder takes the one that is there by now.
AsksAgain(c) ==
  /\ ~ended /\ Asked(c)
  /\ Awaits(c, command[c].op, store, "waiting", "entered")
  /\ UNCHANGED <<store, fresh, onDisk, cached, clock, ended, latest>>

MadeFolder(f) ==
  /\ Called
  /\ folders[f].phase = "making"
  /\ folders' = [folders EXCEPT ![f].phase = "made"]
  /\ UNCHANGED <<store, fresh, onDisk, cached, clock, command, ended, latest, met>>

ReadsFolder(f) ==
  /\ ~ended
  /\ folders[f].phase \in {"made", "listing"} /\ folders[f].listed = "not yet"
  /\ folders' = [folders EXCEPT ![f].listed = IF onDisk = Absent THEN "absent" ELSE "there"]
  /\ UNCHANGED <<store, fresh, onDisk, cached, clock, command, ended, latest, met>>

\* The answer of readdir() replaces the entries it names.
ListedFolder(f) ==
  /\ Called
  /\ folders[f].phase \in {"made", "listing"} /\ folders[f].listed # "not yet"
  /\ folders' = [folders EXCEPT ![f].phase = "open",
                                ![f].entry = IF folders[f].listed = "there" THEN "listed" ELSE @]
  /\ UNCHANGED <<store, fresh, onDisk, cached, clock, command, ended, latest, met>>

\* The folder is there: the command looks for the record in its entries, and
\* an insertion puts it there.
Looks(c) ==
  LET f == command[c].folder
      op == command[c].op
      entry == folders[f].entry
      others == Commands \ {c}
  IN
  /\ ~ended /\ HasFolder(c)
  /\ IF op = "another" \/ (op = "insert") # (entry = "none")
     THEN command' = Done(c) /\ UNCHANGED <<folders, fresh, met>>
     ELSE
       /\ folders' = IF op = "insert" THEN [folders EXCEPT ![f].entry = c] ELSE folders
       /\ fresh' = IF op = "insert" THEN fresh \union {c} ELSE fresh
       /\ command' = [command EXCEPT ![c].at = IF op = "delete" THEN "unlinking" ELSE "stat",
                                     ![c].entry = folders'[f].entry, ![c].isNew = folders'[f].entry \in fresh']
       /\ met' = met \union {w \in {"writes"} : op # "load" /\ \E d \in others : Writing(d)}
                     \union {r \in {"reads"} : \E d \in others : (op = "load" /\ Writing(d)) \/ (op # "load" /\ Reading(d))}
  /\ UNCHANGED <<store, onDisk, cached, clock, ended, latest>>

------------------------------------------------------------------------------
\* readJson() and writeJson() begin with lstat() ...
Stat(c) ==
  /\ ~ended /\ command[c].at = "stat"
  /\ command' = [command EXCEPT ![c].at = "statted", ![c].time = onDisk.time]
  /\ UNCHANGED <<store, folders, fresh, onDisk, cached, clock, ended, latest, met>>

\* ... whose answer is compared with the date of what is known.  An exception
\* there is thrown to nobody.
StattedWrite(c) ==
  LET w == command[c] IN
  /\ Called
  /\ w.at = "statted" /\ w.op # "load"
  /\ IF w.time = 0 /\ ~w.isNew THEN command' = Done(c) /\ UNCHANGED ended
     ELSE IF cached # Unread /\ ~w.isNew /\ w.time > cached.read THEN ended' = TRUE /\ UNCHANGED command
     ELSE command' = GoesTo(c, "opening") /\ UNCHANGED ended
  /\ UNCHANGED <<store, folders, fresh, onDisk, cached, clock, latest, met>>

StattedRead(c) ==
  LET r == command[c] IN
  /\ Called
  /\ r.at = "statted" /\ r.op = "load"
  /\ command' = IF r.time # 0 /\ (cached = Unread \/ r.time > cached.read) THEN GoesTo(c, "reading") ELSE Done(c)
  /\ UNCHANGED <<store, folders, fresh, onDisk, cached, clock, ended, latest, met>>

\* writeFile() cuts the file, or creates it, and then writes.
OpenRecord(c) ==
  /\ ~ended /\ command[c].at = "opening"
  /\ clock' = clock + 1
  /\ onDisk' = [content |-> "cut", time |-> clock', node |-> IF onDisk = Absent THEN clock' ELSE onDisk.node]
  /\ command' = [command EXCEPT ![c].at = "opened", ![c].node = onDisk'.node]
  /\ UNCHANGED <<store, folders, fresh, cached, ended, latest, met>>

WriteRecord(c) ==
  /\ ~ended /\ command[c].at = "opened"
  /\ clock' = clock + 1
  /\ onDisk' = IF onDisk.node = command[c].node THEN [onDisk EXCEPT !.content = c, !.time = clock'] ELSE onDisk
  /\ command' = GoesTo(c, "written")
  /\ UNCHANGED <<store, folders, fresh, cached, ended, latest, met>>

Saved(c) ==
  /\ Called /\ command[c].at = "written"
  /\ cached' = [content |-> c, read |-> clock]
  /\ fresh' = fresh \ {command[c].entry}
  /\ latest' = c
  /\ command' = Done(c)
  /\ UNCHANGED <<store, folders, onDisk, clock, ended, met>>

ReadRecord(c) ==
  /\ ~ended /\ command[c].at = "reading"
  /\ command' = IF onDisk = Absent THEN Done(c)
                ELSE [command EXCEPT ![c].at = "read", ![c].content = onDisk.content]
  /\ UNCHANGED <<store, folders, fresh, onDisk, cached, clock, ended, latest, met>>

\* Mutant of Parsed: what was read is dated when the answer comes.
ParsedNow(c) ==
  /\ Called /\ command[c].at = "read"
  /\ IF command[c].content = "cut" THEN ended' = TRUE /\ UNCHANGED <<cached, command>>
     ELSE /\ cached' = [content |-> command[c].content, read |-> clock]
          /\ command' = Done(c)
          /\ UNCHANGED ended
  /\ UNCHANGED <<store, folders, fresh, onDisk, clock, latest, met>>

\* What was read is dated by the lstat() that came before; a text that has
\* been cut does not parse.
Parsed(c) ==
  /\ Called /\ command[c].at = "read"
  /\ IF command[c].content = "cut" THEN ended' = TRUE /\ UNCHANGED <<cached, command>>
     ELSE /\ cached' = [content |-> command[c].content, read |-> command[c].time]
          /\ command' = Done(c)
          /\ UNCHANGED ended
  /\ UNCHANGED <<store, folders, fresh, onDisk, clock, latest, met>>

Unlink(c) ==
  /\ ~ended /\ command[c].at = "unlinking"
  /\ onDisk' = Absent
  /\ command' = IF onDisk = Absent THEN Done(c) ELSE GoesTo(c, "unlinked")
  /\ UNCHANGED <<store, folders, fresh, cached, clock, ended, latest, met>>

Unlinked(c) ==
  /\ Called /\ command[c].at = "unlinked"
  /\ cached' = Unread
  /\ folders' = [folders EXCEPT ![command[c].folder].entry = "none"]
  /\ latest' = "absent"
  /\ command' = Done(c)
  /\ UNCHANGED <<store, fresh, onDisk, clock, ended, met>>

\* Another program edits the file, once.
Edit ==
  /\ ~ended /\ onDisk # Absent /\ "edits" \notin met
  /\ clock' = clock + 1
  /\ onDisk' = [onDisk EXCEPT !.content = "edited", !.time = clock']
  /\ latest' = "edited"
  /\ met' = met \union {"edits"} \union {w \in {"writes"} : \E c \in Commands : Writing(c)}
  /\ UNCHANGED <<store, folders, fresh, cached, command, ended>>

Continues(c) ==
  \/ CreateFolder(c) \/ AsksAgain(c) \/ Looks(c)
  \/ Stat(c) \/ StattedWrite(c) \/ StattedRead(c)
  \/ OpenRecord(c) \/ WriteRecord(c) \/ Saved(c)
  \/ ReadRecord(c) \/ Parsed(c)
  \/ Unlink(c) \/ Unlinked(c)
Opens(f) == MadeFolder(f) \/ ReadsFolder(f) \/ ListedFolder(f)

JsonNext ==
  \/ \E c \in Commands, op \in Kinds : Call(c, op)
  \/ \E c \in Commands : Continues(c)
  \/ \E f \in DOMAIN folders : Opens(f)
  \/ Edit

\* Promises and the file system answer; nobody has to call or to edit.
JsonFairness ==
  WF_jsonVars(\/ \E c \in Commands : Continues(c)
              \/ \E f \in DOMAIN folders : Opens(f))

JsonSpec == JsonInit /\ [][JsonNext]_jsonVars /\ JsonFairness

------------------------------------------------------------------------------
JsonTypeOK ==
  /\ store \in 0..Len(folders)
  /\ \A f \in DOMAIN folders :
       folders[f] \in [phase : {"known", "making", "made", "listing", "open"},
                       listed : {"not yet", "absent", "there"},
                       entry : Commands \union {"none", "listed"}]
  /\ fresh \subseteq Commands
  /\ onDisk \in [content : Contents, time : Nat, node : Nat]
  /\ cached \in [content : Contents, read : Nat]
  /\ clock \in Nat
  /\ command \in [Commands ->
       [op : Kinds, folder : 0..Len(folders), entry : Commands \union {"none", "listed"},
        at : {"idle", "missed", "asking", "asked", "waiting", "entered", "stat", "statted", "opening", "opened",
              "written", "reading", "read", "unlinking", "unlinked", "done"},
        isNew : BOOLEAN, time : Nat, node : Nat, content : Contents]]
  /\ ended \in BOOLEAN
  /\ latest \in Contents
  /\ met \subseteq {"edits", "writes", "reads", "folders", "early"}

NothingWritten == \A c \in Commands : ~Writing(c)

\* What is known of the record, when its date is that of the file or later, is
\* what the file holds, however loads and one write ran together.
BelievedIsTrue ==
  NothingWritten /\ "writes" \notin met /\ onDisk # Absent /\ cached # Unread /\ onDisk.time <= cached.read
    => cached.content = onDisk.content

\* The file holds the last write that was acknowledged.
WritesStay == NothingWritten /\ "writes" \notin met => onDisk.content = latest

\* An insertion never writes over a record, unless its collection had two
\* folders.
InsertsNothingOver ==
  \A c \in Commands :
    command[c].op = "insert" /\ command[c].at = "opening" /\ met \intersect {"writes", "folders"} = {}
      => onDisk = Absent

\* The collection knows the record exactly when its file exists, unless it had
\* two folders, or one that was used before it was listed.
KnownIfPresent ==
  /\ ~ended /\ store # 0 /\ NothingWritten
  /\ folders[store].phase = "open"
  /\ met \intersect {"writes", "folders", "early"} = {}
  => (folders[store].entry # "none") = (onDisk # Absent)

\* Commands that do not run together, on files that nobody else edits, never
\* end the process.
EndsForAReason == ended => met \intersect {"edits", "writes", "reads"} # {}

\* What runs together on a record agrees with its file, as far as it does.
RecordsAreKept ==
  JsonTypeOK /\ BelievedIsTrue /\ WritesStay /\ InsertsNothingOver /\ KnownIfPresent /\ EndsForAReason

\* Every command is answered, or the process ends.
CommandsEnd == []<>(ended \/ \A c \in Commands : Rests(c))
==============================================================================

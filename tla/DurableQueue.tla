---------------------------- MODULE DurableQueue ----------------------------
(***************************************************************************)
(* packages/server/src/queue.ts: the Queue whose save() writes the pending *)
(* array to a file with fs.promises.writeFile, and which is constructed    *)
(* from that file when the process starts again.                           *)
(*                                                                         *)
(* save() captures the array when it is called and is never awaited, so    *)
(* writes overlap. Each opens the file (which truncates it) and writes its *)
(* bytes from the start, in two steps that those of another write may come *)
(* between. The length of a file stands for the length of its JSON.        *)
(***************************************************************************)
EXTENDS Queue

CONSTANTS
    MaxCrashes, \* bound: how often the process may crash
    MaxWrites   \* bound: how many writeFile calls may be under way

ASSUME DurableAssumption == MaxCrashes \in Nat /\ MaxWrites \in Nat

VARIABLES
    disk,    \* what the file holds: a length, and the array it parses to
    writes,  \* the writeFile calls under way: the array, and if the file is open
    up,      \* the process is running
    crashes, \* how often it crashed
    tangled  \* a write that may still decide the file overlapped a different one

durableVars == <<queueVars, disk, writes, up, crashes, tangled>>
diskVars == <<disk, writes, tangled>>

Unparsable == [length |-> 0, parsed |-> FALSE, messages |-> <<>>]

\* The bytes of JSON.stringify(q) written over a file f from its start: when f
\* is longer, a tail of it stays behind and nothing can parse the result.
Overwrite(f, q) ==
    IF Len(q) + 1 >= f.length
    THEN [length |-> Len(q) + 1, parsed |-> TRUE, messages |-> q]
    ELSE [f EXCEPT !.parsed = FALSE, !.messages = <<>>]

DurableInit ==
    /\ QueueInit
    /\ disk = Overwrite(Unparsable, Initial)
    /\ writes = <<>>
    /\ up = TRUE
    /\ crashes = 0
    /\ tangled = FALSE

-----------------------------------------------------------------------------
\* save() called for each of these arrays in turn.
Save(arrays) ==
    /\ Len(writes) + Len(arrays) <= MaxWrites
    /\ writes' = writes \o [k \in DOMAIN arrays |-> [array |-> arrays[k], open |-> FALSE]]
    /\ tangled' = IF writes = <<>> THEN FALSE
                  ELSE tangled \/ \E k \in DOMAIN writes : writes[k].array # arrays[1]
    /\ UNCHANGED disk

DurableEnqueue(m) ==
    /\ Enqueue(m)
    /\ Save(<<Append(pending, m)>>)

\* Mutant of DurableAccept: next(true) does not save.
DurableAcceptUnsaved(i) == HandlerAccepts(i) /\ UNCHANGED diskVars

DurableAccept(i) ==
    /\ HandlerAccepts(i)
    /\ Save(<<pending>>)

\* Mutant of DurableRefuse: a second push before the second save.
DurableRefuseTwice(i) ==
    /\ HandlerRefuses(i)
    /\ LET array == Append(pending, handling[i])
       IN  Save(<<array, Append(array, handling[i])>>)

\* next(false) saves twice: in enqueue() and after it.
DurableRefuse(i) ==
    /\ HandlerRefuses(i)
    /\ LET array == Append(pending, handling[i]) IN Save(<<array, array>>)

DurableTick == (Tick \/ CallProcess) /\ UNCHANGED diskVars

Running ==
    /\ up
    /\ \/ \E m \in Message : DurableEnqueue(m)
       \/ \E i \in DOMAIN handling : DurableAccept(i) \/ DurableRefuse(i)
       \/ DurableTick
    /\ UNCHANGED <<up, crashes>>

\* The two steps of a writeFile, run by the thread pool in any order.
OpenFile(k) ==
    /\ ~writes[k].open
    /\ writes' = [writes EXCEPT ![k].open = TRUE]
    /\ disk' = Unparsable
    /\ UNCHANGED <<queueVars, up, crashes, tangled>>

WriteArray(k) ==
    /\ writes[k].open
    /\ writes' = RemoveAt(writes, k)
    /\ disk' = Overwrite(disk, writes[k].array)
    /\ UNCHANGED <<queueVars, up, crashes, tangled>>

\* The process dies, and with it the arrays, the handler and the writes.
DurableCrash ==
    /\ up /\ crashes < MaxCrashes
    /\ up' = FALSE
    /\ crashes' = crashes + 1
    /\ pending' = <<>> /\ handling' = <<>> /\ processing' = FALSE /\ ticks' = 0
    /\ writes' = <<>>
    /\ UNCHANGED <<unseen, finished, disk, tangled>>

\* A new process reads the array from the file. The constructor throws when it
\* does not parse, and does not call process().
Reconstruct ==
    /\ ~up /\ disk.parsed
    /\ up' = TRUE
    /\ pending' = disk.messages
    /\ tangled' = FALSE
    /\ UNCHANGED <<processing, handling, ticks, unseen, finished, disk, writes, crashes>>

DurableNext ==
    \/ Running
    \/ \E k \in DOMAIN writes : OpenFile(k) \/ WriteArray(k)
    \/ DurableCrash
    \/ Reconstruct

DurableSpec == DurableInit /\ [][DurableNext]_durableVars

-----------------------------------------------------------------------------
DurableTypeOK ==
    /\ QueueTypeOK
    /\ disk \in [length : Nat, parsed : BOOLEAN, messages : Seq(Message)]
    /\ writes \in Seq([array : Seq(Message), open : BOOLEAN])
    /\ up \in BOOLEAN /\ tangled \in BOOLEAN
    /\ crashes \in 0..MaxCrashes

\* Once every write has settled, and provided no write overlapped a different
\* one, the file holds the line of messages but perhaps the one being handled:
\* a crash then loses at most that one, and what was finished is not revived.
SettledFileIsLine ==
    up /\ writes = <<>> /\ ~tangled =>
        /\ disk.parsed
        /\ disk.messages \in {pending, handling \o pending}

\* Whatever was overtaken or lost, a queue read back from the file never holds
\* a message that nobody enqueued, nor one message twice.
RestoresOnlyAccepted ==
    [][Reconstruct => /\ IsInjective(pending')
                      /\ ToSet(pending') \cap unseen = {}]_durableVars

\* As long as the process does not crash, every message is in one place.
ConservedUntilCrash == crashes = 0 => Conserved

\* What remains true of the line and its file, whatever writes overlap, of the
\* messages until the process crashes, and of those it reads back after that.
FileKeepsTheLine ==
    /\ [](DurableTypeOK /\ SettledFileIsLine /\ ConservedUntilCrash)
    /\ RestoresOnlyAccepted
=============================================================================

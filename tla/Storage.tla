-------------------------------- MODULE Storage --------------------------------
(* How the program replaces a file that other processes read: it writes a    *)
(* temporary file and renames it. The state of a run, a manifest and the     *)
(* cached catalogue (S/run/state.py, S/manifest/history.py, S/providers/     *)
(* catalog.py) are written from memory to a temporary file of a fixed name,  *)
(* the secrets (S/secrets.py) are read, changed and written to one of a name *)
(* of its own (mkstemp). A document is written and read in chunks.           *)
EXTENDS Naturals, FiniteSets

CONSTANTS
    Procs,
    Inodes, NoInode,
    MaxVersion,         \* bound: so many saves; a version is what one of them writes
    Chunks,             \* how many writes a document takes
    Keys,               \* the names of the secrets
    Styles              \* of the files considered: is the temporary's name unique?

ASSUME StorageAssumption ==
    /\ Chunks \in Nat \ {0} /\ MaxVersion \in Nat /\ Styles \subseteq BOOLEAN
    /\ NoInode \notin Inodes

Versions == 1 .. MaxVersion
Absent == 0

VARIABLES
    unique,
    target,     \* the inode that has the file's name
    tmp,        \* the inodes that have a temporary name
    content,    \* of every inode: its chunks
    pc,         \* of every process: "idle", "loading", "fetching", "chosen",
                \* "writing", "dead"
    fd, pos,    \* the inode it has open, how much of it is read or written
    got,        \* what it has read
    ver,        \* the version it writes
    newest,     \* the version written last
    docs,       \* of every version: the save that every key in it comes from
    last,       \* history: the last save of every key that was completed
    overlapped  \* history: a save began while another one was under way

fileVars == <<unique, target, tmp, content>>
procVars == <<pc, fd, pos, got, ver>>
docVars == <<newest, docs, last>>
vars == <<fileVars, procVars, docVars, overlapped>>

Blank == [k \in 1 .. Chunks |-> Absent]
Whole(c) == \E v \in Versions : c = [k \in 1 .. Chunks |-> v]

Init ==
    /\ unique \in Styles
    /\ target = NoInode /\ tmp = {} /\ content = [i \in Inodes |-> Blank]
    /\ pc = [p \in Procs |-> "idle"] /\ fd = [p \in Procs |-> NoInode]
    /\ pos = [p \in Procs |-> 0] /\ got = [p \in Procs |-> Blank]
    /\ ver = [p \in Procs |-> Absent]
    /\ newest = 0 /\ docs = [v \in Versions |-> [k \in Keys |-> Absent]]
    /\ last = [k \in Keys |-> Absent] /\ overlapped = FALSE

Busy == {p \in Procs : pc[p] \in {"fetching", "chosen", "writing"}}
Free(i) == i # target /\ i \notin tmp /\ \A p \in Procs : fd[p] # i

(* What process p turns to next, with which file open.                       *)
Turns(p, to, inode) ==
    /\ pc' = [pc EXCEPT ![p] = to] /\ fd' = [fd EXCEPT ![p] = inode]
    /\ pos' = [pos EXCEPT ![p] = 0]

(* It is done, or dead: what it had in memory is gone.                       *)
Leaves(p, to) ==
    /\ Turns(p, to, NoInode)
    /\ got' = [got EXCEPT ![p] = Blank] /\ ver' = [ver EXCEPT ![p] = Absent]

-----------------------------------------------------------------------------
(* Reading: `load`, and `_read` before a change.                           *)

(* Bug: a file that is not there is opened. *)
OpenFileUnchecked(p, to) ==
    /\ pc[p] = "idle"
    /\ to = "fetching" => unique
    /\ Turns(p, to, target)
    /\ got' = [got EXCEPT ![p] = Blank]
    /\ overlapped' = (overlapped \/ (to = "fetching" /\ Busy # {}))
    /\ UNCHANGED <<fileVars, ver, docVars>>

(* A file that is not there reads as nothing.                                *)
OpenFile(p, to) ==
    /\ pc[p] = "idle"
    /\ to = "fetching" => unique
    /\ IF target # NoInode THEN Turns(p, to, target)
       ELSE Turns(p, IF to = "fetching" THEN "chosen" ELSE "idle", NoInode)
    /\ got' = [got EXCEPT ![p] = Blank]
    /\ overlapped' = (overlapped \/ (to = "fetching" /\ Busy # {}))
    /\ UNCHANGED <<fileVars, ver, docVars>>

ReadChunk(p) ==
    /\ pc[p] \in {"loading", "fetching"} /\ pos[p] < Chunks
    /\ pos' = [pos EXCEPT ![p] = @ + 1]
    /\ got' = [got EXCEPT ![p] = [@ EXCEPT ![pos[p] + 1] = content[fd[p]][pos[p] + 1]]]
    /\ UNCHANGED <<fileVars, pc, fd, ver, docVars, overlapped>>

(* What does not parse is no state; before a change it is an exception.      *)
CloseFile(p) ==
    /\ pc[p] \in {"loading", "fetching"} /\ pos[p] = Chunks
    /\ IF pc[p] = "fetching" /\ Whole(got[p])
       THEN Turns(p, "chosen", NoInode) /\ UNCHANGED <<got, ver>>
       ELSE Leaves(p, "idle")
    /\ UNCHANGED <<fileVars, docVars, overlapped>>

-----------------------------------------------------------------------------
(* Writing: `save`, `_write`.                                              *)

(* Bug: a secret is written without the others. *)
ChangedBlindly(p, v, key) ==
    IF pc[p] = "idle" THEN [k \in Keys |-> v]
    ELSE [[k \in Keys |-> Absent] EXCEPT ![key] = v]

(* The document that p writes as version v: what it has in memory, or what   *)
(* it read with one key changed.                                             *)
Changed(p, v, key) ==
    IF pc[p] = "idle" THEN [k \in Keys |-> v]
    ELSE [IF got[p] = Blank THEN [k \in Keys |-> Absent] ELSE docs[got[p][1]]
            EXCEPT ![key] = v]

(* mkstemp                                                                   *)
NewFile(i) ==
    /\ Free(i)
    /\ tmp' = tmp \cup {i} /\ content' = [content EXCEPT ![i] = Blank]

(* open(tmp, "w"): a temporary that is there is truncated.                   *)
Truncate(i) ==
    /\ i \in tmp
    /\ content' = [content EXCEPT ![i] = Blank] /\ UNCHANGED tmp

(* Bug: mkstemp is replaced by a fixed name. *)
OpensFixed(i) == IF tmp = {} THEN NewFile(i) ELSE Truncate(i)

Opens(i) == IF unique \/ tmp = {} THEN NewFile(i) ELSE Truncate(i)

OpenTemporary(p, i, key) ==
    /\ pc[p] = IF unique THEN "chosen" ELSE "idle"
    /\ Opens(i)
    /\ newest < MaxVersion /\ newest' = newest + 1
    /\ docs' = [docs EXCEPT ![newest'] = Changed(p, newest', key)]
    /\ ver' = [ver EXCEPT ![p] = newest']
    /\ Turns(p, "writing", i)
    /\ overlapped' = (overlapped \/ Busy \ {p} # {})
    /\ UNCHANGED <<unique, target, got, last>>

WriteChunk(p) ==
    /\ pc[p] = "writing" /\ pos[p] < Chunks
    /\ pos' = [pos EXCEPT ![p] = @ + 1]
    /\ content' = [content EXCEPT ![fd[p]] = [@ EXCEPT ![pos[p] + 1] = ver[p]]]
    /\ UNCHANGED <<unique, target, tmp, pc, fd, got, ver, docVars, overlapped>>

(* `replace` renames what has the name of the temporary by now, which is not *)
(* always what p wrote.                                                      *)
Rename(p) ==
    /\ pc[p] = "writing" /\ pos[p] = Chunks
    /\ \E i \in tmp :
         /\ unique => i = fd[p]
         /\ target' = i /\ tmp' = tmp \ {i}
    /\ last' = [k \in Keys |-> IF docs[ver[p]][k] = ver[p] THEN ver[p] ELSE last[k]]
    /\ Leaves(p, "idle")
    /\ UNCHANGED <<unique, content, newest, docs, overlapped>>

(* Another process renamed it first: FileNotFoundError.                      *)
RenameFails(p) ==
    /\ pc[p] = "writing" /\ pos[p] = Chunks /\ tmp = {}
    /\ Leaves(p, "idle")
    /\ UNCHANGED <<fileVars, docVars, overlapped>>

(* Bug: nothing is cleaned up. *)
WriteFailsUncleaned(p) ==
    /\ pc[p] = "writing"
    /\ Leaves(p, "idle")
    /\ UNCHANGED <<fileVars, docVars, overlapped>>

(* A full disk: a temporary of a unique name is removed (secrets.py:44).     *)
WriteFails(p) ==
    /\ pc[p] = "writing"
    /\ tmp' = IF unique THEN tmp \ {fd[p]} ELSE tmp
    /\ Leaves(p, "idle")
    /\ UNCHANGED <<unique, target, content, docVars, overlapped>>

Die(p) ==
    /\ pc[p] \notin {"idle", "dead"}
    /\ Leaves(p, "dead")
    /\ UNCHANGED <<fileVars, docVars, overlapped>>

Step(p) ==
    \/ OpenFile(p, "loading") \/ OpenFile(p, "fetching")
    \/ ReadChunk(p) \/ CloseFile(p)
    \/ \E i \in Inodes, key \in Keys : OpenTemporary(p, i, key)
    \/ WriteChunk(p) \/ Rename(p) \/ RenameFails(p) \/ WriteFails(p) \/ Die(p)

Next == \E p \in Procs : Step(p)

Spec == Init /\ [][Next]_vars

-----------------------------------------------------------------------------
(* Correctness. A file with a fixed temporary is sound while no two saves    *)
(* overlap.                                                                  *)

Sound == unique \/ ~overlapped

Reading(p) == pc[p] \in {"loading", "fetching"}
VersionIn(i) == IF i = NoInode THEN Absent ELSE content[i][1]

(* Every variable keeps its type.                                            *)
TypeOK ==
    /\ unique \in BOOLEAN /\ overlapped \in BOOLEAN
    /\ target \in Inodes \cup {NoInode} /\ tmp \subseteq Inodes
    /\ content \in [Inodes -> [1 .. Chunks -> 0 .. MaxVersion]]
    /\ pc \in [Procs -> {"idle", "loading", "fetching", "chosen", "writing", "dead"}]
    /\ fd \in [Procs -> Inodes \cup {NoInode}] /\ pos \in [Procs -> 0 .. Chunks]
    /\ got \in [Procs -> [1 .. Chunks -> 0 .. MaxVersion]]
    /\ ver \in [Procs -> 0 .. MaxVersion]
    /\ newest \in 0 .. MaxVersion
    /\ docs \in [Versions -> [Keys -> 0 .. MaxVersion]]
    /\ last \in [Keys -> 0 .. MaxVersion]
    /\ \A p \in Procs : Reading(p) \/ pc[p] = "writing" => fd[p] \in Inodes
    /\ \A p \in Procs : pc[p] = "writing" => ver[p] \in Versions
    /\ \A p \in Procs : pc[p] = "chosen" => got[p] = Blank \/ Whole(got[p])

(* Whoever reads the file reads one version from beginning to end, whatever  *)
(* writers do, fail or die meanwhile (state.py:89-107, secrets.py:26-46).    *)
ReadersSeeWhole ==
    Sound => \A p \in Procs : Reading(p) /\ pos[p] = Chunks => Whole(got[p])

(* Changes of different secrets do not undo each other, unless two of them   *)
(* overlap (secrets.py:54-68).                                               *)
UpdatesKept ==
    ~overlapped /\ target # NoInode => docs[VersionIn(target)] = last

(* Secrets are in no other file, save while a writer is at work or after it  *)
(* was killed (secrets.py:36-46).                                            *)
NothingLeftBehind ==
    unique => Cardinality(tmp) <= Cardinality({p \in Procs : pc[p] \in {"writing", "dead"}})

(* What a reader and the writers of the file take it for.                    *)
Register ==
    INSTANCE FileRegister
        WITH sound <- Sound, value <- VersionIn(target),
             view <- [p \in Procs |-> IF Reading(p) THEN VersionIn(fd[p]) ELSE Absent]

(* As long as it is sound, the file is a register: readers and writers agree *)
(* on one order of the versions.                                             *)
RegisterKept == Register!Spec
=============================================================================

----------------------------- MODULE StorageProofs -----------------------------
(* Theorems about Storage, for any number of processes, files, secrets and   *)
(* chunks: the types, that readers see whole documents, that the file is a   *)
(* register, that no update of a key is undone by another process, and that  *)
(* no temporary file is left behind but by a process that was killed.        *)
EXTENDS Storage, FiniteSetTheorems, TLAPS

USE DEF Versions, Absent

-----------------------------------------------------------------------------
(* Types.                                                                  *)

(* A blank document, and one of a single version.                            *)
LEMMA Documents ==
    /\ 1 \in 1 .. Chunks /\ Chunks \in Nat /\ MaxVersion \in Nat
    /\ Blank \in [1 .. Chunks -> 0 .. MaxVersion]
    /\ \A c \in [1 .. Chunks -> 0 .. MaxVersion], v \in Versions :
          (\A k \in 1 .. Chunks : c[k] = v) => Whole(c)
<1>1. 1 \in 1 .. Chunks /\ Chunks \in Nat /\ MaxVersion \in Nat
  BY StorageAssumption, SMT
<1>2. Blank \in [1 .. Chunks -> 0 .. MaxVersion]
  BY <1>1 DEF Blank
<1>3. ASSUME NEW c \in [1 .. Chunks -> 0 .. MaxVersion], NEW v \in Versions,
             \A k \in 1 .. Chunks : c[k] = v
      PROVE  Whole(c)
  <2>1. c = [k \in 1 .. Chunks |-> v]
    BY <1>3
  <2>2. QED
    BY <2>1 DEF Whole
<1>4. QED
  BY <1>1, <1>2, <1>3

(* What a process turns to keeps the types of its variables.                 *)
LEMMA TurnsTyped ==
    ASSUME TypeOK, NEW p \in Procs, NEW to, NEW inode,
           to \in {"idle", "loading", "fetching", "chosen", "writing", "dead"},
           inode \in Inodes \cup {NoInode}, Turns(p, to, inode)
    PROVE  /\ pc' \in [Procs -> {"idle", "loading", "fetching", "chosen", "writing", "dead"}]
           /\ fd' \in [Procs -> Inodes \cup {NoInode}] /\ pos' \in [Procs -> 0 .. Chunks]
           /\ pc'[p] = to /\ fd'[p] = inode /\ pos'[p] = 0
           /\ \A q \in Procs \ {p} : pc'[q] = pc[q] /\ fd'[q] = fd[q] /\ pos'[q] = pos[q]
BY Documents, SMT DEF TypeOK, Turns

(* So does leaving.                                                          *)
LEMMA LeavesTyped ==
    ASSUME TypeOK, NEW p \in Procs, NEW to, to \in {"idle", "dead"}, Leaves(p, to)
    PROVE  /\ pc' \in [Procs -> {"idle", "loading", "fetching", "chosen", "writing", "dead"}]
           /\ fd' \in [Procs -> Inodes \cup {NoInode}] /\ pos' \in [Procs -> 0 .. Chunks]
           /\ got' \in [Procs -> [1 .. Chunks -> 0 .. MaxVersion]]
           /\ ver' \in [Procs -> 0 .. MaxVersion]
           /\ pc'[p] = to /\ fd'[p] = NoInode /\ pos'[p] = 0
           /\ \A q \in Procs \ {p} :
                /\ pc'[q] = pc[q] /\ fd'[q] = fd[q] /\ pos'[q] = pos[q]
                /\ got'[q] = got[q] /\ ver'[q] = ver[q]
<1>1. Turns(p, to, NoInode)
  BY DEF Leaves
<1>2. /\ got' = [got EXCEPT ![p] = Blank] /\ ver' = [ver EXCEPT ![p] = 0]
      /\ got \in [Procs -> [1 .. Chunks -> 0 .. MaxVersion]] /\ ver \in [Procs -> 0 .. MaxVersion]
  BY DEF Leaves, TypeOK
<1>3. /\ got' \in [Procs -> [1 .. Chunks -> 0 .. MaxVersion]]
      /\ ver' \in [Procs -> 0 .. MaxVersion]
      /\ \A q \in Procs \ {p} : got'[q] = got[q] /\ ver'[q] = ver[q]
  BY <1>2, Documents, SMT
<1>4. QED
  BY <1>1, <1>3, TurnsTyped

(* The document that is written.                                             *)
LEMMA ChangedTyped ==
    ASSUME TypeOK, NEW p \in Procs, NEW v \in Versions, NEW key \in Keys,
           pc[p] \in {"idle", "chosen"}
    PROVE  Changed(p, v, key) \in [Keys -> 0 .. MaxVersion]
<1> DEFINE before == IF got[p] = Blank THEN [k \in Keys |-> 0] ELSE docs[got[p][1]]
<1>1. CASE pc[p] = "idle"
  BY <1>1, Documents, SMT DEF Changed
<1>2. CASE pc[p] # "idle" /\ got[p] = Blank
  BY <1>2, Documents, SMT DEF Changed
<1>3. CASE pc[p] # "idle" /\ got[p] # Blank
  <2>1. PICK w \in 1 .. MaxVersion : got[p] = [k \in 1 .. Chunks |-> w]
    BY <1>3 DEF TypeOK, Whole
  <2>2. got[p][1] = w
    BY <2>1, Documents
  <2>3. docs[w] \in [Keys -> 0 .. MaxVersion]
    BY DEF TypeOK
  <2>4. [docs[w] EXCEPT ![key] = v] \in [Keys -> 0 .. MaxVersion]
    BY <2>3, Documents, SMT
  <2>5. QED
    BY <1>3, <2>2, <2>4 DEF Changed
<1>4. QED
  BY <1>1, <1>2, <1>3

(* What a process may be doing.                                              *)
PcTypes == {"idle", "loading", "fetching", "chosen", "writing", "dead"}

(* The steps of a process keep the types.                                    *)
LEMMA TypeNext == TypeOK /\ [Next]_vars => TypeOK'
<1> SUFFICES ASSUME TypeOK, [Next]_vars PROVE TypeOK'
  OBVIOUS
<1> USE Documents
<1>1. ASSUME NEW p \in Procs, NEW to \in {"loading", "fetching"}, OpenFile(p, to)
      PROVE  TypeOK'
  <2>1. target \in Inodes \cup {NoInode} /\ got \in [Procs -> [1 .. Chunks -> 0 .. MaxVersion]]
    BY DEF TypeOK
  <2>2. got' = [got EXCEPT ![p] = Blank]
    BY <1>1 DEF OpenFile
  <2>3. /\ got' \in [Procs -> [1 .. Chunks -> 0 .. MaxVersion]] /\ got'[p] = Blank
        /\ \A q \in Procs \ {p} : got'[q] = got[q]
    BY <2>1, <2>2, SMT
  <2>4. PICK next \in PcTypes, inode \in Inodes \cup {NoInode} :
          /\ Turns(p, next, inode)
          /\ next \in {"loading", "fetching"} => inode \in Inodes
          /\ next # "writing"
    BY <1>1, <2>1 DEF OpenFile, PcTypes
  <2>5. /\ pc' \in [Procs -> PcTypes]
        /\ fd' \in [Procs -> Inodes \cup {NoInode}] /\ pos' \in [Procs -> 0 .. Chunks]
        /\ pc'[p] = next /\ fd'[p] = inode
        /\ \A q \in Procs \ {p} : pc'[q] = pc[q] /\ fd'[q] = fd[q]
    BY <2>4, TurnsTyped DEF PcTypes
  <2>6. UNCHANGED <<unique, target, tmp, content, ver, newest, docs, last>>
    BY <1>1 DEF OpenFile, fileVars, docVars
  <2>7. overlapped' \in BOOLEAN
    BY <1>1 DEF OpenFile, TypeOK
  <2>8. QED
    BY <2>3, <2>4, <2>5, <2>6, <2>7 DEF TypeOK, Reading, PcTypes
<1>2. ASSUME NEW p \in Procs, ReadChunk(p) PROVE TypeOK'
  <2>1. pc[p] \in {"loading", "fetching"} /\ pos[p] \in 0 .. Chunks /\ pos[p] < Chunks
    BY <1>2 DEF ReadChunk, TypeOK
  <2>2. fd[p] \in Inodes /\ pos[p] + 1 \in 1 .. Chunks /\ pos[p] + 1 \in 0 .. Chunks
    <3>1. fd[p] \in Inodes
      BY <2>1 DEF TypeOK, Reading
    <3>2. pos[p] + 1 \in 1 .. Chunks /\ pos[p] + 1 \in 0 .. Chunks
      BY <2>1, Documents
    <3>3. QED
      BY <3>1, <3>2
  <2>3. content[fd[p]][pos[p] + 1] \in 0 .. MaxVersion
    BY <2>2 DEF TypeOK
  <2>4. [got[p] EXCEPT ![pos[p] + 1] = content[fd[p]][pos[p] + 1]]
           \in [1 .. Chunks -> 0 .. MaxVersion]
    BY <2>3, <2>2 DEF TypeOK
  <2>5. /\ got' \in [Procs -> [1 .. Chunks -> 0 .. MaxVersion]]
        /\ \A q \in Procs \ {p} : got'[q] = got[q]
    BY <1>2, <2>4 DEF ReadChunk, TypeOK
  <2>6. pos' \in [Procs -> 0 .. Chunks]
    <3>1. pos' = [pos EXCEPT ![p] = pos[p] + 1] /\ pos \in [Procs -> 0 .. Chunks]
      BY <1>2 DEF ReadChunk, TypeOK
    <3>2. QED
      BY <2>2, <3>1
  <2>7. UNCHANGED <<unique, target, tmp, content, pc, fd, ver, newest, docs, last, overlapped>>
    BY <1>2 DEF ReadChunk, fileVars, docVars
  <2>8. QED
    BY <2>1, <2>5, <2>6, <2>7 DEF TypeOK, Reading
<1>3. ASSUME NEW p \in Procs, CloseFile(p) PROVE TypeOK'
  <2>1. UNCHANGED <<unique, target, tmp, content, newest, docs, last, overlapped>>
    BY <1>3 DEF CloseFile, fileVars, docVars
  <2>2. CASE Leaves(p, "idle")
    BY <2>1, <2>2, LeavesTyped DEF TypeOK, Reading
  <2>3. CASE Whole(got[p]) /\ Turns(p, "chosen", NoInode) /\ UNCHANGED <<got, ver>>
    <3>1. /\ pc' \in [Procs -> PcTypes]
          /\ fd' \in [Procs -> Inodes \cup {NoInode}] /\ pos' \in [Procs -> 0 .. Chunks]
          /\ pc'[p] = "chosen" /\ fd'[p] = NoInode
          /\ \A q \in Procs \ {p} : pc'[q] = pc[q] /\ fd'[q] = fd[q]
      BY <2>3, TurnsTyped DEF PcTypes
    <3>2. QED
      BY <2>1, <2>3, <3>1 DEF TypeOK, Reading, PcTypes
  <2>4. QED
    BY <1>3, <2>2, <2>3 DEF CloseFile
<1>4. ASSUME NEW p \in Procs, NEW i \in Inodes, NEW key \in Keys, OpenTemporary(p, i, key)
      PROVE  TypeOK'
  <2>1. newest' \in 1 .. MaxVersion /\ newest' \in 0 .. MaxVersion
    BY <1>4 DEF OpenTemporary, TypeOK
  <2>2. docs' \in [Versions -> [Keys -> 0 .. MaxVersion]]
    <3>1. pc[p] \in {"idle", "chosen"}
      BY <1>4 DEF OpenTemporary
    <3>2. Changed(p, newest', key) \in [Keys -> 0 .. MaxVersion]
      BY <2>1, <3>1, ChangedTyped
    <3>3. QED
      BY <1>4, <3>2 DEF OpenTemporary, TypeOK
  <2>3. tmp' \subseteq Inodes /\ content' \in [Inodes -> [1 .. Chunks -> 0 .. MaxVersion]]
    <3>1. content' = [content EXCEPT ![i] = Blank] /\ tmp' \in {tmp, tmp \cup {i}}
      BY <1>4 DEF OpenTemporary, Opens, NewFile, Truncate
    <3>2. QED
      BY <3>1 DEF TypeOK
  <2>4. ver' \in [Procs -> 0 .. MaxVersion] /\ ver'[p] \in 1 .. MaxVersion
        /\ \A q \in Procs \ {p} : ver'[q] = ver[q]
    BY <1>4, <2>1 DEF OpenTemporary, TypeOK
  <2>5. /\ pc' \in [Procs -> PcTypes]
        /\ fd' \in [Procs -> Inodes \cup {NoInode}] /\ pos' \in [Procs -> 0 .. Chunks]
        /\ pc'[p] = "writing" /\ fd'[p] = i
        /\ \A q \in Procs \ {p} : pc'[q] = pc[q] /\ fd'[q] = fd[q]
    BY <1>4, TurnsTyped DEF OpenTemporary, PcTypes
  <2>6. UNCHANGED <<unique, target, got, last>> /\ overlapped' \in BOOLEAN
    BY <1>4 DEF OpenTemporary, TypeOK
  <2>7. QED
    BY <2>1, <2>2, <2>3, <2>4, <2>5, <2>6 DEF TypeOK, Reading, PcTypes
<1>5. ASSUME NEW p \in Procs, WriteChunk(p) PROVE TypeOK'
  <2>1. pc[p] = "writing" /\ pos[p] \in 0 .. Chunks /\ pos[p] < Chunks
    BY <1>5 DEF WriteChunk, TypeOK
  <2>2. fd[p] \in Inodes /\ pos[p] + 1 \in 1 .. Chunks /\ ver[p] \in 0 .. MaxVersion
    <3>1. fd[p] \in Inodes /\ ver[p] \in 0 .. MaxVersion
      BY <2>1 DEF TypeOK
    <3>2. pos[p] + 1 \in 1 .. Chunks
      BY <2>1, Documents
    <3>3. QED
      BY <3>1, <3>2
  <2>3. [content[fd[p]] EXCEPT ![pos[p] + 1] = ver[p]] \in [1 .. Chunks -> 0 .. MaxVersion]
    BY <2>2 DEF TypeOK
  <2>4. content' \in [Inodes -> [1 .. Chunks -> 0 .. MaxVersion]]
    BY <1>5, <2>3 DEF WriteChunk, TypeOK
  <2>5. pos' \in [Procs -> 0 .. Chunks]
    <3>1. pos' = [pos EXCEPT ![p] = pos[p] + 1] /\ pos[p] + 1 \in 0 .. Chunks
      BY <1>5, <2>1, <2>2 DEF WriteChunk
    <3>2. QED
      BY <3>1 DEF TypeOK
  <2>6. UNCHANGED <<unique, target, tmp, pc, fd, got, ver, newest, docs, last, overlapped>>
    BY <1>5 DEF WriteChunk, docVars
  <2>7. QED
    BY <2>4, <2>5, <2>6 DEF TypeOK, Reading
<1>6. ASSUME NEW p \in Procs, Rename(p) PROVE TypeOK'
  <2>1. PICK i \in tmp : target' = i /\ tmp' = tmp \ {i}
    BY <1>6 DEF Rename
  <2>2. last' \in [Keys -> 0 .. MaxVersion]
    BY <1>6 DEF Rename, TypeOK
  <2>3. Leaves(p, "idle") /\ UNCHANGED <<unique, content, newest, docs, overlapped>>
    BY <1>6 DEF Rename
  <2>4. QED
    BY <2>1, <2>2, <2>3, LeavesTyped DEF TypeOK, Reading
<1>7. ASSUME NEW p \in Procs, RenameFails(p) \/ WriteFails(p) \/ Die(p) PROVE TypeOK'
  <2>1. /\ Leaves(p, "idle") \/ Leaves(p, "dead")
        /\ UNCHANGED <<unique, target, content, newest, docs, last, overlapped>>
        /\ tmp' \subseteq tmp
    BY <1>7 DEF RenameFails, WriteFails, Die, fileVars, docVars
  <2>2. QED
    BY <2>1, LeavesTyped DEF TypeOK, Reading
<1>8. CASE UNCHANGED vars
  BY <1>8 DEF TypeOK, Reading, vars, fileVars, procVars, docVars
<1>9. QED
  BY <1>1, <1>2, <1>3, <1>4, <1>5, <1>6, <1>7, <1>8 DEF Next, Step

LEMMA TypeInit == Init => TypeOK
<1> SUFFICES ASSUME Init PROVE TypeOK
  OBVIOUS
<1>1. unique \in BOOLEAN /\ overlapped \in BOOLEAN
  BY StorageAssumption DEF Init
<1>2. /\ got \in [Procs -> [1 .. Chunks -> 0 .. MaxVersion]]
      /\ content \in [Inodes -> [1 .. Chunks -> 0 .. MaxVersion]]
  BY Documents DEF Init
<1>3. [k \in Keys |-> 0] \in [Keys -> 0 .. MaxVersion]
  BY Documents, SMT
<1>4. /\ docs \in [Versions -> [Keys -> 0 .. MaxVersion]]
      /\ last \in [Keys -> 0 .. MaxVersion] /\ newest \in 0 .. MaxVersion
  BY <1>3, Documents DEF Init
<1>5. pos \in [Procs -> 0 .. Chunks] /\ ver \in [Procs -> 0 .. MaxVersion]
  BY Documents DEF Init
<1>6. /\ target = NoInode /\ tmp = {} /\ pc = [p \in Procs |-> "idle"]
      /\ fd = [p \in Procs |-> NoInode]
  BY DEF Init
<1>7. QED
  BY <1>1, <1>2, <1>4, <1>5, <1>6 DEF TypeOK, Reading

(* Every variable keeps its type, and who writes or changes the file has     *)
(* something to write (state.py:89-107, secrets.py:26-68).                   *)
THEOREM StorageTyped == Spec => []TypeOK
BY TypeInit, TypeNext, PTL DEF Spec

-----------------------------------------------------------------------------
(* Readers, writers and the file.                                          *)

(* What has the file's name is complete.                                     *)
TargetWhole == target # NoInode => target \notin tmp /\ Whole(content[target])

(* A writer has a temporary open that holds what it wrote so far.            *)
WritersOwn ==
    \A p \in Procs : pc[p] = "writing" =>
        fd[p] \in tmp /\ \A k \in 1 .. pos[p] : content[fd[p]][k] = ver[p]

(* No two writers have the same one.                                         *)
WritersApart ==
    \A p, q \in Procs :
        pc[p] = "writing" /\ pc[q] = "writing" /\ fd[p] = fd[q] => p = q

(* A reader has a complete document open, which is no temporary any more.    *)
ReadersSafe ==
    \A p \in Procs : Reading(p) =>
        /\ fd[p] \notin tmp /\ Whole(content[fd[p]])
        /\ \A k \in 1 .. pos[p] : got[p][k] = content[fd[p]][k]

(* With a fixed name there is one temporary, and one save at a time.         *)
FixedAlone ==
    ~unique => /\ \A i, j \in tmp : i = j
               /\ \A p, q \in Busy : p = q

FileSafe == TargetWhole /\ WritersOwn /\ WritersApart /\ ReadersSafe /\ FixedAlone

FileInv == Sound => FileSafe

(* No step makes the discipline sound again.                                 *)
LEMMA SoundBefore ==
    ASSUME TypeOK, [Next]_vars, Sound'
    PROVE  Sound
<1>1. unique' = unique /\ (overlapped => overlapped')
  <2>1. ASSUME NEW p \in Procs, Step(p) PROVE unique' = unique /\ (overlapped => overlapped')
    <3>1. CASE \E to \in {"loading", "fetching"} : OpenFile(p, to)
      BY <3>1 DEF OpenFile, fileVars
    <3>2. CASE \E i \in Inodes, key \in Keys : OpenTemporary(p, i, key)
      BY <3>2 DEF OpenTemporary
    <3>3. CASE ReadChunk(p) \/ CloseFile(p) \/ WriteChunk(p)
      BY <3>3 DEF ReadChunk, CloseFile, WriteChunk, fileVars
    <3>4. CASE Rename(p) \/ RenameFails(p) \/ WriteFails(p) \/ Die(p)
      BY <3>4 DEF Rename, RenameFails, WriteFails, Die, fileVars
    <3>5. QED
      BY <2>1, <3>1, <3>2, <3>3, <3>4 DEF Step
  <2>2. CASE UNCHANGED vars
    BY <2>2 DEF vars, fileVars
  <2>3. QED
    BY <2>1, <2>2 DEF Next
<1>2. QED
  BY <1>1 DEF Sound, TypeOK

LEMMA FileInit == Init => FileSafe
<1> SUFFICES ASSUME Init PROVE FileSafe
  OBVIOUS
<1>1. \A p \in Procs : pc[p] = "idle"
  BY DEF Init
<1>2. QED
  BY <1>1 DEF Init, FileSafe, TargetWhole, WritersOwn, WritersApart, ReadersSafe, FixedAlone,
              Reading, Busy

(* A process that neither reads nor writes any more leaves the rest safe; at *)
(* most its own temporary is gone.                                           *)
LEMMA RetreatSafe ==
    ASSUME TypeOK, FileSafe, NEW p \in Procs,
           UNCHANGED <<unique, target, content>>,
           tmp' = tmp \/ (pc[p] = "writing" /\ tmp' = tmp \ {fd[p]}),
           pc'[p] \in {"idle", "dead"} \/ (pc[p] = "fetching" /\ pc'[p] = "chosen"),
           \A q \in Procs \ {p} :
              /\ pc'[q] = pc[q] /\ fd'[q] = fd[q] /\ pos'[q] = pos[q]
              /\ got'[q] = got[q] /\ ver'[q] = ver[q]
    PROVE  FileSafe'
<1>1. TargetWhole'
  BY DEF FileSafe, TargetWhole
<1>2. WritersOwn'
  <2>1. SUFFICES ASSUME NEW q \in Procs, pc'[q] = "writing"
                 PROVE  /\ fd'[q] \in tmp'
                        /\ \A k \in 1 .. pos'[q] : content'[fd'[q]][k] = ver'[q]
    BY DEF WritersOwn
  <2>2. q # p /\ pc[q] = "writing" /\ fd'[q] = fd[q] /\ pos'[q] = pos[q] /\ ver'[q] = ver[q]
    BY <2>1
  <2>3. fd[q] \in tmp /\ \A k \in 1 .. pos[q] : content[fd[q]][k] = ver[q]
    BY <2>2 DEF FileSafe, WritersOwn
  <2>4. pc[p] = "writing" => fd[q] # fd[p]
    BY <2>2 DEF FileSafe, WritersApart
  <2>5. QED
    BY <2>2, <2>3, <2>4
<1>3. WritersApart'
  BY DEF FileSafe, WritersApart
<1>4. ReadersSafe'
  <2>1. SUFFICES ASSUME NEW q \in Procs, Reading(q)'
                 PROVE  /\ fd'[q] \notin tmp' /\ Whole(content'[fd'[q]])
                        /\ \A k \in 1 .. pos'[q] : got'[q][k] = content'[fd'[q]][k]
    BY DEF ReadersSafe, Whole
  <2>2. /\ q # p /\ Reading(q) /\ fd'[q] = fd[q] /\ pos'[q] = pos[q]
        /\ got'[q] = got[q] /\ content' = content
    BY <2>1 DEF Reading
  <2>3. /\ fd[q] \notin tmp /\ Whole(content[fd[q]])
        /\ \A k \in 1 .. pos[q] : got[q][k] = content[fd[q]][k]
    BY <2>2 DEF FileSafe, ReadersSafe
  <2>4. QED
    BY <2>2, <2>3
<1>5. FixedAlone'
  <2>1. Busy' \subseteq Busy
    BY DEF Busy
  <2>2. QED
    BY <2>1 DEF FileSafe, FixedAlone
<1>6. QED
  BY <1>1, <1>2, <1>3, <1>4, <1>5 DEF FileSafe

(* Reading: a file is opened, read, closed.                                  *)
LEMMA OpenSafe ==
    ASSUME TypeOK, FileSafe, NEW p \in Procs, NEW to \in {"loading", "fetching"},
           OpenFile(p, to)
    PROVE  FileSafe'
<1>1. PICK next \in PcTypes, inode \in Inodes \cup {NoInode} :
        /\ Turns(p, next, inode) /\ next # "writing"
        /\ next \in {"loading", "fetching"} => inode = target /\ target # NoInode
        /\ next \in {"fetching", "chosen"} => unique
  BY DEF OpenFile, PcTypes, TypeOK
<1>2. /\ pc'[p] = next /\ fd'[p] = inode /\ pos'[p] = 0
      /\ \A q \in Procs \ {p} : pc'[q] = pc[q] /\ fd'[q] = fd[q] /\ pos'[q] = pos[q]
  BY <1>1, TurnsTyped DEF PcTypes
<1>3. /\ UNCHANGED <<unique, target, tmp, content, ver>>
      /\ \A q \in Procs \ {p} : got'[q] = got[q]
  BY DEF OpenFile, fileVars, TypeOK
<1>4. TargetWhole'
  BY <1>3 DEF FileSafe, TargetWhole
<1>5. WritersOwn' /\ WritersApart'
  BY <1>1, <1>2, <1>3 DEF FileSafe, WritersOwn, WritersApart
<1>6. ReadersSafe'
  <2>1. SUFFICES ASSUME NEW q \in Procs, Reading(q)'
                 PROVE  /\ fd'[q] \notin tmp' /\ Whole(content'[fd'[q]])
                        /\ \A k \in 1 .. pos'[q] : got'[q][k] = content'[fd'[q]][k]
    BY DEF ReadersSafe, Whole
  <2>2. CASE q = p
    <3>1. fd'[q] = target /\ target # NoInode /\ pos'[q] = 0
      BY <1>1, <1>2, <2>1, <2>2 DEF Reading
    <3>2. target \notin tmp /\ Whole(content[target])
      BY <3>1 DEF FileSafe, TargetWhole
    <3>3. QED
      BY <1>3, <3>1, <3>2, SMT
  <2>3. CASE q # p
    <3>1. /\ Reading(q) /\ fd'[q] = fd[q] /\ pos'[q] = pos[q] /\ got'[q] = got[q]
      BY <1>2, <1>3, <2>1, <2>3 DEF Reading
    <3>2. QED
      BY <1>3, <3>1 DEF FileSafe, ReadersSafe
  <2>4. QED
    BY <2>2, <2>3
<1>7. FixedAlone'
  <2>1. ~unique => Busy' \subseteq Busy
    BY <1>1, <1>2 DEF Busy
  <2>2. QED
    BY <1>3, <2>1 DEF FileSafe, FixedAlone
<1>8. QED
  BY <1>4, <1>5, <1>6, <1>7 DEF FileSafe

LEMMA ReadSafe ==
    ASSUME TypeOK, FileSafe, NEW p \in Procs, ReadChunk(p)
    PROVE  FileSafe'
<1>1. /\ UNCHANGED <<unique, target, tmp, content, pc, fd, ver>>
      /\ pos' = [pos EXCEPT ![p] = pos[p] + 1]
      /\ got' = [got EXCEPT ![p] = [got[p] EXCEPT ![pos[p] + 1] = content[fd[p]][pos[p] + 1]]]
      /\ Reading(p) /\ pos[p] < Chunks
  BY DEF ReadChunk, fileVars, Reading
<1>2. TargetWhole' /\ FixedAlone'
  BY <1>1 DEF FileSafe, TargetWhole, FixedAlone, Busy
<1>3. \A q \in Procs \ {p} : pos'[q] = pos[q] /\ got'[q] = got[q]
  BY <1>1 DEF TypeOK
<1>4. WritersOwn' /\ WritersApart'
  BY <1>1, <1>3 DEF FileSafe, WritersOwn, WritersApart, Reading
<1>5. ReadersSafe'
  <2>1. SUFFICES ASSUME NEW q \in Procs, Reading(q)'
                 PROVE  /\ fd'[q] \notin tmp' /\ Whole(content'[fd'[q]])
                        /\ \A k \in 1 .. pos'[q] : got'[q][k] = content'[fd'[q]][k]
    BY DEF ReadersSafe, Whole
  <2>2. /\ Reading(q) /\ fd'[q] = fd[q] /\ content' = content /\ tmp' = tmp
    BY <1>1, <2>1 DEF Reading
  <2>3. /\ fd[q] \notin tmp /\ Whole(content[fd[q]])
        /\ \A k \in 1 .. pos[q] : got[q][k] = content[fd[q]][k]
    BY <2>2 DEF FileSafe, ReadersSafe
  <2>4. CASE q = p
    <3>1. pos'[p] = pos[p] + 1 /\ pos[p] \in 0 .. Chunks /\ Chunks \in Nat
      BY <1>1, Documents DEF TypeOK
    <3>2. got'[p] = [got[p] EXCEPT ![pos[p] + 1] = content[fd[p]][pos[p] + 1]]
          /\ got[p] \in [1 .. Chunks -> 0 .. MaxVersion]
      BY <1>1 DEF TypeOK
    <3>3. \A k \in 1 .. pos'[p] : got'[p][k] = content[fd[p]][k]
      BY <1>1, <2>3, <2>4, <3>1, <3>2
    <3>4. QED
      BY <2>2, <2>3, <2>4, <3>3
  <2>5. CASE q # p
    BY <1>3, <2>2, <2>3, <2>5
  <2>6. QED
    BY <2>4, <2>5
<1>6. QED
  BY <1>2, <1>4, <1>5 DEF FileSafe

LEMMA CloseSafe ==
    ASSUME TypeOK, FileSafe, NEW p \in Procs, CloseFile(p)
    PROVE  FileSafe'
<1>1. UNCHANGED <<unique, target, tmp, content>>
  BY DEF CloseFile, fileVars
<1>2. CASE Leaves(p, "idle")
  BY <1>1, <1>2, LeavesTyped, RetreatSafe
<1>3. CASE pc[p] = "fetching" /\ Turns(p, "chosen", NoInode) /\ UNCHANGED <<got, ver>>
  BY <1>1, <1>3, TurnsTyped, RetreatSafe
<1>4. QED
  BY <1>2, <1>3 DEF CloseFile

(* Writing: a temporary is opened, written, renamed. With a fixed name the   *)
(* one that is there is nobody's, or the discipline is broken.               *)
LEMMA TemporarySafe ==
    ASSUME TypeOK, FileSafe, NEW p \in Procs, NEW i \in Inodes, NEW key \in Keys,
           OpenTemporary(p, i, key), Sound'
    PROVE  FileSafe'
<1>1. /\ pc'[p] = "writing" /\ fd'[p] = i /\ pos'[p] = 0
      /\ \A q \in Procs \ {p} : pc'[q] = pc[q] /\ fd'[q] = fd[q] /\ pos'[q] = pos[q]
  <2>1. Turns(p, "writing", i)
    BY DEF OpenTemporary
  <2>2. QED
    BY <2>1, TurnsTyped
<1>2. /\ UNCHANGED <<unique, target, got>> /\ pc[p] \in {"idle", "chosen"}
      /\ \A q \in Procs \ {p} : ver'[q] = ver[q]
      /\ overlapped' = (overlapped \/ Busy \ {p} # {})
  BY DEF OpenTemporary, TypeOK
<1>3. /\ tmp' = tmp \cup {i}
      /\ \A j \in Inodes \ {i} : content'[j] = content[j]
  BY DEF OpenTemporary, Opens, NewFile, Truncate, TypeOK
<1>4. ~unique => Busy \ {p} = {}
  BY <1>2 DEF Sound, TypeOK
<1>5. /\ i # target
      /\ \A q \in Procs \ {p} : Reading(q) \/ pc[q] = "writing" => fd[q] # i
  <2>1. CASE NewFile(i)
    BY <2>1 DEF NewFile, Free
  <2>2. CASE ~unique /\ Truncate(i)
    <3>1. i \in tmp /\ \A q \in Procs \ {p} : pc[q] # "writing"
      BY <1>4, <2>2 DEF Truncate, Busy
    <3>2. \A q \in Procs : Reading(q) => fd[q] \notin tmp
      BY DEF FileSafe, ReadersSafe
    <3>3. target \in Inodes => target \notin tmp
      BY StorageAssumption DEF FileSafe, TargetWhole
    <3>4. QED
      BY <3>1, <3>2, <3>3
  <2>3. QED
    BY <2>1, <2>2 DEF OpenTemporary, Opens
<1>6. TargetWhole'
  <2>1. target # NoInode => target \in Inodes /\ target \notin tmp /\ Whole(content[target])
    BY DEF FileSafe, TargetWhole, TypeOK
  <2>2. QED
    BY <1>2, <1>3, <1>5, <2>1 DEF TargetWhole, Whole
<1>7. WritersOwn'
  <2>1. SUFFICES ASSUME NEW q \in Procs, pc'[q] = "writing"
                 PROVE  /\ fd'[q] \in tmp'
                        /\ \A k \in 1 .. pos'[q] : content'[fd'[q]][k] = ver'[q]
    BY DEF WritersOwn
  <2>2. CASE q = p
    BY <1>1, <1>3, <2>2
  <2>3. CASE q # p
    <3>1. /\ pc[q] = "writing" /\ fd'[q] = fd[q] /\ pos'[q] = pos[q] /\ ver'[q] = ver[q]
          /\ fd[q] \in Inodes /\ fd[q] # i
      BY <1>1, <1>2, <1>5, <2>1, <2>3 DEF TypeOK
    <3>2. fd[q] \in tmp /\ \A k \in 1 .. pos[q] : content[fd[q]][k] = ver[q]
      BY <3>1 DEF FileSafe, WritersOwn
    <3>3. content'[fd[q]] = content[fd[q]]
      BY <1>3, <3>1
    <3>4. QED
      BY <1>3, <3>1, <3>2, <3>3
  <2>4. QED
    BY <2>2, <2>3
<1>8. WritersApart'
  BY <1>1, <1>5 DEF FileSafe, WritersApart
<1>9. ReadersSafe'
  <2>1. SUFFICES ASSUME NEW q \in Procs, Reading(q)'
                 PROVE  /\ fd'[q] \notin tmp' /\ Whole(content[fd[q]])
                        /\ content'[fd'[q]] = content[fd[q]]
                        /\ \A k \in 1 .. pos'[q] : got'[q][k] = content'[fd'[q]][k]
    BY DEF ReadersSafe, Whole
  <2>2. /\ q # p /\ Reading(q) /\ fd'[q] = fd[q] /\ pos'[q] = pos[q] /\ got' = got
        /\ fd[q] \in Inodes /\ fd[q] # i
    BY <1>1, <1>2, <1>5, <2>1 DEF Reading, TypeOK
  <2>3. /\ fd[q] \notin tmp /\ Whole(content[fd[q]])
        /\ \A k \in 1 .. pos[q] : got[q][k] = content[fd[q]][k]
    BY <2>2 DEF FileSafe, ReadersSafe
  <2>4. content'[fd[q]] = content[fd[q]]
    BY <1>3, <2>2
  <2>5. QED
    BY <1>3, <2>2, <2>3, <2>4
<1>10. FixedAlone'
  <2>1. SUFFICES ASSUME ~unique
                 PROVE  /\ \A x, y \in tmp' : x = y
                        /\ \A x, y \in Busy' : x = y
    BY <1>2 DEF FixedAlone
  <2>2. \A x, y \in tmp' : x = y
    <3>1. tmp = {} \/ i \in tmp
      BY <2>1 DEF OpenTemporary, Opens, Truncate
    <3>2. QED
      BY <1>3, <2>1, <3>1 DEF FileSafe, FixedAlone
  <2>3. Busy' \subseteq {p}
    BY <1>1, <1>4, <2>1 DEF Busy
  <2>4. QED
    BY <2>2, <2>3
<1>11. QED
  BY <1>6, <1>7, <1>8, <1>9, <1>10 DEF FileSafe

LEMMA WriteSafe ==
    ASSUME TypeOK, FileSafe, NEW p \in Procs, WriteChunk(p)
    PROVE  FileSafe'
<1>1. /\ UNCHANGED <<unique, target, tmp, pc, fd, got, ver>>
      /\ pc[p] = "writing" /\ pos[p] \in 0 .. Chunks /\ pos[p] < Chunks
      /\ pos' = [pos EXCEPT ![p] = pos[p] + 1]
      /\ content' = [content EXCEPT ![fd[p]] = [content[fd[p]] EXCEPT ![pos[p] + 1] = ver[p]]]
  BY DEF WriteChunk, TypeOK
<1>2. fd[p] \in tmp /\ fd[p] \in Inodes
  BY <1>1 DEF FileSafe, WritersOwn, TypeOK
<1>3. /\ \A j \in Inodes \ {fd[p]} : content'[j] = content[j]
      /\ content'[fd[p]] = [content[fd[p]] EXCEPT ![pos[p] + 1] = ver[p]]
      /\ pos'[p] = pos[p] + 1
      /\ \A q \in Procs \ {p} : pos'[q] = pos[q]
  BY <1>1, <1>2 DEF TypeOK
<1>4. TargetWhole'
  <2>1. target # NoInode => target \in Inodes /\ target \notin tmp /\ Whole(content[target])
    BY DEF FileSafe, TargetWhole, TypeOK
  <2>2. target # NoInode => content'[target] = content[target]
    BY <1>2, <1>3, <2>1
  <2>3. QED
    BY <1>1, <2>1, <2>2 DEF TargetWhole, Whole
<1>5. WritersOwn'
  <2>1. SUFFICES ASSUME NEW q \in Procs, pc[q] = "writing"
                 PROVE  /\ fd[q] \in tmp
                        /\ \A k \in 1 .. pos'[q] : content'[fd[q]][k] = ver[q]
    BY <1>1 DEF WritersOwn
  <2>2. fd[q] \in tmp /\ \A k \in 1 .. pos[q] : content[fd[q]][k] = ver[q]
    BY <2>1 DEF FileSafe, WritersOwn
  <2>3. CASE q = p
    <3>1. content[fd[p]] \in [1 .. Chunks -> 0 .. MaxVersion] /\ Chunks \in Nat
      BY <1>2, Documents DEF TypeOK
    <3>2. \A k \in 1 .. pos'[p] : content'[fd[p]][k] = ver[p]
      BY <1>1, <1>3, <2>2, <2>3, <3>1
    <3>3. QED
      BY <2>2, <2>3, <3>2
  <2>4. CASE q # p
    <3>1. fd[q] # fd[p] /\ fd[q] \in Inodes
      BY <1>1, <2>1, <2>4 DEF FileSafe, WritersApart, TypeOK
    <3>2. content'[fd[q]] = content[fd[q]] /\ pos'[q] = pos[q]
      BY <1>3, <2>4, <3>1
    <3>3. QED
      BY <2>2, <3>2
  <2>5. QED
    BY <2>3, <2>4
<1>6. ReadersSafe'
  <2>1. SUFFICES ASSUME NEW q \in Procs, Reading(q)
                 PROVE  /\ fd[q] \notin tmp /\ Whole(content[fd[q]])
                        /\ content'[fd[q]] = content[fd[q]]
                        /\ \A k \in 1 .. pos'[q] : got[q][k] = content'[fd[q]][k]
    BY <1>1 DEF ReadersSafe, Reading, Whole
  <2>2. /\ fd[q] \notin tmp /\ Whole(content[fd[q]])
        /\ \A k \in 1 .. pos[q] : got[q][k] = content[fd[q]][k]
    BY <2>1 DEF FileSafe, ReadersSafe
  <2>3. fd[q] \in Inodes /\ q # p /\ fd[q] # fd[p]
    BY <1>1, <1>2, <2>1, <2>2 DEF TypeOK, Reading
  <2>4. content'[fd[q]] = content[fd[q]] /\ pos'[q] = pos[q]
    BY <1>3, <2>3
  <2>5. QED
    BY <2>2, <2>4
<1>7. WritersApart' /\ FixedAlone'
  BY <1>1 DEF FileSafe, WritersApart, FixedAlone, Busy
<1>8. QED
  BY <1>4, <1>5, <1>6, <1>7 DEF FileSafe

(* What is renamed is what the process wrote, and it is complete.            *)
LEMMA RenamedOwn ==
    ASSUME TypeOK, FileSafe, NEW p \in Procs, Rename(p)
    PROVE  /\ pc[p] = "writing" /\ ver[p] \in Versions /\ target' = fd[p] /\ fd[p] \in Inodes
           /\ tmp' = tmp \ {fd[p]} /\ UNCHANGED <<unique, content>>
           /\ \A k \in 1 .. Chunks : content[fd[p]][k] = ver[p]
           /\ Whole(content[fd[p]])
<1>1. PICK i \in tmp : (unique => i = fd[p]) /\ target' = i /\ tmp' = tmp \ {i}
  BY DEF Rename
<1>2. pc[p] = "writing" /\ pos[p] = Chunks /\ UNCHANGED <<unique, content>>
  BY DEF Rename
<1>3. /\ fd[p] \in tmp /\ fd[p] \in Inodes /\ ver[p] \in Versions
      /\ \A k \in 1 .. Chunks : content[fd[p]][k] = ver[p]
  BY <1>2 DEF FileSafe, WritersOwn, TypeOK
<1>4. i = fd[p]
  BY <1>1, <1>3 DEF FileSafe, FixedAlone
<1>5. Whole(content[fd[p]])
  BY <1>3, Documents DEF TypeOK
<1>6. QED
  BY <1>1, <1>2, <1>3, <1>4, <1>5

LEMMA RenameSafe ==
    ASSUME TypeOK, FileSafe, NEW p \in Procs, Rename(p)
    PROVE  FileSafe'
<1>1. Leaves(p, "idle")
  BY DEF Rename
<1>2. /\ pc'[p] = "idle"
      /\ \A q \in Procs \ {p} :
            /\ pc'[q] = pc[q] /\ fd'[q] = fd[q] /\ pos'[q] = pos[q]
            /\ got'[q] = got[q] /\ ver'[q] = ver[q]
  BY <1>1, LeavesTyped
<1>3. /\ pc[p] = "writing" /\ target' = fd[p] /\ tmp' = tmp \ {fd[p]}
      /\ UNCHANGED <<unique, content>> /\ Whole(content[fd[p]])
  BY RenamedOwn
<1>4. TargetWhole'
  BY <1>3 DEF TargetWhole, Whole
<1>5. WritersOwn'
  <2>1. SUFFICES ASSUME NEW q \in Procs, pc'[q] = "writing"
                 PROVE  /\ fd'[q] \in tmp'
                        /\ \A k \in 1 .. pos'[q] : content'[fd'[q]][k] = ver'[q]
    BY DEF WritersOwn
  <2>2. q # p /\ pc[q] = "writing" /\ fd'[q] = fd[q] /\ pos'[q] = pos[q] /\ ver'[q] = ver[q]
    BY <1>2, <2>1
  <2>3. fd[q] \in tmp /\ \A k \in 1 .. pos[q] : content[fd[q]][k] = ver[q]
    BY <2>2 DEF FileSafe, WritersOwn
  <2>4. fd[q] # fd[p]
    BY <1>3, <2>2 DEF FileSafe, WritersApart
  <2>5. QED
    BY <1>3, <2>2, <2>3, <2>4
<1>6. WritersApart'
  BY <1>2 DEF FileSafe, WritersApart
<1>7. ReadersSafe'
  <2>1. SUFFICES ASSUME NEW q \in Procs, Reading(q)'
                 PROVE  /\ fd'[q] \notin tmp' /\ Whole(content'[fd'[q]])
                        /\ \A k \in 1 .. pos'[q] : got'[q][k] = content'[fd'[q]][k]
    BY DEF ReadersSafe, Whole
  <2>2. /\ q # p /\ Reading(q) /\ fd'[q] = fd[q] /\ pos'[q] = pos[q] /\ got'[q] = got[q]
    BY <1>2, <2>1 DEF Reading
  <2>3. QED
    BY <1>3, <2>2 DEF FileSafe, ReadersSafe
<1>8. FixedAlone'
  <2>1. Busy' \subseteq Busy
    BY <1>2 DEF Busy
  <2>2. QED
    BY <1>3, <2>1 DEF FileSafe, FixedAlone
<1>9. QED
  BY <1>4, <1>5, <1>6, <1>7, <1>8 DEF FileSafe

(* Failing and dying.                                                        *)
LEMMA FailSafe ==
    ASSUME TypeOK, FileSafe, NEW p \in Procs, RenameFails(p) \/ WriteFails(p) \/ Die(p)
    PROVE  FileSafe'
<1>1. /\ UNCHANGED <<unique, target, content>>
      /\ tmp' = tmp \/ (pc[p] = "writing" /\ tmp' = tmp \ {fd[p]})
      /\ Leaves(p, "idle") \/ Leaves(p, "dead")
  BY DEF RenameFails, WriteFails, Die, fileVars
<1>2. QED
  BY <1>1, LeavesTyped, RetreatSafe

LEMMA FileNext == TypeOK /\ FileInv /\ [Next]_vars => FileInv'
<1> SUFFICES ASSUME TypeOK, FileInv, [Next]_vars, Sound' PROVE FileSafe'
  BY DEF FileInv
<1>1. FileSafe
  BY SoundBefore DEF FileInv
<1>2. ASSUME NEW p \in Procs, Step(p) PROVE FileSafe'
  <2>1. CASE \E to \in {"loading", "fetching"} : OpenFile(p, to)
    BY <1>1, <2>1, OpenSafe
  <2>2. CASE \E i \in Inodes, key \in Keys : OpenTemporary(p, i, key)
    BY <1>1, <2>2, TemporarySafe
  <2>3. QED
    BY <1>1, <1>2, <2>1, <2>2, ReadSafe, CloseSafe, WriteSafe, RenameSafe, FailSafe DEF Step
<1>3. CASE UNCHANGED vars
  <2>1. UNCHANGED <<unique, target, tmp, content, pc, fd, pos, got, ver>>
    BY <1>3 DEF vars, fileVars, procVars
  <2>2. TargetWhole' /\ WritersOwn' /\ WritersApart' /\ FixedAlone'
    BY <1>1, <2>1 DEF FileSafe, TargetWhole, WritersOwn, WritersApart, FixedAlone, Busy, Whole
  <2>3. ReadersSafe'
    BY <1>1, <2>1 DEF FileSafe, ReadersSafe, Reading, Whole
  <2>4. QED
    BY <2>2, <2>3 DEF FileSafe
<1>4. QED
  BY <1>2, <1>3 DEF Next

(* The invariant of the file, and who reads and writes it.                   *)
THEOREM FileInvariant == Spec => [](TypeOK /\ FileInv)
<1>1. Init => TypeOK /\ FileInv
  BY TypeInit, FileInit DEF FileInv
<1>2. TypeOK /\ FileInv /\ [Next]_vars => (TypeOK /\ FileInv)'
  BY TypeNext, FileNext
<1>3. QED
  BY <1>1, <1>2, PTL DEF Spec

(* Whoever reads the file reads one version from beginning to end, whatever  *)
(* writers do, fail or die meanwhile (state.py:89-107, secrets.py:26-46).    *)
THEOREM ReadersSeeWholeFiles == Spec => []ReadersSeeWhole
<1>1. TypeOK /\ FileInv => ReadersSeeWhole
  <2>1. SUFFICES ASSUME TypeOK, FileInv, Sound, NEW p \in Procs, Reading(p), pos[p] = Chunks
                 PROVE  Whole(got[p])
    BY DEF ReadersSeeWhole
  <2>2. fd[p] \in Inodes
    BY <2>1 DEF TypeOK
  <2>3. /\ Whole(content[fd[p]])
        /\ \A k \in 1 .. Chunks : got[p][k] = content[fd[p]][k]
    BY <2>1 DEF FileInv, FileSafe, ReadersSafe
  <2>4. PICK v \in Versions : content[fd[p]] = [k \in 1 .. Chunks |-> v]
    BY <2>3 DEF Whole
  <2>5. got[p] \in [1 .. Chunks -> 0 .. MaxVersion] /\ \A k \in 1 .. Chunks : got[p][k] = v
    BY <2>1, <2>3, <2>4 DEF TypeOK
  <2>6. QED
    BY <2>5, Documents
<1>2. QED
  BY <1>1, FileInvariant, PTL

-----------------------------------------------------------------------------
(* The file is a register.                                                 *)

View == [p \in Procs |-> IF Reading(p) THEN VersionIn(fd[p]) ELSE 0]

(* The view of one process after a step, and of the others.                  *)
LEMMA ViewOf ==
    /\ View' = [q \in Procs |-> IF pc'[q] \in {"loading", "fetching"}
                               THEN IF fd'[q] = NoInode THEN 0 ELSE content'[fd'[q]][1]
                               ELSE 0]
    /\ View = [q \in Procs |-> IF pc[q] \in {"loading", "fetching"}
                              THEN IF fd[q] = NoInode THEN 0 ELSE content[fd[q]][1]
                              ELSE 0]
BY DEF View, Reading, VersionIn

(* A process that does not read has nothing in view; the others see what     *)
(* they saw.                                                                 *)
LEMMA ViewClosed ==
    ASSUME NEW p \in Procs, content' = content, pc'[p] \notin {"loading", "fetching"},
           \A q \in Procs \ {p} : pc'[q] = pc[q] /\ fd'[q] = fd[q]
    PROVE  View' = [View EXCEPT ![p] = 0]
BY ViewOf

(* Changes of files that nobody reads are not seen.                          *)
LEMMA ViewKept ==
    ASSUME TypeOK, FileSafe,
           \A q \in Procs : Reading(q) \/ pc'[q] \in {"loading", "fetching"} =>
              pc'[q] = pc[q] /\ fd'[q] = fd[q],
           \A j \in Inodes \ tmp : content'[j] = content[j] \/ Free(j)
    PROVE  View' = View
<1>1. ASSUME NEW q \in Procs, Reading(q)
      PROVE  fd[q] \in Inodes /\ content'[fd[q]] = content[fd[q]]
  BY <1>1 DEF FileSafe, ReadersSafe, TypeOK, Free
<1>2. \A q \in Procs :
        /\ Reading(q) <=> pc'[q] \in {"loading", "fetching"}
        /\ Reading(q) => fd'[q] = fd[q]
  BY DEF Reading
<1>3. ASSUME NEW q \in Procs
      PROVE  (IF pc'[q] \in {"loading", "fetching"}
              THEN IF fd'[q] = NoInode THEN 0 ELSE content'[fd'[q]][1] ELSE 0)
             = (IF pc[q] \in {"loading", "fetching"}
                THEN IF fd[q] = NoInode THEN 0 ELSE content[fd[q]][1] ELSE 0)
  BY <1>1, <1>2 DEF Reading
<1>4. QED
  BY <1>3, ViewOf

(* Opening, closing and replacing are those of the register.                 *)
LEMMA RegisterSteps ==
    ASSUME TypeOK, Sound, Sound', NEW p \in Procs
    PROVE  /\ /\ View' = [View EXCEPT ![p] = VersionIn(target)]
              /\ VersionIn(target)' = VersionIn(target)
              => Register!Next
           /\ /\ View' = [View EXCEPT ![p] = 0]
              /\ VersionIn(target)' = VersionIn(target)
              => Register!Next
           /\ VersionIn(target)' \in Versions /\ View' = View => Register!Next
<1>1. Sound' = TRUE
  BY DEF Sound, TypeOK
<1>2. View' = [View EXCEPT ![p] = VersionIn(target)]
      /\ VersionIn(target)' = VersionIn(target) => Register!Open(p)
  BY <1>1 DEF Register!Open, View
<1>3. View' = [View EXCEPT ![p] = 0] /\ VersionIn(target)' = VersionIn(target)
        => Register!Close(p)
  BY <1>1 DEF Register!Close, View
<1>4. ASSUME VersionIn(target)' \in Versions, View' = View
      PROVE  \E v \in Versions : Register!Replace(v)
  BY <1>1, <1>4 DEF Register!Replace, View
<1>5. QED
  BY <1>2, <1>3, <1>4 DEF Register!Next

(* A step of a process, as long as the discipline holds, is one of the       *)
(* register or changes nothing in it.                                        *)
LEMMA StepRefines ==
    ASSUME TypeOK, FileSafe, Sound, Sound', NEW p \in Procs, Step(p)
    PROVE  Register!Next \/ (VersionIn(target)' = VersionIn(target) /\ View' = View)
<1> DEFINE Same == VersionIn(target)' = VersionIn(target)
<1>1. ASSUME NEW to \in {"loading", "fetching"}, OpenFile(p, to)
      PROVE  View' = [View EXCEPT ![p] = VersionIn(target)] /\ Same
  <2>1. target \in Inodes \cup {NoInode} /\ UNCHANGED <<target, content>>
    BY <1>1 DEF OpenFile, fileVars, TypeOK
  <2>2. PICK next \in PcTypes, inode \in Inodes \cup {NoInode} :
          /\ Turns(p, next, inode)
          /\ next \in {"loading", "fetching"} => inode = target
          /\ next \notin {"loading", "fetching"} => target = NoInode
    BY <1>1, <2>1 DEF OpenFile, PcTypes
  <2>3. /\ pc'[p] = next /\ fd'[p] = inode
        /\ \A q \in Procs \ {p} : pc'[q] = pc[q] /\ fd'[q] = fd[q]
    BY <2>2, TurnsTyped DEF PcTypes
  <2>4. View'[p] = VersionIn(target) /\ \A q \in Procs \ {p} : View'[q] = View[q]
    BY <2>1, <2>2, <2>3, ViewOf DEF VersionIn
  <2>5. QED
    BY <2>1, <2>4, ViewOf DEF VersionIn
<1>2. CASE ReadChunk(p)
  <2>1. UNCHANGED <<target, content, pc, fd>>
    BY <1>2 DEF ReadChunk, fileVars
  <2>2. QED
    BY <2>1, ViewOf DEF VersionIn
<1>3. CASE CloseFile(p) \/ RenameFails(p) \/ WriteFails(p) \/ Die(p)
  <2>1. /\ UNCHANGED <<target, content>>
        /\ Leaves(p, "idle") \/ Leaves(p, "dead") \/ Turns(p, "chosen", NoInode)
    BY <1>3 DEF CloseFile, RenameFails, WriteFails, Die, fileVars
  <2>2. /\ pc'[p] \in {"idle", "dead", "chosen"}
        /\ \A q \in Procs \ {p} : pc'[q] = pc[q] /\ fd'[q] = fd[q]
    BY <2>1, LeavesTyped, TurnsTyped
  <2>3. View' = [View EXCEPT ![p] = 0] /\ Same
    BY <2>1, <2>2, ViewClosed DEF VersionIn
  <2>4. QED
    BY <2>3, RegisterSteps
<1>4. ASSUME NEW i \in Inodes, NEW key \in Keys, OpenTemporary(p, i, key)
      PROVE  Same /\ View' = View
  <2>1. Turns(p, "writing", i) /\ pc[p] \in {"idle", "chosen"} /\ target' = target
    BY <1>4 DEF OpenTemporary
  <2>2. /\ pc'[p] = "writing"
        /\ \A q \in Procs \ {p} : pc'[q] = pc[q] /\ fd'[q] = fd[q]
    BY <2>1, TurnsTyped
  <2>3. /\ \A j \in Inodes \ {i} : content'[j] = content[j]
        /\ i \in tmp \/ Free(i)
    BY <1>4 DEF OpenTemporary, Opens, NewFile, Truncate, TypeOK
  <2>4. \A j \in Inodes \ tmp : content'[j] = content[j] \/ Free(j)
    BY <2>3
  <2>5. View' = View
    BY <2>1, <2>2, <2>4, ViewKept DEF Reading
  <2>6. target \in Inodes => target # i
    BY <2>3, StorageAssumption DEF FileSafe, TargetWhole, Free
  <2>7. QED
    BY <2>1, <2>3, <2>5, <2>6 DEF VersionIn, TypeOK
<1>5. CASE WriteChunk(p)
  <2>1. /\ UNCHANGED <<target, pc, fd>> /\ pc[p] = "writing" /\ fd[p] \in tmp
        /\ \A j \in Inodes \ {fd[p]} : content'[j] = content[j]
    BY <1>5 DEF WriteChunk, TypeOK, FileSafe, WritersOwn
  <2>2. View' = View
    BY <2>1, ViewKept DEF Reading
  <2>3. target \in Inodes => target # fd[p]
    BY <2>1, StorageAssumption DEF FileSafe, TargetWhole
  <2>4. QED
    BY <2>1, <2>2, <2>3 DEF VersionIn, TypeOK
<1>6. CASE Rename(p)
  <2>1. /\ pc[p] = "writing" /\ ver[p] \in Versions /\ target' = fd[p] /\ fd[p] \in Inodes
        /\ content' = content /\ \A k \in 1 .. Chunks : content[fd[p]][k] = ver[p]
    BY <1>6, RenamedOwn
  <2>2. VersionIn(target)' \in Versions
    BY <2>1, StorageAssumption, Documents DEF VersionIn
  <2>3. Leaves(p, "idle")
    BY <1>6 DEF Rename
  <2>4. View' = View
    BY <2>1, <2>3, LeavesTyped, ViewKept DEF Reading
  <2>5. QED
    BY <2>2, <2>4, RegisterSteps
<1>7. QED
  BY <1>1, <1>2, <1>3, <1>4, <1>5, <1>6, RegisterSteps DEF Step

(* As long as the discipline holds, the file is a register: whoever opens it *)
(* gets the version put in place last, and keeps it until it is closed.      *)
THEOREM FileIsRegister == Spec => RegisterKept
<1>1. Init => Register!Init
  <2>1. SUFFICES ASSUME Init PROVE Register!Init
    OBVIOUS
  <2>2. /\ Sound = TRUE /\ VersionIn(target) = 0
        /\ \A p \in Procs : ~Reading(p)
    BY <2>1 DEF Init, Sound, VersionIn, Reading
  <2>3. QED
    BY <2>2 DEF Register!Init
<1>2. TypeOK /\ FileInv /\ [Next]_vars => [Register!Next]_<<Sound, VersionIn(target), View>>
  <2>1. SUFFICES ASSUME TypeOK, FileInv, [Next]_vars
                 PROVE  [Register!Next]_<<Sound, VersionIn(target), View>>
    OBVIOUS
  <2>2. CASE ~Sound'
    <3>1. Sound' = FALSE
      BY <2>2
    <3>2. QED
      BY <3>1 DEF Register!Next, Register!Spoil
  <2>3. CASE Sound' /\ UNCHANGED vars
    BY <2>3 DEF vars, fileVars, procVars, Sound, VersionIn, View, Reading
  <2>4. ASSUME Sound', NEW p \in Procs, Step(p)
        PROVE  [Register!Next]_<<Sound, VersionIn(target), View>>
    <3>1. Sound /\ FileSafe
      BY <2>1, <2>4, SoundBefore DEF FileInv
    <3>2. Sound' = TRUE /\ Sound = TRUE
      BY <2>1, <2>4, <3>1 DEF Sound, TypeOK
    <3>3. QED
      BY <2>1, <2>4, <3>1, <3>2, StepRefines
  <2>5. QED
    BY <2>1, <2>2, <2>3, <2>4 DEF Next
<1>3. QED
  BY <1>1, <1>2, FileInvariant, PTL DEF Spec, RegisterKept, Register!Spec, View

-----------------------------------------------------------------------------
(* No change is lost.                                                      *)

(* Versions in files and in the hands of writers were given away.            *)
Known ==
    /\ \A i \in Inodes : \A k \in 1 .. Chunks : content[i][k] <= newest
    /\ \A p \in Procs : ver[p] <= newest

(* While saves do not overlap, at most one process is at it: what it read is *)
(* what is still in the file, and what it writes is that with its change.    *)
Alone == \A p, q \in Busy : p = q

ReadLatest ==
    \A p \in Procs :
        /\ pc[p] = "fetching" => fd[p] = target
        /\ pc[p] = "chosen" =>
             IF target = NoInode THEN got[p] = Blank
             ELSE got[p] # Blank /\ got[p][1] = VersionIn(target)

WritesChange ==
    \A p \in Procs : pc[p] = "writing" =>
        \A k \in Keys : docs[ver[p]][k] \in {ver[p], last[k]}

FileIsLast ==
    IF target = NoInode THEN last = [k \in Keys |-> 0] ELSE docs[VersionIn(target)] = last

ChangesInv ==
    Known /\ (~overlapped => Alone /\ ReadLatest /\ WritesChange /\ FileIsLast)

LEMMA KnownNext ==
    ASSUME TypeOK, Known, [Next]_vars
    PROVE  Known'
<1> USE Documents
<1>1. /\ newest \in Nat
      /\ \A i \in Inodes : \A k \in 1 .. Chunks : content[i][k] \in Nat
      /\ \A p \in Procs : ver[p] \in Nat
  BY DEF TypeOK
<1>2. ASSUME NEW p \in Procs, Step(p) PROVE Known'
  <2>1. CASE \E to \in {"loading", "fetching"} : OpenFile(p, to)
    BY <2>1 DEF OpenFile, fileVars, docVars, Known
  <2>2. CASE ReadChunk(p)
    BY <2>2 DEF ReadChunk, fileVars, docVars, Known
  <2>3. CASE \E i \in Inodes, key \in Keys : OpenTemporary(p, i, key)
    <3>1. PICK i \in Inodes, key \in Keys : OpenTemporary(p, i, key)
      BY <2>3
    <3>2. /\ newest' = newest + 1 /\ ver' = [ver EXCEPT ![p] = newest']
          /\ content' = [content EXCEPT ![i] = Blank]
      BY <3>1 DEF OpenTemporary, Opens, NewFile, Truncate
    <3>3. ASSUME NEW q \in Procs PROVE ver'[q] <= newest'
      <4>1. newest' = newest + 1 /\ newest \in Nat
        BY <1>1, <3>2
      <4>2. CASE q = p
        <5>1. ver'[q] = newest'
          BY <3>2, <4>2 DEF TypeOK
        <5>2. QED
          BY <4>1, <5>1
      <4>3. CASE q # p
        <5>1. ver'[q] = ver[q] /\ ver[q] <= newest /\ ver[q] \in Nat
          BY <1>1, <3>2, <4>3 DEF Known, TypeOK
        <5>2. QED
          BY <4>1, <5>1
      <4>4. QED
        BY <4>2, <4>3
    <3>4. ASSUME NEW j \in Inodes, NEW k \in 1 .. Chunks PROVE content'[j][k] <= newest'
      <4>1. CASE j = i
        BY <1>1, <3>2, <4>1 DEF Blank, TypeOK
      <4>2. CASE j # i
        <5>1. content'[j] = content[j]
          BY <3>2, <4>2 DEF TypeOK
        <5>2. content[j][k] <= newest /\ content[j][k] \in Nat
          BY <1>1 DEF Known
        <5>3. QED
          BY <1>1, <3>2, <5>1, <5>2
      <4>3. QED
        BY <4>1, <4>2
    <3>5. QED
      BY <3>3, <3>4 DEF Known
  <2>4. CASE WriteChunk(p)
    <3>1. /\ newest' = newest /\ ver' = ver /\ fd[p] \in Inodes
          /\ content' = [content EXCEPT ![fd[p]] = [content[fd[p]] EXCEPT ![pos[p] + 1] = ver[p]]]
      BY <2>4 DEF WriteChunk, docVars, TypeOK
    <3>2. ASSUME NEW j \in Inodes, NEW k \in 1 .. Chunks PROVE content'[j][k] \in {content[j][k], ver[p]}
      <4>1. CASE j = fd[p]
        BY <3>1, <4>1 DEF TypeOK
      <4>2. CASE j # fd[p]
        BY <3>1, <4>2 DEF TypeOK
      <4>3. QED
        BY <4>1, <4>2
    <3>3. QED
      BY <3>1, <3>2 DEF Known
  <2>5. CASE CloseFile(p) \/ Rename(p) \/ RenameFails(p) \/ WriteFails(p) \/ Die(p)
    <3>1. /\ UNCHANGED <<content, newest>>
          /\ Leaves(p, "idle") \/ Leaves(p, "dead") \/ ver' = ver
      BY <2>5 DEF CloseFile, Rename, RenameFails, WriteFails, Die, fileVars, docVars
    <3>2. \A q \in Procs : ver'[q] \in {0, ver[q]}
      BY <3>1 DEF Leaves, TypeOK
    <3>3. QED
      BY <1>1, <3>1, <3>2 DEF Known
  <2>6. QED
    BY <1>2, <2>1, <2>2, <2>3, <2>4, <2>5 DEF Step
<1>3. CASE UNCHANGED vars
  BY <1>3 DEF vars, fileVars, procVars, docVars, Known
<1>4. QED
  BY <1>2, <1>3 DEF Next

(* Whoever turns to a change is alone with it, unless saves overlap.         *)
LEMMA AloneNext ==
    ASSUME TypeOK, Alone, NEW p \in Procs, Step(p), ~overlapped'
    PROVE  Alone'
<1>1. CASE \E to \in {"loading", "fetching"} : OpenFile(p, to)
  <2>1. PICK to \in {"loading", "fetching"} : OpenFile(p, to)
    BY <1>1
  <2>2. PICK next \in PcTypes, inode \in Inodes \cup {NoInode} :
          Turns(p, next, inode) /\ (to = "loading" => next \in {"loading", "idle"})
    BY <2>1 DEF OpenFile, PcTypes, TypeOK
  <2>3. pc'[p] = next /\ \A q \in Procs \ {p} : pc'[q] = pc[q]
    BY <2>2, TurnsTyped DEF PcTypes
  <2>4. to = "fetching" => Busy = {}
    BY <2>1 DEF OpenFile
  <2>5. Busy' \subseteq {p} \/ Busy' \subseteq Busy
    BY <2>2, <2>3, <2>4 DEF Busy
  <2>6. QED
    BY <2>5 DEF Alone
<1>2. CASE \E i \in Inodes, key \in Keys : OpenTemporary(p, i, key)
  <2>1. PICK i \in Inodes, key \in Keys : OpenTemporary(p, i, key)
    BY <1>2
  <2>2. Turns(p, "writing", i) /\ Busy \ {p} = {}
    BY <2>1 DEF OpenTemporary
  <2>3. \A q \in Procs \ {p} : pc'[q] = pc[q]
    BY <2>2, TurnsTyped
  <2>4. Busy' \subseteq {p}
    BY <2>2, <2>3 DEF Busy
  <2>5. QED
    BY <2>4 DEF Alone
<1>3. CASE ReadChunk(p) \/ WriteChunk(p)
  BY <1>3 DEF ReadChunk, WriteChunk, Alone, Busy
<1>4. CASE CloseFile(p) \/ Rename(p) \/ RenameFails(p) \/ WriteFails(p) \/ Die(p)
  <2>1. Leaves(p, "idle") \/ Leaves(p, "dead")
          \/ (pc[p] = "fetching" /\ Turns(p, "chosen", NoInode))
    BY <1>4 DEF CloseFile, Rename, RenameFails, WriteFails, Die
  <2>2. /\ pc'[p] \in {"idle", "dead"} \/ (pc[p] = "fetching" /\ pc'[p] = "chosen")
        /\ \A q \in Procs \ {p} : pc'[q] = pc[q]
    BY <2>1, LeavesTyped, TurnsTyped
  <2>3. Busy' \subseteq Busy
    BY <2>2 DEF Busy
  <2>4. QED
    BY <2>3 DEF Alone
<1>5. QED
  BY <1>1, <1>2, <1>3, <1>4 DEF Step

ChangeSafe == Alone /\ ReadLatest /\ WritesChange /\ FileIsLast

(* Opening a file: a whole document that is read is what is in the file.     *)
LEMMA ChangeOpen ==
    ASSUME TypeOK, ChangeSafe, NEW p \in Procs, NEW to \in {"loading", "fetching"},
           OpenFile(p, to)
    PROVE  (ReadLatest /\ WritesChange /\ FileIsLast)'
<1>1. PICK next \in PcTypes, inode \in Inodes \cup {NoInode} :
        /\ Turns(p, next, inode) /\ next # "writing"
        /\ next = "fetching" => inode = target
        /\ next = "chosen" => target = NoInode
  BY DEF OpenFile, PcTypes, TypeOK
<1>2. /\ pc'[p] = next /\ fd'[p] = inode
      /\ \A q \in Procs \ {p} : pc'[q] = pc[q] /\ fd'[q] = fd[q]
  BY <1>1, TurnsTyped DEF PcTypes
<1>3. /\ UNCHANGED <<target, content, ver, docs, last>>
      /\ got'[p] = Blank /\ \A q \in Procs \ {p} : got'[q] = got[q]
  BY DEF OpenFile, fileVars, docVars, TypeOK
<1>4. ReadLatest'
  BY <1>1, <1>2, <1>3 DEF ChangeSafe, ReadLatest, VersionIn, Blank
<1>5. WritesChange'
  BY <1>1, <1>2, <1>3 DEF ChangeSafe, WritesChange
<1>6. FileIsLast'
  BY <1>3 DEF ChangeSafe, FileIsLast, VersionIn
<1>7. QED
  BY <1>4, <1>5, <1>6

(* Nothing that p read or wrote counts once it turns away.                   *)
LEMMA ChangeLeaves ==
    ASSUME ChangeSafe, NEW p \in Procs, UNCHANGED <<target, content, docs, last>>,
           pc'[p] \in {"idle", "dead"},
           \A q \in Procs \ {p} :
              pc'[q] = pc[q] /\ fd'[q] = fd[q] /\ got'[q] = got[q] /\ ver'[q] = ver[q]
    PROVE  (ReadLatest /\ WritesChange /\ FileIsLast)'
<1>1. VersionIn(target)' = VersionIn(target)
  BY DEF VersionIn
<1>2. FileIsLast'
  BY <1>1 DEF ChangeSafe, FileIsLast
<1>3. WritesChange'
  BY DEF ChangeSafe, WritesChange
<1>4. ReadLatest'
  <2>1. SUFFICES ASSUME NEW q \in Procs \ {p}
                 PROVE  /\ pc'[q] = "fetching" => fd'[q] = target
                        /\ pc'[q] = "chosen" =>
                             IF target = NoInode THEN got'[q] = Blank
                             ELSE got'[q] # Blank /\ got'[q][1] = VersionIn(target)
    BY <1>1 DEF ReadLatest, Blank
  <2>2. QED
    BY DEF ChangeSafe, ReadLatest
<1>5. QED
  BY <1>2, <1>3, <1>4

LEMMA ChangeRead ==
    ASSUME TypeOK, ChangeSafe, FileSafe, NEW p \in Procs, ReadChunk(p) \/ CloseFile(p)
    PROVE  (ReadLatest /\ WritesChange /\ FileIsLast)'
<1>1. UNCHANGED <<target, content, docs, last>>
  BY DEF ReadChunk, CloseFile, fileVars, docVars
<1>2. FileIsLast'
  BY <1>1 DEF ChangeSafe, FileIsLast, VersionIn
<1>3. CASE ReadChunk(p)
  <2>1. UNCHANGED <<pc, fd, ver>> /\ Reading(p) /\ \A q \in Procs \ {p} : got'[q] = got[q]
    BY <1>3 DEF ReadChunk, Reading, TypeOK
  <2>2. WritesChange'
    BY <1>1, <2>1 DEF ChangeSafe, WritesChange
  <2>3. ReadLatest'
    BY <1>1, <2>1 DEF ChangeSafe, ReadLatest, VersionIn, Reading, Blank
  <2>4. QED
    BY <1>2, <2>2, <2>3
<1>4. CASE CloseFile(p) /\ Leaves(p, "idle")
  <2>1. /\ pc'[p] = "idle"
        /\ \A q \in Procs \ {p} :
              pc'[q] = pc[q] /\ fd'[q] = fd[q] /\ got'[q] = got[q] /\ ver'[q] = ver[q]
    BY <1>4, LeavesTyped
  <2>2. QED
    BY <1>1, <2>1, ChangeLeaves
<1>5. CASE CloseFile(p) /\ pc[p] = "fetching" /\ Whole(got[p]) /\ Turns(p, "chosen", NoInode)
             /\ UNCHANGED <<got, ver>>
  <2>1. /\ pc'[p] = "chosen"
        /\ \A q \in Procs \ {p} : pc'[q] = pc[q] /\ fd'[q] = fd[q]
    BY <1>5, TurnsTyped
  <2>2. fd[p] = target /\ target \in Inodes /\ target # NoInode
    BY <1>5, StorageAssumption DEF ChangeSafe, ReadLatest, TypeOK, Reading
  <2>3. \A k \in 1 .. Chunks : got[p][k] = content[target][k]
    BY <1>5, <2>2 DEF FileSafe, ReadersSafe, Reading, CloseFile
  <2>4. got[p][1] = VersionIn(target)
    BY <2>2, <2>3, Documents DEF VersionIn
  <2>5. got[p] # Blank
    <3>1. PICK v \in 1 .. MaxVersion : got[p] = [k \in 1 .. Chunks |-> v]
      BY <1>5 DEF Whole
    <3>2. got[p][1] = v /\ Blank[1] = 0 /\ v # 0
      BY <3>1, Documents DEF Blank
    <3>3. QED
      BY <3>2
  <2>6. ReadLatest'
    <3>1. VersionIn(target)' = VersionIn(target) /\ target' = target /\ got' = got
      BY <1>1, <1>5 DEF VersionIn
    <3>2. SUFFICES ASSUME NEW q \in Procs
                   PROVE  /\ pc'[q] = "fetching" => fd'[q] = target
                          /\ pc'[q] = "chosen" =>
                               IF target = NoInode THEN got[q] = Blank
                               ELSE got[q] # Blank /\ got[q][1] = VersionIn(target)
      BY <3>1 DEF ReadLatest, Blank
    <3>3. CASE q = p
      BY <2>1, <2>2, <2>4, <2>5, <3>3
    <3>4. CASE q # p
      BY <2>1, <3>4 DEF ChangeSafe, ReadLatest
    <3>5. QED
      BY <3>3, <3>4
  <2>7. WritesChange'
    BY <1>1, <1>5, <2>1 DEF ChangeSafe, WritesChange
  <2>8. QED
    BY <1>2, <2>6, <2>7
<1>6. QED
  BY <1>3, <1>4, <1>5 DEF CloseFile

(* The temporary that is opened is to hold what p has read with its change.  *)
LEMMA ChangeOpenTemporary ==
    ASSUME TypeOK, ChangeSafe, FileSafe, Known, NEW p \in Procs,
           NEW i \in Inodes, NEW key \in Keys, OpenTemporary(p, i, key), ~overlapped'
    PROVE  (ReadLatest /\ WritesChange /\ FileIsLast)'
<1>1. /\ pc'[p] = "writing"
      /\ \A q \in Procs \ {p} : pc'[q] = pc[q] /\ q \notin Busy
  <2>1. Turns(p, "writing", i) /\ overlapped' = (overlapped \/ Busy \ {p} # {})
    BY DEF OpenTemporary
  <2>2. Busy \ {p} = {}
    BY <2>1
  <2>3. QED
    BY <2>1, <2>2, TurnsTyped
<1>2. /\ UNCHANGED <<target, last>> /\ newest' = newest + 1 /\ newest' \in Versions
      /\ docs' = [docs EXCEPT ![newest'] = Changed(p, newest', key)]
      /\ ver'[p] = newest' /\ pc[p] \in {"idle", "chosen"}
  <2>1. /\ newest < MaxVersion /\ newest' = newest + 1 /\ UNCHANGED <<target, last>>
        /\ docs' = [docs EXCEPT ![newest'] = Changed(p, newest', key)]
        /\ ver' = [ver EXCEPT ![p] = newest']
        /\ pc[p] = IF unique THEN "chosen" ELSE "idle"
    BY DEF OpenTemporary
  <2>2. newest' \in Versions
    BY <2>1, Documents DEF TypeOK
  <2>3. QED
    BY <2>1, <2>2 DEF TypeOK
<1>3. ReadLatest'
  BY <1>1 DEF ReadLatest, Busy
<1>4. WritesChange'
  <2>1. SUFFICES ASSUME NEW k \in Keys PROVE docs'[newest'][k] \in {newest', last[k]}
    BY <1>1, <1>2 DEF WritesChange, Busy
  <2>2. docs'[newest'] = Changed(p, newest', key)
    BY <1>2 DEF TypeOK
  <2>3. CASE pc[p] = "idle"
    BY <2>2, <2>3 DEF Changed
  <2>4. CASE pc[p] = "chosen" /\ got[p] = Blank
    <3>1. last = [x \in Keys |-> 0]
      BY <2>4 DEF ChangeSafe, ReadLatest, FileIsLast
    <3>2. QED
      BY <2>2, <2>4, <3>1 DEF Changed
  <2>5. CASE pc[p] = "chosen" /\ got[p] # Blank
    <3>1. docs[got[p][1]] = last /\ last \in [Keys -> 0 .. MaxVersion]
      BY <2>5 DEF ChangeSafe, ReadLatest, FileIsLast, TypeOK
    <3>2. QED
      BY <2>2, <2>5, <3>1 DEF Changed
  <2>6. QED
    BY <1>2, <2>3, <2>4, <2>5
<1>5. FileIsLast'
  <2>1. CASE target = NoInode
    BY <1>2, <2>1 DEF ChangeSafe, FileIsLast
  <2>2. CASE target # NoInode
    <3>1. target \in Inodes /\ target # i /\ content'[target] = content[target]
      <4>1. /\ content' = [content EXCEPT ![i] = Blank] /\ target \in Inodes
            /\ Free(i) \/ i \in tmp
        BY <2>2 DEF OpenTemporary, Opens, NewFile, Truncate, TypeOK
      <4>2. target # i
        BY <2>2, <4>1 DEF FileSafe, TargetWhole, Free
      <4>3. QED
        BY <4>1, <4>2 DEF TypeOK
    <3>2. content[target][1] \in Versions /\ content[target][1] <= newest
      <4>1. PICK v \in Versions : content[target] = [k \in 1 .. Chunks |-> v]
        BY <2>2 DEF FileSafe, TargetWhole, Whole
      <4>2. QED
        BY <3>1, <4>1, Documents DEF Known
    <3>3. docs'[content[target][1]] = docs[content[target][1]]
      BY <1>2, <3>2 DEF TypeOK
    <3>4. QED
      BY <1>2, <2>2, <3>1, <3>3 DEF ChangeSafe, FileIsLast, VersionIn
  <2>3. QED
    BY <2>1, <2>2
<1>6. QED
  BY <1>3, <1>4, <1>5

LEMMA ChangeWrite ==
    ASSUME TypeOK, ChangeSafe, FileSafe, NEW p \in Procs, WriteChunk(p)
    PROVE  (ReadLatest /\ WritesChange /\ FileIsLast)'
<1>1. /\ UNCHANGED <<target, pc, fd, got, ver, docs, last>> /\ pc[p] = "writing"
      /\ fd[p] \in tmp /\ \A j \in Inodes \ {fd[p]} : content'[j] = content[j]
  BY DEF WriteChunk, docVars, TypeOK, FileSafe, WritersOwn
<1>2. target # NoInode => content'[target] = content[target]
  BY <1>1 DEF FileSafe, TargetWhole, TypeOK
<1>3. VersionIn(target)' = VersionIn(target)
  BY <1>1, <1>2 DEF VersionIn
<1>4. FileIsLast' /\ WritesChange'
  BY <1>1, <1>3 DEF ChangeSafe, FileIsLast, WritesChange
<1>5. ReadLatest'
  BY <1>1, <1>3 DEF ChangeSafe, ReadLatest, Blank
<1>6. QED
  BY <1>4, <1>5

LEMMA ChangeRename ==
    ASSUME TypeOK, ChangeSafe, FileSafe, NEW p \in Procs, Rename(p)
    PROVE  (ReadLatest /\ WritesChange /\ FileIsLast)'
<1>1. /\ pc[p] = "writing" /\ ver[p] \in Versions /\ target' = fd[p] /\ fd[p] \in Inodes
      /\ content' = content /\ content[fd[p]][1] = ver[p]
  BY RenamedOwn, Documents
<1>2. Leaves(p, "idle")
  BY DEF Rename
<1>3. \A q \in Procs : pc'[q] \notin {"fetching", "chosen", "writing"}
  <2>1. \A q \in Procs \ {p} : pc[q] \notin {"fetching", "chosen", "writing"}
    BY <1>1 DEF ChangeSafe, Alone, Busy
  <2>2. pc'[p] = "idle" /\ \A q \in Procs \ {p} : pc'[q] = pc[q]
    BY <1>2, LeavesTyped
  <2>3. QED
    BY <2>1, <2>2
<1>4. ReadLatest' /\ WritesChange'
  BY <1>3 DEF ReadLatest, WritesChange
<1>5. last' = docs[ver[p]] /\ docs' = docs
  <2>1. /\ last' = [k \in Keys |-> IF docs[ver[p]][k] = ver[p] THEN ver[p] ELSE last[k]]
        /\ docs' = docs
    BY DEF Rename
  <2>2. \A k \in Keys : docs[ver[p]][k] \in {ver[p], last[k]}
    BY <1>1 DEF ChangeSafe, WritesChange
  <2>3. docs[ver[p]] \in [Keys -> 0 .. MaxVersion]
    BY <1>1 DEF TypeOK
  <2>4. QED
    BY <2>1, <2>2, <2>3
<1>6. target' # NoInode /\ VersionIn(target)' = ver[p]
  BY <1>1, StorageAssumption DEF VersionIn
<1>7. FileIsLast'
  BY <1>5, <1>6 DEF FileIsLast
<1>8. QED
  BY <1>4, <1>7

LEMMA ChangeFails ==
    ASSUME TypeOK, ChangeSafe, NEW p \in Procs, RenameFails(p) \/ WriteFails(p) \/ Die(p)
    PROVE  (ReadLatest /\ WritesChange /\ FileIsLast)'
<1>1. /\ UNCHANGED <<target, content, docs, last>>
      /\ Leaves(p, "idle") \/ Leaves(p, "dead")
  BY DEF RenameFails, WriteFails, Die, fileVars, docVars
<1>2. /\ pc'[p] \in {"idle", "dead"}
      /\ \A q \in Procs \ {p} :
            pc'[q] = pc[q] /\ fd'[q] = fd[q] /\ got'[q] = got[q] /\ ver'[q] = ver[q]
  BY <1>1, LeavesTyped
<1>3. QED
  BY <1>1, <1>2, ChangeLeaves

LEMMA ChangesNext ==
    ASSUME TypeOK, FileInv, ChangesInv, [Next]_vars
    PROVE  ChangesInv'
<1>1. Known'
  BY KnownNext DEF ChangesInv
<1>2. SUFFICES ASSUME ~overlapped' PROVE ChangeSafe'
  BY <1>1 DEF ChangesInv, ChangeSafe
<1>3. ASSUME NEW p \in Procs, Step(p) PROVE ChangeSafe'
  <2>1. ~overlapped
    BY <1>2, <1>3 DEF Step, OpenFile, ReadChunk, CloseFile, OpenTemporary, WriteChunk, Rename,
                      RenameFails, WriteFails, Die
  <2>2. ChangeSafe /\ FileSafe /\ Known
    BY <2>1 DEF ChangesInv, ChangeSafe, FileInv, Sound
  <2>3. Alone'
    BY <1>2, <1>3, <2>2, AloneNext DEF ChangeSafe
  <2>4. (ReadLatest /\ WritesChange /\ FileIsLast)'
    BY <1>2, <1>3, <2>2, ChangeOpen, ChangeRead, ChangeOpenTemporary, ChangeWrite,
       ChangeRename, ChangeFails DEF Step
  <2>5. QED
    BY <2>3, <2>4 DEF ChangeSafe
<1>4. CASE UNCHANGED vars
  <2>1. /\ UNCHANGED <<target, content, pc, fd, got, ver, docs, last, overlapped>>
        /\ Busy' = Busy /\ VersionIn(target)' = VersionIn(target)
    BY <1>4 DEF vars, fileVars, procVars, docVars, Busy, VersionIn
  <2>2. ChangeSafe
    BY <1>2, <2>1 DEF ChangesInv, ChangeSafe
  <2>3. Alone' /\ WritesChange' /\ FileIsLast'
    BY <2>1, <2>2 DEF ChangeSafe, Alone, WritesChange, FileIsLast
  <2>4. ReadLatest'
    BY <2>1, <2>2 DEF ChangeSafe, ReadLatest, Blank
  <2>5. QED
    BY <2>3, <2>4 DEF ChangeSafe
<1>5. QED
  BY <1>3, <1>4 DEF Next

(* Changes of different secrets do not undo each other, unless two of them   *)
(* overlap (secrets.py:54-68).                                               *)
THEOREM UpdatesKeptAlways == Spec => []UpdatesKept
<1>1. Init => ChangesInv
  <2>1. SUFFICES ASSUME Init PROVE ChangesInv
    OBVIOUS
  <2>2. \A i \in Inodes : \A k \in 1 .. Chunks : content[i][k] = 0
    BY <2>1 DEF Init, Blank
  <2>3. Known
    BY <2>1, <2>2 DEF Init, Known
  <2>4. ReadLatest /\ WritesChange /\ FileIsLast /\ Alone
    BY <2>1 DEF Init, ReadLatest, WritesChange, FileIsLast, Alone, Busy
  <2>5. QED
    BY <2>3, <2>4 DEF ChangesInv
<1>2. TypeOK /\ FileInv /\ ChangesInv /\ [Next]_vars => ChangesInv'
  BY ChangesNext
<1>3. ChangesInv => UpdatesKept
  BY DEF ChangesInv, FileIsLast, UpdatesKept
<1>4. QED
  BY <1>1, <1>2, <1>3, FileInvariant, PTL DEF Spec

-----------------------------------------------------------------------------
(* Temporary files and who answers for them.                               *)

(* Who is writing a temporary file, or may have died over one.               *)
Owners == {p \in Procs : pc[p] \in {"writing", "dead"}}

(* There are no more of them than processes that answer for one.             *)
OwnedFiles ==
    unique => /\ IsFiniteSet(tmp) /\ IsFiniteSet(Owners)
              /\ Cardinality(tmp) <= Cardinality(Owners)

(* A step adds a temporary file and its writer, removes both, or leaves the  *)
(* files alone and at most adds a dead process.                              *)
LEMMA FilesAndOwners ==
    ASSUME TypeOK, FileInv, unique, NEW p \in Procs, Step(p)
    PROVE  \/ tmp' = tmp /\ Owners' \in {Owners, Owners \cup {p}}
           \/ /\ \E i \in Inodes : i \notin tmp /\ tmp' = tmp \cup {i}
              /\ p \notin Owners /\ Owners' = Owners \cup {p}
           \/ /\ fd[p] \in tmp /\ tmp' = tmp \ {fd[p]}
              /\ p \in Owners /\ Owners' = Owners \ {p}
<1>1. pc[p] = "writing" => fd[p] \in tmp
  BY DEF FileInv, Sound, FileSafe, WritersOwn
<1>2. ASSUME NEW to \in {"loading", "fetching"}, OpenFile(p, to)
      PROVE  tmp' = tmp /\ Owners' = Owners
  <2>1. PICK next \in PcTypes \ {"writing", "dead"}, inode \in Inodes \cup {NoInode} :
          Turns(p, next, inode)
    BY <1>2 DEF OpenFile, PcTypes, TypeOK
  <2>2. pc'[p] = next /\ \A q \in Procs \ {p} : pc'[q] = pc[q]
    BY <2>1, TurnsTyped DEF PcTypes
  <2>3. tmp' = tmp /\ pc[p] = "idle"
    BY <1>2 DEF OpenFile, fileVars
  <2>4. QED
    BY <2>2, <2>3 DEF Owners, PcTypes
<1>3. CASE ReadChunk(p) \/ WriteChunk(p)
  BY <1>3 DEF ReadChunk, WriteChunk, fileVars, Owners
<1>4. CASE CloseFile(p)
  <2>1. PICK next \in {"chosen", "idle"} : Turns(p, next, NoInode)
    BY <1>4 DEF CloseFile, Leaves
  <2>2. pc'[p] = next /\ \A q \in Procs \ {p} : pc'[q] = pc[q]
    BY <2>1, TurnsTyped
  <2>3. tmp' = tmp /\ pc[p] \notin {"writing", "dead"}
    BY <1>4 DEF CloseFile, fileVars
  <2>4. QED
    BY <2>2, <2>3 DEF Owners
<1>5. ASSUME NEW i \in Inodes, NEW key \in Keys, OpenTemporary(p, i, key)
      PROVE  /\ i \notin tmp /\ tmp' = tmp \cup {i}
             /\ p \notin Owners /\ Owners' = Owners \cup {p}
  <2>1. i \notin tmp /\ tmp' = tmp \cup {i} /\ pc[p] = "chosen" /\ Turns(p, "writing", i)
    BY <1>5 DEF OpenTemporary, Opens, NewFile, Free
  <2>2. pc'[p] = "writing" /\ \A q \in Procs \ {p} : pc'[q] = pc[q]
    BY <2>1, TurnsTyped
  <2>3. QED
    BY <2>1, <2>2 DEF Owners
<1>6. CASE Rename(p) \/ RenameFails(p) \/ WriteFails(p)
  <2>1. pc[p] = "writing" /\ tmp' = tmp \ {fd[p]} /\ Leaves(p, "idle")
    BY <1>1, <1>6 DEF Rename, RenameFails, WriteFails
  <2>2. pc'[p] = "idle" /\ \A q \in Procs \ {p} : pc'[q] = pc[q]
    BY <2>1, LeavesTyped
  <2>3. QED
    BY <1>1, <2>1, <2>2 DEF Owners
<1>7. CASE Die(p)
  <2>1. tmp' = tmp /\ Leaves(p, "dead")
    BY <1>7 DEF Die, fileVars
  <2>2. pc'[p] = "dead" /\ \A q \in Procs \ {p} : pc'[q] = pc[q]
    BY <2>1, LeavesTyped
  <2>3. QED
    BY <2>1, <2>2 DEF Owners
<1>8. QED
  BY <1>2, <1>3, <1>4, <1>5, <1>6, <1>7 DEF Step

LEMMA OwnedNext == TypeOK /\ FileInv /\ OwnedFiles /\ [Next]_vars => OwnedFiles'
<1> SUFFICES ASSUME TypeOK, FileInv, OwnedFiles, [Next]_vars, unique'
             PROVE  /\ IsFiniteSet(tmp') /\ IsFiniteSet(Owners')
                    /\ Cardinality(tmp') <= Cardinality(Owners')
  BY DEF OwnedFiles
<1>1. ASSUME NEW p \in Procs, Step(p)
      PROVE  /\ IsFiniteSet(tmp') /\ IsFiniteSet(Owners')
             /\ Cardinality(tmp') <= Cardinality(Owners')
  <2>1. unique
    BY <1>1 DEF Step, OpenFile, ReadChunk, CloseFile, OpenTemporary, WriteChunk, Rename,
                RenameFails, WriteFails, Die, fileVars
  <2>2. /\ IsFiniteSet(tmp) /\ IsFiniteSet(Owners)
        /\ Cardinality(tmp) <= Cardinality(Owners)
        /\ Cardinality(tmp) \in Nat /\ Cardinality(Owners) \in Nat
    BY <2>1, FS_CardinalityType DEF OwnedFiles
  <2>3. CASE tmp' = tmp /\ Owners' \in {Owners, Owners \cup {p}}
    <3>1. /\ IsFiniteSet(Owners \cup {p})
          /\ Cardinality(Owners \cup {p}) \in {Cardinality(Owners), Cardinality(Owners) + 1}
      BY <2>2, FS_AddElement
    <3>2. IsFiniteSet(Owners') /\ Cardinality(Owners) <= Cardinality(Owners')
      <4>1. CASE Owners' = Owners
        BY <2>2, <4>1
      <4>2. CASE Owners' = Owners \cup {p}
        BY <2>2, <3>1, <4>2
      <4>3. QED
        BY <2>3, <4>1, <4>2
    <3>3. Cardinality(Owners') \in Nat
      BY <3>2, FS_CardinalityType
    <3>4. QED
      BY <2>2, <2>3, <3>2, <3>3
  <2>4. ASSUME NEW i \in Inodes, i \notin tmp, tmp' = tmp \cup {i},
               p \notin Owners, Owners' = Owners \cup {p}
        PROVE  /\ IsFiniteSet(tmp') /\ IsFiniteSet(Owners')
               /\ Cardinality(tmp') <= Cardinality(Owners')
    <3>1. IsFiniteSet(tmp') /\ Cardinality(tmp') = Cardinality(tmp) + 1
      BY <2>2, <2>4, FS_AddElement
    <3>2. IsFiniteSet(Owners') /\ Cardinality(Owners') = Cardinality(Owners) + 1
      BY <2>2, <2>4, FS_AddElement
    <3>3. QED
      BY <2>2, <3>1, <3>2
  <2>5. CASE fd[p] \in tmp /\ tmp' = tmp \ {fd[p]} /\ p \in Owners /\ Owners' = Owners \ {p}
    <3>1. IsFiniteSet(tmp') /\ Cardinality(tmp') = Cardinality(tmp) - 1
      BY <2>2, <2>5, FS_RemoveElement
    <3>2. IsFiniteSet(Owners') /\ Cardinality(Owners') = Cardinality(Owners) - 1
      BY <2>2, <2>5, FS_RemoveElement
    <3>3. QED
      BY <2>2, <3>1, <3>2
  <2>6. QED
    BY <1>1, <2>1, <2>3, <2>4, <2>5, FilesAndOwners
<1>2. CASE UNCHANGED vars
  BY <1>2 DEF OwnedFiles, Owners, vars, fileVars, procVars
<1>3. QED
  BY <1>1, <1>2 DEF Next

(* Secrets are in no other file, save while a writer is at work or after it  *)
(* was killed (secrets.py:36-46).                                            *)
THEOREM NoSecretsLeftBehind == Spec => []NothingLeftBehind
<1>1. Init => OwnedFiles
  <2>1. SUFFICES ASSUME Init PROVE tmp = {} /\ Owners = {}
    BY FS_EmptySet DEF OwnedFiles
  <2>2. QED
    BY <2>1 DEF Init, Owners
<1>2. TypeOK /\ FileInv /\ OwnedFiles /\ [Next]_vars => OwnedFiles'
  BY OwnedNext
<1>3. OwnedFiles => NothingLeftBehind
  BY DEF OwnedFiles, Owners, NothingLeftBehind
<1>4. QED
  BY <1>1, <1>2, <1>3, FileInvariant, PTL DEF Spec
=============================================================================

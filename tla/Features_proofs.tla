-------------------------- MODULE Features_proofs ---------------------------
(***************************************************************************)
(* Calls on files (FileCalls), the calls of system.crypto (CryptoCalls)    *)
(* and the keys of ECDH objects (EcdhKeys), each with its inductive        *)
(* invariant; and, with the subscriptions and the transfers, what follows  *)
(* for all features with safety properties only (MCFeaturesSafe).          *)
(***************************************************************************)
EXTENDS MCFeaturesSafe, Subscriptions_proofs, Transfers_proofs

-----------------------------------------------------------------------------
(***************************************************************************)
(* Calls on one file, for any calls and any number of threads: AppendsKept *)
(* and FileTypeOK.                                                         *)
(*                                                                         *)
(* A text that nothing overwrote holds only calls that are through with    *)
(* it, so a call that appends is not in it yet (AppendedOnce).  An inode   *)
(* with a text was opened by a call, which keeps its number: as there is   *)
(* an inode for each call, one is fresh for a call that creates the file   *)
(* (OpenedFirst).                                                          *)
(***************************************************************************)
WriteSteps == {"queued", "open", "create_dir", "reopen", "transfer", "done", "heard"}
FileSteps == WriteSteps \cup {"start", "stat", "rmdir2", "mkdir2"}
               \cup {"delete", "move", "mkdir", "rmdir", "access", "list"}

FileTypes ==
  /\ kind \in [FileCall -> AllKinds \cup {"none"}]
  /\ pc \in [FileCall -> FileSteps] /\ pool \in Seq(FileCall)
  /\ fd \in [FileCall -> Inode \cup {0}] /\ file \in Inode \cup {0}
  /\ dir \in BOOLEAN /\ fileDetached \in BOOLEAN
  /\ result \in [FileCall -> {"ok", "error"}]
  /\ heard \in [FileCall -> {"nothing", "ok", "error"}]
  /\ text \in [Inode -> Seq(FileCall)] /\ wiped \subseteq Inode

(* A call waits in the pool once, and only then is it queued.              *)
PoolInv ==
  /\ IsInjective(pool) /\ \A c \in Range(pool) : pc[c] = "queued"
  /\ IsFiniteSet(Working) /\ Cardinality(Working) <= Threads

StepsInv ==
  \A c \in FileCall :
    /\ kind[c] = "none" => pc[c] = "start"
    /\ kind[c] \in Writes => pc[c] \in WriteSteps
    /\ heard[c] = "ok" => pc[c] = "heard"

OpenedFirst ==
  /\ \A c \in FileCall :
       /\ pc[c] \notin {"transfer", "done", "heard"} => fd[c] = 0
       /\ pc[c] = "transfer" => fd[c] # 0
       /\ kind[c] = "overwrite" /\ fd[c] # 0 => fd[c] \in wiped
  /\ \A n \in Inode : text[n] # <<>> => \E c \in FileCall : fd[c] = n

TextPlaces(n, c) == {k \in DOMAIN text[n] : text[n][k] = c}

HasAppended(c) ==
  kind[c] = "append" /\ ((pc[c] = "done" /\ result[c] = "ok") \/ heard[c] = "ok")

AppendedOnce ==
  /\ \A n \in Inode \ wiped : \A k \in DOMAIN text[n] :
       pc[text[n][k]] \in {"done", "heard"}
  /\ \A c \in FileCall :
       HasAppended(c) => /\ fd[c] # 0
                         /\ fd[c] \notin wiped => Cardinality(TextPlaces(fd[c], c)) = 1

FilesInv == FileTypes /\ PoolInv /\ StepsInv /\ OpenedFirst /\ AppendedOnce

LEMMA CallsCounted ==
  /\ IsFiniteSet(FileCall) /\ Cardinality(FileCall) \in Nat
  /\ Inode = 1..Cardinality(FileCall) /\ Threads \in Nat \ {0}
BY FileCallsAssumption, FS_CardinalityType DEF Inode

LEMMA WorkingAre ==
  \A c : c \in Working <=>
    c \in FileCall /\ pc[c] \notin {"start", "queued", "done", "heard"}
BY DEF Working

LEMMA WorkingNext ==
  \A c : c \in Working' <=>
    c \in FileCall /\ pc'[c] \notin {"start", "queued", "done", "heard"}
BY DEF Working

(* Fewer works.                                                            *)
LEMMA FewerWorking ==
  ASSUME PoolInv, FileTypes, Working' \subseteq Working
  PROVE  IsFiniteSet(Working') /\ Cardinality(Working') <= Threads
<1>1. /\ IsFiniteSet(Working) /\ Cardinality(Working) <= Threads
  BY DEF PoolInv
<1>2. /\ IsFiniteSet(Working') /\ Cardinality(Working') <= Cardinality(Working)
  BY <1>1, FS_Subset
<1>3. Cardinality(Working') \in Nat /\ Cardinality(Working) \in Nat
  BY <1>1, <1>2, FS_CardinalityType
<1> QED BY <1>1, <1>2, <1>3, CallsCounted

-----------------------------------------------------------------------------
(* A work goes on, and neither opens the file nor writes it.               *)
LEMMA WorkStep ==
  ASSUME FilesInv, NEW c \in FileCall, NEW w \in FileSteps,
         pc[c] \notin {"start", "queued", "done", "heard"},
         w \notin {"start", "queued", "heard", "transfer"},
         pc[c] = "transfer" => w = "done",
         kind[c] \in Writes => w \in WriteSteps,
         pc' = [pc EXCEPT ![c] = w],
         UNCHANGED <<kind, pool, fd, text, fileDetached, heard, wiped>>,
         result' \in [FileCall -> {"ok", "error"}],
         \A d \in FileCall \ {c} : result'[d] = result[d],
         kind[c] = "append" /\ w = "done" => result'[c] = "error",
         file' \in Inode \cup {0}, dir' \in BOOLEAN
  PROVE  FilesInv'
<1>1. FileTypes /\ PoolInv /\ StepsInv /\ OpenedFirst /\ AppendedOnce
  BY DEF FilesInv
<1>2. /\ kind' = kind /\ pool' = pool /\ fd' = fd /\ text' = text
      /\ fileDetached' = fileDetached /\ heard' = heard /\ wiped' = wiped
  OBVIOUS
<1>3. /\ pc' \in [FileCall -> FileSteps] /\ pc'[c] = w
      /\ \A d \in FileCall \ {c} : pc'[d] = pc[d]
  BY <1>1 DEF FileTypes
<1>4. FileTypes'
  BY <1>1, <1>2, <1>3 DEF FileTypes
<1>5. PoolInv'
  <2>1. Working' \subseteq Working
    BY <1>3, WorkingAre, WorkingNext
  <2>2. \A d \in Range(pool) : pc'[d] = "queued"
    <3>1. Range(pool) \subseteq FileCall
      BY <1>1, RangeOf, ElementOfSeq, LenProperties DEF FileTypes
    <3> QED BY <1>1, <1>3, <3>1 DEF PoolInv
  <2> QED BY <1>1, <1>2, <2>1, <2>2, FewerWorking DEF PoolInv
<1>6. StepsInv'
  <2>1. ASSUME NEW d \in FileCall
        PROVE  /\ kind[d] = "none" => pc'[d] = "start"
               /\ kind[d] \in Writes => pc'[d] \in WriteSteps
               /\ heard[d] = "ok" => pc'[d] = "heard"
    BY <1>1, <1>3 DEF StepsInv
  <2> QED BY <1>2, <2>1 DEF StepsInv
<1>7. OpenedFirst'
  <2>1. ASSUME NEW d \in FileCall
        PROVE  /\ pc'[d] \notin {"transfer", "done", "heard"} => fd[d] = 0
               /\ pc'[d] = "transfer" => fd[d] # 0
    BY <1>1, <1>3 DEF OpenedFirst
  <2> QED BY <1>1, <1>2, <2>1 DEF OpenedFirst
<1>8. AppendedOnce'
  <2>1. ASSUME NEW n \in Inode \ wiped, NEW k \in DOMAIN text[n]
        PROVE  pc'[text[n][k]] \in {"done", "heard"}
    <3>1. pc[text[n][k]] \in {"done", "heard"}
      BY <1>1 DEF AppendedOnce
    <3>2. text[n] \in Seq(FileCall)
      BY <1>1 DEF FileTypes
    <3>3. text[n][k] \in FileCall
      BY <3>2, ElementOfSeq
    <3> QED BY <1>3, <3>1, <3>3
  <2>2. ASSUME NEW d \in FileCall, HasAppended(d)'
        PROVE  /\ HasAppended(d) /\ TextPlaces(fd[d], d)' = TextPlaces(fd[d], d)
    <3>1. d # c
      <4>1. heard[c] # "ok"
        BY <1>1 DEF StepsInv
      <4> QED BY <1>2, <1>3, <2>2, <4>1 DEF HasAppended
    <3> QED BY <1>2, <1>3, <2>2, <3>1 DEF HasAppended, TextPlaces
  <2> QED BY <1>1, <1>2, <2>1, <2>2 DEF AppendedOnce, TextPlaces
<1> QED BY <1>4, <1>5, <1>6, <1>7, <1>8 DEF FilesInv

(* The steps are of the work that is there.                                *)
LEMMA NotOfWrites ==
  ASSUME FilesInv, NEW c \in FileCall, pc[c] \notin WriteSteps
  PROVE  kind[c] \notin Writes /\ kind[c] # "append"
BY DEF FilesInv, StepsInv, Writes

LEMMA Finishes ==
  ASSUME FilesInv, NEW c \in FileCall, NEW r \in {"ok", "error"}, Finish(c, r)
  PROVE  /\ pc' = [pc EXCEPT ![c] = "done"] /\ "done" \in FileSteps
         /\ "done" \in WriteSteps
         /\ result' \in [FileCall -> {"ok", "error"}] /\ result'[c] = r
         /\ \A d \in FileCall \ {c} : result'[d] = result[d]
BY DEF FilesInv, FileTypes, Finish, Goto, FileSteps, WriteSteps

LEMMA StatStep ==
  ASSUME FilesInv, NEW c \in FileCall, StatFile(c)
  PROVE  FilesInv'
<1>1. /\ pc[c] = "stat"
      /\ UNCHANGED <<kind, pool, fd, text, fileDetached, heard, wiped>>
      /\ file' = file /\ dir' = dir
  BY DEF StatFile
<1>2. kind[c] \notin Writes /\ kind[c] # "append"
  BY <1>1, NotOfWrites DEF WriteSteps
<1>3. /\ file \in Inode \cup {0} /\ dir \in BOOLEAN
      /\ result \in [FileCall -> {"ok", "error"}]
  BY DEF FilesInv, FileTypes
<1>4. CASE Finish(c, "error")
  BY <1>1, <1>2, <1>3, <1>4, Finishes, WorkStep
<1>5. CASE pc' = [pc EXCEPT ![c] = "open"] /\ result' = result
  <2>1. "open" \in FileSteps
    BY DEF FileSteps, WriteSteps
  <2> QED BY <1>1, <1>2, <1>3, <1>5, <2>1, WorkStep
<1> QED BY <1>4, <1>5 DEF StatFile, Goto

LEMMA CreateParentStep ==
  ASSUME FilesInv, NEW c \in FileCall, CreateParent(c)
  PROVE  FilesInv'
<1>1. /\ pc[c] = "create_dir" /\ pc' = [pc EXCEPT ![c] = "reopen"]
      /\ UNCHANGED <<kind, pool, fd, text, fileDetached, heard, wiped>>
      /\ file' = file /\ dir' = TRUE /\ result' = result
  BY DEF CreateParent, Goto
<1>2. file \in Inode \cup {0} /\ result \in [FileCall -> {"ok", "error"}]
  BY DEF FilesInv, FileTypes
<1>3. "reopen" \in FileSteps /\ "reopen" \in WriteSteps
  BY DEF FileSteps, WriteSteps
<1> QED BY <1>1, <1>2, <1>3, WorkStep

LEMMA MkdirStep ==
  ASSUME FilesInv, NEW c \in FileCall, Mkdir(c)
  PROVE  FilesInv'
<1>1. /\ pc[c] \in {"mkdir", "mkdir2"}
      /\ UNCHANGED <<kind, pool, fd, text, fileDetached, heard, wiped>>
      /\ file' = file
  BY DEF Mkdir
<1>2. kind[c] \notin Writes /\ kind[c] # "append"
  BY <1>1, NotOfWrites DEF WriteSteps
<1>3. /\ file \in Inode \cup {0} /\ dir \in BOOLEAN
      /\ result \in [FileCall -> {"ok", "error"}]
  BY DEF FilesInv, FileTypes
<1>4. ASSUME NEW r \in {"ok", "error"}, Finish(c, r), dir' \in BOOLEAN
      PROVE  FilesInv'
  BY <1>1, <1>2, <1>3, <1>4, Finishes, WorkStep
<1>5. CASE pc' = [pc EXCEPT ![c] = "mkdir2"] /\ result' = result /\ dir' = dir
  <2>1. "mkdir2" \in FileSteps
    BY DEF FileSteps
  <2> QED BY <1>1, <1>2, <1>3, <1>5, <2>1, WorkStep
<1> QED BY <1>3, <1>4, <1>5 DEF Mkdir, Goto

LEMMA RemoveFilesStep ==
  ASSUME FilesInv, NEW c \in FileCall, RemoveEntries(c) \/ RemoveDir(c)
  PROVE  FilesInv'
<1>1. /\ pc[c] \in {"rmdir", "rmdir2"}
      /\ UNCHANGED <<kind, pool, fd, text, fileDetached, heard, wiped>>
  BY DEF RemoveEntries, RemoveDir
<1>2. kind[c] \notin Writes /\ kind[c] # "append"
  BY <1>1, NotOfWrites DEF WriteSteps
<1>3. /\ file \in Inode \cup {0} /\ dir \in BOOLEAN
      /\ result \in [FileCall -> {"ok", "error"}]
  BY DEF FilesInv, FileTypes
<1>4. file' \in Inode \cup {0} /\ dir' \in BOOLEAN
  BY <1>3 DEF RemoveEntries, RemoveDir
<1>5. ASSUME NEW r \in {"ok", "error"}, Finish(c, r) PROVE FilesInv'
  BY <1>1, <1>2, <1>4, <1>5, Finishes, WorkStep
<1>6. CASE pc' = [pc EXCEPT ![c] = "rmdir2"] /\ result' = result
  <2>1. "rmdir2" \in FileSteps
    BY DEF FileSteps
  <2> QED BY <1>1, <1>2, <1>3, <1>4, <1>6, <2>1, WorkStep
<1> QED BY <1>5, <1>6 DEF RemoveEntries, RemoveDir, Goto

LEMMA LookStep ==
  ASSUME FilesInv, NEW c \in FileCall, UnlinkOrLook(c)
  PROVE  FilesInv'
<1>1. /\ pc[c] \in Unlinks \cup {"access", "list"}
      /\ UNCHANGED <<kind, pool, fd, text, fileDetached, heard, wiped>>
      /\ dir' = dir
  BY DEF UnlinkOrLook
<1>2. pc[c] \notin WriteSteps /\ pc[c] # "start"
  BY <1>1 DEF WriteSteps, Unlinks
<1>3. kind[c] \notin Writes /\ kind[c] # "append"
  BY <1>2, NotOfWrites
<1>4. /\ file \in Inode \cup {0} /\ dir \in BOOLEAN
  BY DEF FilesInv, FileTypes
<1>5. file' \in Inode \cup {0} /\ dir' \in BOOLEAN
  BY <1>1, <1>4 DEF UnlinkOrLook
<1>6. PICK r \in {"ok", "error"} : Finish(c, r)
  BY DEF UnlinkOrLook
<1> QED BY <1>1, <1>2, <1>3, <1>5, <1>6, Finishes, WorkStep DEF WriteSteps

(* While a call has nothing open, an inode is left for it.                 *)
LEMMA InodeLeft ==
  ASSUME FilesInv, NEW c \in FileCall, fd[c] = 0, file = 0
  PROVE  /\ FreshInode \in Inode /\ text[FreshInode] = <<>>
         /\ \A d \in FileCall : fd[d] # FreshInode
<1> DEFINE opened == {fd[d] : d \in FileCall}
           N == Cardinality(FileCall)
<1>1. /\ fd \in [FileCall -> Inode \cup {0}] /\ IsFiniteSet(FileCall) /\ N \in Nat
      /\ Inode = 1..N
  BY CallsCounted DEF FilesInv, FileTypes
<1>2. IsFiniteSet(opened) /\ Cardinality(opened) <= N
  <2>1. opened = {fd[d] : d \in FileCall}
    OBVIOUS
  <2>2. fd \in Surjection(FileCall, opened)
    BY <1>1 DEF Surjection
  <2> HIDE DEF opened
  <2> QED BY <1>1, <2>2, FS_Surjection
<1>3. \E n \in Inode : n \notin opened
  <2>1. SUFFICES ASSUME Inode \subseteq opened PROVE FALSE
    OBVIOUS
  <2>2. 0 \in opened
    OBVIOUS
  <2> DEFINE all == 1..N
  <2>3. /\ IsFiniteSet(all) /\ Cardinality(all) = N /\ 0 \notin all
    BY <1>1, UpToCounted
  <2>4. all \cup {0} \subseteq opened
    BY <1>1, <2>1, <2>2
  <2> HIDE DEF all, opened, N
  <2>5. /\ IsFiniteSet(all \cup {0}) /\ Cardinality(all \cup {0}) = N + 1
    BY <2>3, FS_AddElement
  <2>6. Cardinality(all \cup {0}) <= Cardinality(opened)
    BY <1>2, <2>4, FS_Subset
  <2>7. Cardinality(opened) \in Nat
    BY <1>2, FS_CardinalityType
  <2> QED BY <1>1, <1>2, <2>5, <2>6, <2>7
<1>4. PICK n \in Inode : n \notin opened
  BY <1>3
<1>5. n # file /\ text[n] = <<>> /\ \A d \in FileCall : fd[d] # n
  <2>1. n # 0
    BY <1>1
  <2>2. \A d \in FileCall : fd[d] # n
    BY <1>4
  <2> QED BY <2>1, <2>2 DEF FilesInv, OpenedFirst
<1> HIDE DEF opened
<1> QED BY <1>5 DEF FreshInode

LEMMA OpenStep ==
  ASSUME FilesInv, NEW c \in FileCall, OpenFile(c)
  PROVE  FilesInv'
<1>1. FileTypes /\ PoolInv /\ StepsInv /\ OpenedFirst /\ AppendedOnce
  BY DEF FilesInv
<1>2. /\ pc[c] \in {"open", "reopen"} /\ fd[c] = 0
      /\ kind' = kind /\ pool' = pool /\ dir' = dir
      /\ fileDetached' = fileDetached /\ heard' = heard
  BY <1>1 DEF OpenFile, OpenedFirst
<1>3. /\ file \in Inode \cup {0} /\ dir \in BOOLEAN
      /\ result \in [FileCall -> {"ok", "error"}]
  BY <1>1 DEF FileTypes
<1>4. CASE /\ file = 0
           /\ IF pc[c] = "open" THEN Goto(c, "create_dir") /\ UNCHANGED result
                                ELSE Finish(c, "error")
           /\ UNCHANGED <<fd, file, text, wiped>>
  <2>1. CASE pc' = [pc EXCEPT ![c] = "create_dir"] /\ result' = result
    <3>1. "create_dir" \in FileSteps /\ "create_dir" \in WriteSteps
      BY DEF FileSteps, WriteSteps
    <3> QED BY <1>2, <1>3, <1>4, <2>1, <3>1, WorkStep
  <2>2. CASE Finish(c, "error")
    BY <1>2, <1>3, <1>4, <2>2, Finishes, WorkStep
  <2> QED BY <1>4, <2>1, <2>2 DEF Goto
<1>5. CASE /\ file' = IF file = 0 THEN FreshInode ELSE file
           /\ fd' = [fd EXCEPT ![c] = file']
           /\ text' = IF kind[c] = "overwrite" THEN [text EXCEPT ![file'] = <<>>] ELSE text
           /\ wiped' = IF kind[c] = "overwrite" THEN wiped \cup {file'} ELSE wiped
           /\ pc' = [pc EXCEPT ![c] = "transfer"] /\ result' = result
  <2>1. file' \in Inode
    BY <1>2, <1>3, <1>5, InodeLeft
  <2>2. PICK n \in Inode : n = file'
    BY <2>1
  <2>3. /\ fd' = [fd EXCEPT ![c] = n] /\ file' = n
        /\ text' = IF kind[c] = "overwrite" THEN [text EXCEPT ![n] = <<>>] ELSE text
        /\ wiped' = IF kind[c] = "overwrite" THEN wiped \cup {n} ELSE wiped
    BY <1>5, <2>2
  <2>4. /\ fd \in [FileCall -> Inode \cup {0}] /\ pc \in [FileCall -> FileSteps]
        /\ text \in [Inode -> Seq(FileCall)] /\ wiped \subseteq Inode
        /\ "transfer" \in FileSteps /\ "transfer" \in WriteSteps
    BY <1>1 DEF FileTypes, FileSteps, WriteSteps
  <2>5. /\ fd' \in [FileCall -> Inode \cup {0}] /\ fd'[c] = n
        /\ \A d \in FileCall \ {c} : fd'[d] = fd[d]
        /\ pc' \in [FileCall -> FileSteps] /\ pc'[c] = "transfer"
        /\ \A d \in FileCall \ {c} : pc'[d] = pc[d]
    BY <1>5, <2>3, <2>4
  <2>6. /\ text' \in [Inode -> Seq(FileCall)] /\ wiped' \subseteq Inode
        /\ wiped \subseteq wiped'
        /\ \A m \in Inode \ wiped' : text'[m] = text[m] /\ m \notin wiped
        /\ \A m \in Inode : text'[m] = text[m] \/ text'[m] = <<>>
    <3>1. <<>> \in Seq(FileCall)
      BY EmptySeq
    <3>2. CASE kind[c] = "overwrite"
      BY <2>3, <2>4, <3>1, <3>2
    <3>3. CASE kind[c] # "overwrite"
      BY <2>3, <2>4, <3>3
    <3> QED BY <3>2, <3>3
  <2>7. FileTypes'
    BY <1>1, <1>2, <1>5, <2>1, <2>5, <2>6 DEF FileTypes
  <2>8. PoolInv'
    <3>1. Working' \subseteq Working
      BY <1>2, <2>5, WorkingAre, WorkingNext
    <3>2. \A d \in Range(pool) : pc'[d] = "queued"
      <4>1. Range(pool) \subseteq FileCall
        BY <1>1, RangeOf, ElementOfSeq, LenProperties DEF FileTypes
      <4> QED BY <1>1, <1>2, <2>5, <4>1 DEF PoolInv
    <3> QED BY <1>1, <1>2, <3>1, <3>2, FewerWorking DEF PoolInv
  <2>9. StepsInv'
    <3>1. ASSUME NEW d \in FileCall
          PROVE  /\ kind[d] = "none" => pc'[d] = "start"
                 /\ kind[d] \in Writes => pc'[d] \in WriteSteps
                 /\ heard[d] = "ok" => pc'[d] = "heard"
      BY <1>1, <1>2, <2>4, <2>5 DEF StepsInv
    <3> QED BY <1>2, <3>1 DEF StepsInv
  <2>10. OpenedFirst'
    <3>1. ASSUME NEW d \in FileCall
          PROVE  /\ pc'[d] \notin {"transfer", "done", "heard"} => fd'[d] = 0
                 /\ pc'[d] = "transfer" => fd'[d] # 0
                 /\ kind[d] = "overwrite" /\ fd'[d] # 0 => fd'[d] \in wiped'
      <4>1. CASE d = c
        <5>1. n # 0
          BY CallsCounted
        <5> QED BY <2>3, <2>5, <4>1, <5>1
      <4>2. CASE d # c
        BY <1>1, <2>5, <2>6, <4>2 DEF OpenedFirst
      <4> QED BY <4>1, <4>2
    <3>2. ASSUME NEW m \in Inode, text'[m] # <<>>
          PROVE  \E d \in FileCall : fd'[d] = m
      <4>1. text[m] # <<>>
        BY <2>6, <3>2
      <4>2. PICK d \in FileCall : fd[d] = m
        BY <1>1, <4>1 DEF OpenedFirst
      <4>3. d # c
        BY <1>2, <4>2, CallsCounted
      <4> QED BY <2>5, <4>2, <4>3
    <3> QED BY <1>2, <3>1, <3>2 DEF OpenedFirst
  <2>11. AppendedOnce'
    <3>1. ASSUME NEW m \in Inode \ wiped', NEW k \in DOMAIN text'[m]
          PROVE  pc'[text'[m][k]] \in {"done", "heard"}
      <4>1. text'[m] = text[m] /\ m \in Inode \ wiped
        BY <2>6
      <4>2. pc[text[m][k]] \in {"done", "heard"}
        BY <1>1, <4>1 DEF AppendedOnce
      <4>3. text[m] \in Seq(FileCall)
        BY <2>4
      <4>4. text[m][k] \in FileCall
        BY <4>1, <4>3, ElementOfSeq
      <4> QED BY <1>2, <2>5, <4>1, <4>2, <4>4
    <3>2. ASSUME NEW d \in FileCall, HasAppended(d)'
          PROVE  /\ fd'[d] # 0
                 /\ fd'[d] \notin wiped' => Cardinality(TextPlaces(fd[d], d)') = 1
      <4>1. d # c
        <5>1. heard[c] # "ok"
          BY <1>1, <1>2 DEF StepsInv
        <5> QED BY <1>2, <2>5, <3>2, <5>1 DEF HasAppended
      <4>2. HasAppended(d) /\ fd'[d] = fd[d]
        BY <1>2, <1>5, <2>5, <3>2, <4>1 DEF HasAppended
      <4>3. fd[d] # 0 /\ (fd[d] \notin wiped => Cardinality(TextPlaces(fd[d], d)) = 1)
        BY <1>1, <4>2 DEF AppendedOnce
      <4>4. fd[d] \in Inode
        BY <2>4, <4>3
      <4>5. fd[d] \notin wiped' => TextPlaces(fd[d], d)' = TextPlaces(fd[d], d)
        BY <2>6, <4>2, <4>4 DEF TextPlaces
      <4> QED BY <2>6, <4>2, <4>3, <4>5
    <3> QED BY <3>1, <3>2 DEF AppendedOnce
  <2> QED BY <2>7, <2>8, <2>9, <2>10, <2>11 DEF FilesInv
<1> QED BY <1>4, <1>5 DEF OpenFile, Goto

(* The call c writes the inode n it has open.                              *)
LEMMA WrittenText ==
  ASSUME FilesInv, NEW c \in FileCall, pc[c] = "transfer", NEW n \in Inode,
         fd[c] = n, kind[c] \in Writes, NEW t \in Seq(FileCall),
         UNCHANGED <<kind, pool, fd, file, dir, fileDetached, heard, wiped>>,
         text' = [text EXCEPT ![n] = t], Finish(c, "ok"),
         kind[c] = "append" => t = Append(text[n], c),
         kind[c] = "overwrite" => n \in wiped
  PROVE  FilesInv'
<1>1. FileTypes /\ PoolInv /\ StepsInv /\ OpenedFirst /\ AppendedOnce
  BY DEF FilesInv
<1>2. /\ kind' = kind /\ pool' = pool /\ fd' = fd /\ file' = file /\ dir' = dir
      /\ fileDetached' = fileDetached /\ heard' = heard /\ wiped' = wiped
  OBVIOUS
<1>3. /\ pc' = [pc EXCEPT ![c] = "done"] /\ "done" \in FileSteps
      /\ "done" \in WriteSteps
      /\ result' \in [FileCall -> {"ok", "error"}] /\ result'[c] = "ok"
      /\ \A d \in FileCall \ {c} : result'[d] = result[d]
  BY Finishes
<1>4. /\ pc' \in [FileCall -> FileSteps] /\ pc'[c] = "done"
      /\ \A d \in FileCall \ {c} : pc'[d] = pc[d]
      /\ text \in [Inode -> Seq(FileCall)]
  BY <1>1, <1>3 DEF FileTypes
<1>5. /\ text' \in [Inode -> Seq(FileCall)] /\ text'[n] = t
      /\ \A m \in Inode \ {n} : text'[m] = text[m]
  BY <1>4
<1>6. FileTypes'
  BY <1>1, <1>2, <1>3, <1>4, <1>5 DEF FileTypes
<1>7. PoolInv'
  <2>1. Working' \subseteq Working
    BY <1>4, WorkingAre, WorkingNext
  <2>2. \A d \in Range(pool) : pc'[d] = "queued"
    <3>1. Range(pool) \subseteq FileCall
      BY <1>1, RangeOf, ElementOfSeq, LenProperties DEF FileTypes
    <3> QED BY <1>1, <1>4, <3>1 DEF PoolInv
  <2> QED BY <1>1, <1>2, <2>1, <2>2, FewerWorking DEF PoolInv
<1>8. StepsInv'
  <2>1. ASSUME NEW d \in FileCall
        PROVE  /\ kind[d] = "none" => pc'[d] = "start"
               /\ kind[d] \in Writes => pc'[d] \in WriteSteps
               /\ heard[d] = "ok" => pc'[d] = "heard"
    BY <1>1, <1>3, <1>4 DEF StepsInv
  <2> QED BY <1>2, <2>1 DEF StepsInv
<1>9. OpenedFirst'
  <2>1. ASSUME NEW d \in FileCall
        PROVE  /\ pc'[d] \notin {"transfer", "done", "heard"} => fd[d] = 0
               /\ pc'[d] = "transfer" => fd[d] # 0
    BY <1>1, <1>4 DEF OpenedFirst
  <2>2. ASSUME NEW m \in Inode, text'[m] # <<>> PROVE \E d \in FileCall : fd[d] = m
    BY <1>1, <1>5, <2>2 DEF OpenedFirst
  <2> QED BY <1>1, <1>2, <2>1, <2>2 DEF OpenedFirst
<1>10. AppendedOnce'
  <2>1. kind[c] \in {"append", "overwrite"}
    BY DEF Writes
  <2>2. CASE kind[c] = "overwrite"
    <3>1. n \in wiped
      BY <2>2
    <3>2. \A m \in Inode \ wiped : text'[m] = text[m]
      BY <1>5, <3>1
    <3>3. ASSUME NEW m \in Inode \ wiped, NEW k \in DOMAIN text[m]
          PROVE  pc'[text[m][k]] \in {"done", "heard"}
      <4>1. pc[text[m][k]] \in {"done", "heard"}
        BY <1>1 DEF AppendedOnce
      <4>2. text[m] \in Seq(FileCall)
        BY <1>4
      <4>3. text[m][k] \in FileCall
        BY <4>2, ElementOfSeq
      <4> QED BY <1>4, <4>1, <4>3
    <3>4. ASSUME NEW d \in FileCall, HasAppended(d)'
          PROVE  /\ fd[d] # 0
                 /\ fd[d] \notin wiped => Cardinality(TextPlaces(fd[d], d)') = 1
      <4>1. d # c /\ HasAppended(d)
        BY <1>2, <1>3, <1>4, <2>2, <3>4 DEF HasAppended
      <4>2. fd[d] # 0 /\ (fd[d] \notin wiped => Cardinality(TextPlaces(fd[d], d)) = 1)
        BY <1>1, <4>1 DEF AppendedOnce
      <4>3. fd[d] \in Inode
        BY <1>1, <4>2 DEF FileTypes
      <4>4. fd[d] \notin wiped => TextPlaces(fd[d], d)' = TextPlaces(fd[d], d)
        BY <1>2, <3>2, <4>3 DEF TextPlaces
      <4> QED BY <4>2, <4>4
    <3> QED BY <1>2, <3>2, <3>3, <3>4 DEF AppendedOnce
  <2>3. CASE kind[c] = "append"
    <3> DEFINE old == text[n]
    <3>1. old \in Seq(FileCall) /\ t = Append(old, c)
      BY <1>4, <2>3
    <3> HIDE DEF old
    <3>2. /\ Len(old) \in Nat /\ DOMAIN old = 1..Len(old)
          /\ DOMAIN t = 1..Len(old) + 1 /\ t[Len(old) + 1] = c
          /\ \A k \in 1..Len(old) : t[k] = old[k]
      BY <3>1, AppendProperties, LenProperties
    <3>3. \A k \in 1..Len(old) : old[k] \in FileCall
      BY <3>1, ElementOfSeq
    <3>4. ASSUME n \notin wiped, NEW k \in 1..Len(old)
          PROVE  pc[old[k]] \in {"done", "heard"} /\ old[k] # c
      BY <1>1, <3>2, <3>4 DEF AppendedOnce, old
    <3>5. ASSUME NEW m \in Inode \ wiped, NEW k \in DOMAIN text'[m]
          PROVE  pc'[text'[m][k]] \in {"done", "heard"}
      <4>1. CASE m # n
        <5>1. text'[m] = text[m]
          BY <1>5, <4>1
        <5>2. pc[text[m][k]] \in {"done", "heard"}
          BY <1>1, <5>1 DEF AppendedOnce
        <5>3. text[m] \in Seq(FileCall)
          BY <1>4
        <5>4. text[m][k] \in FileCall
          BY <5>1, <5>3, ElementOfSeq
        <5> QED BY <1>4, <5>1, <5>2, <5>4
      <4>2. CASE m = n /\ k \in 1..Len(old)
        BY <1>4, <1>5, <3>2, <3>3, <3>4, <4>2
      <4>3. CASE m = n /\ k \notin 1..Len(old)
        <5>1. k = Len(old) + 1
          BY <1>5, <3>2, <4>3
        <5> QED BY <1>4, <1>5, <3>2, <4>3, <5>1
      <4> QED BY <4>1, <4>2, <4>3
    <3>6. ASSUME NEW d \in FileCall, HasAppended(d)', d # c
          PROVE  /\ fd[d] # 0
                 /\ fd[d] \notin wiped => Cardinality(TextPlaces(fd[d], d)') = 1
      <4>1. HasAppended(d)
        BY <1>2, <1>3, <1>4, <3>6 DEF HasAppended
      <4>2. fd[d] # 0 /\ (fd[d] \notin wiped => Cardinality(TextPlaces(fd[d], d)) = 1)
        BY <1>1, <4>1 DEF AppendedOnce
      <4>3. fd[d] \in Inode
        BY <1>1, <4>2 DEF FileTypes
      <4>4. TextPlaces(fd[d], d)' = TextPlaces(fd[d], d)
        <5>1. CASE fd[d] # n
          BY <1>2, <1>5, <4>3, <5>1 DEF TextPlaces
        <5>2. CASE fd[d] = n
          <6>1. TextPlaces(fd[d], d)' = {k \in DOMAIN t : t[k] = d}
            BY <1>2, <1>5, <5>2 DEF TextPlaces
          <6>2. TextPlaces(fd[d], d) = {k \in DOMAIN old : old[k] = d}
            BY <5>2 DEF TextPlaces, old
          <6>3. {k \in DOMAIN t : t[k] = d} = {k \in DOMAIN old : old[k] = d}
            BY <3>2, <3>6
          <6> QED BY <6>1, <6>2, <6>3
        <5> QED BY <5>1, <5>2
      <4> QED BY <4>2, <4>4
    <3>7. /\ fd[c] # 0
          /\ fd[c] \notin wiped => Cardinality(TextPlaces(fd[c], c)') = 1
      <4>1. ASSUME n \notin wiped PROVE TextPlaces(fd[c], c)' = {Len(old) + 1}
        <5>1. TextPlaces(fd[c], c)' = {k \in DOMAIN t : t[k] = c}
          BY <1>2, <1>5 DEF TextPlaces
        <5>2. \A k \in 1..Len(old) : t[k] # c
          BY <3>2, <3>4, <4>1
        <5>3. \A k \in DOMAIN t : t[k] = c <=> k = Len(old) + 1
          BY <3>2, <5>2
        <5>4. Len(old) + 1 \in DOMAIN t
          BY <3>2
        <5> QED BY <5>1, <5>3, <5>4
      <4>2. \A k : Cardinality({k}) = 1
        BY FS_Singleton
      <4>3. n # 0
        BY CallsCounted
      <4> QED BY <4>1, <4>2, <4>3
    <3> QED BY <1>2, <3>5, <3>6, <3>7 DEF AppendedOnce
  <2> QED BY <2>1, <2>2, <2>3
<1> QED BY <1>6, <1>7, <1>8, <1>9, <1>10 DEF FilesInv

LEMMA TransferStep ==
  ASSUME FilesInv, NEW c \in FileCall, Transfer(c)
  PROVE  FilesInv'
<1>1. /\ pc[c] = "transfer"
      /\ UNCHANGED <<kind, pool, fd, file, dir, fileDetached, heard, wiped>>
  BY DEF Transfer
<1>2. /\ file \in Inode \cup {0} /\ dir \in BOOLEAN /\ fd[c] \in Inode
      /\ text \in [Inode -> Seq(FileCall)]
  BY <1>1 DEF FilesInv, FileTypes, OpenedFirst
<1>3. CASE Finish(c, "error") /\ UNCHANGED text
  BY <1>1, <1>2, <1>3, Finishes, WorkStep
<1> DEFINE over == IF text[fd[c]] = <<>> THEN <<c>> ELSE [text[fd[c]] EXCEPT ![1] = c]
<1>4. CASE /\ Finish(c, "ok")
           /\ text' = CASE kind[c] = "append" ->
                             [text EXCEPT ![fd[c]] = Append(@, c)]
                        [] kind[c] = "overwrite" ->
                             [text EXCEPT ![fd[c]] = IF @ = <<>> THEN <<c>>
                                                     ELSE [@ EXCEPT ![1] = c]]
                        [] OTHER -> text
  <2>1. PICK n \in Inode : n = fd[c]
    BY <1>2
  <2>2. CASE kind[c] = "append"
    <3>1. text' = [text EXCEPT ![fd[c]] = Append(@, c)]
      BY <1>4, <2>2
    <3>2. text' = [text EXCEPT ![n] = Append(text[n], c)]
      BY <1>2, <2>1, <3>1
    <3>3. Append(text[n], c) \in Seq(FileCall)
      BY <1>2, AppendProperties
    <3> QED BY <1>1, <1>4, <2>1, <2>2, <3>2, <3>3, WrittenText DEF Writes
  <2>3. CASE kind[c] = "overwrite"
    <3>1. text' = [text EXCEPT ![fd[c]] = IF @ = <<>> THEN <<c>>
                                          ELSE [@ EXCEPT ![1] = c]]
      BY <1>4, <2>3
    <3>2. text' = [text EXCEPT ![n] = over]
      BY <1>2, <2>1, <3>1
    <3>3. over \in Seq(FileCall)
      <4> DEFINE old == text[fd[c]]
      <4>1. old \in Seq(FileCall)
        BY <1>2
      <4>2. CASE old = <<>>
        BY <4>2
      <4>3. CASE old # <<>>
        <5> HIDE DEF old
        <5>1. /\ Len(old) \in Nat /\ DOMAIN old = 1..Len(old)
              /\ \A k \in 1..Len(old) : old[k] \in FileCall
          BY <4>1, LenProperties, ElementOfSeq
        <5>2. [old EXCEPT ![1] = c] \in [1..Len(old) -> FileCall]
          BY <4>1, <5>1
        <5>3. [old EXCEPT ![1] = c] \in Seq(FileCall)
          BY <5>1, <5>2
        <5> QED BY <4>3, <5>3 DEF old
      <4> QED BY <4>2, <4>3
    <3>4. fd[c] \in wiped
      BY <1>2, <2>3, CallsCounted DEF FilesInv, OpenedFirst
    <3> HIDE DEF over
    <3> QED BY <1>1, <1>4, <2>1, <2>3, <3>2, <3>3, <3>4, WrittenText DEF Writes
  <2>4. CASE kind[c] # "append" /\ kind[c] # "overwrite"
    <3>1. text' = text
      BY <1>4, <2>4, Zenon
    <3> QED BY <1>1, <1>2, <1>4, <2>4, <3>1, Finishes, WorkStep DEF Writes
  <2> QED BY <2>2, <2>3, <2>4
<1> QED BY <1>3, <1>4 DEF Transfer

(* A call that is made, taken from the pool or told: nothing of the file   *)
(* changes.                                                                *)
LEMMA CallMoves ==
  ASSUME FilesInv, NEW c \in FileCall, NEW w \in FileSteps, w # "transfer",
         pc' = [pc EXCEPT ![c] = w], pc[c] \in {"start", "queued", "done"},
         UNCHANGED <<fd, result, text, wiped>>,
         \A d \in FileCall \ {c} : kind'[d] = kind[d] /\ heard'[d] = heard[d],
         w = "heard" \/ fd[c] = 0, pc[c] = "done" => w = "heard",
         pc[c] # "start" => kind'[c] = kind[c],
         HasAppended(c)' => HasAppended(c)
  PROVE  OpenedFirst' /\ AppendedOnce'
<1>1. FileTypes /\ PoolInv /\ StepsInv /\ OpenedFirst /\ AppendedOnce
  BY DEF FilesInv
<1>2. /\ pc' \in [FileCall -> FileSteps] /\ pc'[c] = w
      /\ \A d \in FileCall \ {c} : pc'[d] = pc[d]
      /\ text \in [Inode -> Seq(FileCall)]
  BY <1>1 DEF FileTypes
<1>3. pc[c] = "start" => fd[c] = 0
  BY <1>1 DEF OpenedFirst
<1>4. OpenedFirst'
  <2>1. ASSUME NEW d \in FileCall
        PROVE  /\ pc'[d] \notin {"transfer", "done", "heard"} => fd[d] = 0
               /\ pc'[d] = "transfer" => fd[d] # 0
               /\ kind'[d] = "overwrite" /\ fd[d] # 0 => fd[d] \in wiped
    <3>1. CASE d = c
      BY <1>1, <1>2, <1>3, <3>1 DEF OpenedFirst
    <3>2. CASE d # c
      BY <1>1, <1>2, <3>2 DEF OpenedFirst
    <3> QED BY <3>1, <3>2
  <2> QED BY <1>1, <2>1 DEF OpenedFirst
<1>5. AppendedOnce'
  <2>1. ASSUME NEW n \in Inode \ wiped, NEW k \in DOMAIN text[n]
        PROVE  pc'[text[n][k]] \in {"done", "heard"}
    <3>1. pc[text[n][k]] \in {"done", "heard"}
      BY <1>1 DEF AppendedOnce
    <3>2. text[n] \in Seq(FileCall)
      BY <1>2
    <3>3. text[n][k] \in FileCall
      BY <3>2, ElementOfSeq
    <3> QED BY <1>2, <3>1, <3>3
  <2>2. ASSUME NEW d \in FileCall, HasAppended(d)'
        PROVE  /\ fd[d] # 0
               /\ fd[d] \notin wiped => Cardinality(TextPlaces(fd[d], d)') = 1
    <3>1. HasAppended(d)
      <4>1. CASE d = c
        BY <2>2, <4>1
      <4>2. CASE d # c
        BY <1>2, <2>2, <4>2 DEF HasAppended
      <4> QED BY <4>1, <4>2
    <3>2. TextPlaces(fd[d], d)' = TextPlaces(fd[d], d)
      BY DEF TextPlaces
    <3> QED BY <1>1, <3>1, <3>2 DEF AppendedOnce
  <2> QED BY <2>1, <2>2 DEF AppendedOnce
<1> QED BY <1>4, <1>5

LEMMA MakeCallStep ==
  ASSUME FilesInv, NEW c \in FileCall, NEW k \in Kinds, MakeCall(c, k)
  PROVE  FilesInv'
<1>1. FileTypes /\ PoolInv /\ StepsInv /\ OpenedFirst /\ AppendedOnce
  BY DEF FilesInv
<1>2. /\ kind[c] = "none" /\ kind' = [kind EXCEPT ![c] = k]
      /\ fd' = fd /\ result' = result /\ dir' = dir /\ file' = file /\ text' = text
      /\ fileDetached' = fileDetached /\ wiped' = wiped
      /\ k \in AllKinds
  BY FileCallsAssumption DEF MakeCall
<1>3. pc[c] = "start" /\ heard[c] # "ok" /\ fd[c] = 0
  BY <1>1, <1>2 DEF StepsInv, OpenedFirst
<1>4. /\ kind' \in [FileCall -> AllKinds \cup {"none"}] /\ kind'[c] = k
      /\ \A d \in FileCall \ {c} : kind'[d] = kind[d]
      /\ k # "none"
  BY <1>1, <1>2 DEF FileTypes, AllKinds, Reads, Writes, Unlinks
<1>5. /\ pool \in Seq(FileCall) /\ pc \in [FileCall -> FileSteps]
      /\ heard \in [FileCall -> {"nothing", "ok", "error"}]
      /\ "queued" \in FileSteps /\ "heard" \in FileSteps
      /\ "queued" \in WriteSteps /\ "heard" \in WriteSteps
  BY <1>1 DEF FileTypes, FileSteps, WriteSteps
<1>6. c \notin Range(pool) /\ Range(pool) \subseteq FileCall
  BY <1>1, <1>3, <1>5, RangeOf, ElementOfSeq, LenProperties DEF PoolInv
<1>7. CASE pool' = Append(pool, c) /\ pc' = [pc EXCEPT ![c] = "queued"] /\ heard' = heard
  <2>1. /\ pc' \in [FileCall -> FileSteps] /\ pc'[c] = "queued"
        /\ \A d \in FileCall \ {c} : pc'[d] = pc[d]
    BY <1>5, <1>7
  <2>2. /\ pool' \in Seq(FileCall) /\ IsInjective(pool')
        /\ Range(pool') = Range(pool) \cup {c}
    BY <1>1, <1>5, <1>6, <1>7, InjectiveAppend, AppendProperties DEF PoolInv
  <2>3. FileTypes'
    BY <1>1, <1>2, <1>4, <1>7, <2>1, <2>2 DEF FileTypes
  <2>4. PoolInv'
    <3>1. Working' \subseteq Working
      BY <2>1, WorkingAre, WorkingNext
    <3>2. \A d \in Range(pool') : pc'[d] = "queued"
      BY <1>1, <1>6, <2>1, <2>2 DEF PoolInv
    <3> QED BY <1>1, <2>2, <3>1, <3>2, FewerWorking DEF PoolInv
  <2>5. StepsInv'
    BY <1>1, <1>3, <1>4, <1>5, <1>7, <2>1 DEF StepsInv
  <2>6. OpenedFirst' /\ AppendedOnce'
    <3>1. ~HasAppended(c)'
      BY <1>3, <1>7, <2>1 DEF HasAppended
    <3> QED BY <1>2, <1>3, <1>4, <1>5, <1>7, <3>1, CallMoves
  <2> QED BY <2>3, <2>4, <2>5, <2>6 DEF FilesInv
<1>8. CASE /\ heard' = [heard EXCEPT ![c] = "error"] /\ pc' = [pc EXCEPT ![c] = "heard"]
           /\ pool' = pool
  <2>1. /\ pc' \in [FileCall -> FileSteps] /\ pc'[c] = "heard"
        /\ \A d \in FileCall \ {c} : pc'[d] = pc[d]
    BY <1>5, <1>8
  <2>2. /\ heard' \in [FileCall -> {"nothing", "ok", "error"}] /\ heard'[c] = "error"
        /\ \A d \in FileCall \ {c} : heard'[d] = heard[d]
    BY <1>5, <1>8
  <2>3. FileTypes'
    BY <1>1, <1>2, <1>4, <1>8, <2>1, <2>2 DEF FileTypes
  <2>4. PoolInv'
    <3>1. Working' \subseteq Working
      BY <2>1, WorkingAre, WorkingNext
    <3>2. \A d \in Range(pool) : pc'[d] = "queued"
      BY <1>1, <1>6, <2>1 DEF PoolInv
    <3> QED BY <1>1, <1>8, <3>1, <3>2, FewerWorking DEF PoolInv
  <2>5. StepsInv'
    BY <1>1, <1>4, <1>5, <2>1, <2>2 DEF StepsInv
  <2>6. OpenedFirst' /\ AppendedOnce'
    <3>1. ~HasAppended(c)'
      BY <2>1, <2>2 DEF HasAppended
    <3> QED BY <1>2, <1>3, <1>4, <1>5, <1>8, <2>2, <3>1, CallMoves
  <2> QED BY <2>3, <2>4, <2>5, <2>6 DEF FilesInv
<1> QED BY <1>7, <1>8 DEF MakeCall, Goto

LEMMA FirstSteps ==
  ASSUME NEW k \in AllKinds \cup {"none"}
  PROVE  /\ k # "none" => FirstStep(k) \in FileSteps
         /\ FirstStep(k) \notin {"transfer", "start", "queued", "done", "heard"}
         /\ k \in Writes => FirstStep(k) \in WriteSteps
<1>1. CASE k = "readText"
  <2>1. FirstStep(k) = "stat"
    BY <1>1, Zenon DEF FirstStep, Writes
  <2> QED BY <1>1, <2>1 DEF FileSteps, Writes
<1>2. CASE k = "readArrayBuffer" \/ k \in Writes
  <2>1. k # "readText"
    BY <1>2 DEF Writes
  <2>2. FirstStep(k) = "open"
    BY <1>2, <2>1, Zenon DEF FirstStep
  <2> QED BY <2>2 DEF FileSteps, WriteSteps
<1>3. CASE k # "readText" /\ k # "readArrayBuffer" /\ k \notin Writes
  <2>1. FirstStep(k) = k
    BY <1>3, Zenon DEF FirstStep
  <2> QED BY <1>3, <2>1 DEF FileSteps, AllKinds, Reads, Unlinks
<1> QED BY <1>1, <1>2, <1>3

LEMMA TakeStep ==
  ASSUME FilesInv, ThreadTakes
  PROVE  FilesInv'
<1>1. FileTypes /\ PoolInv /\ StepsInv /\ OpenedFirst /\ AppendedOnce
  BY DEF FilesInv
<1>2. /\ pool # <<>> /\ Cardinality(Working) < Threads /\ pool' = Tail(pool)
      /\ kind' = kind /\ fd' = fd /\ result' = result /\ dir' = dir /\ file' = file
      /\ text' = text /\ fileDetached' = fileDetached /\ heard' = heard
      /\ wiped' = wiped
  BY DEF ThreadTakes
<1>3. /\ pool \in Seq(FileCall) /\ pc \in [FileCall -> FileSteps]
  BY <1>1 DEF FileTypes
<1>4. /\ Head(pool) \in FileCall /\ Tail(pool) \in Seq(FileCall)
      /\ Range(pool) = Range(Tail(pool)) \cup {Head(pool)}
      /\ IsInjective(Tail(pool)) /\ Head(pool) \notin Range(Tail(pool))
  BY <1>1, <1>2, <1>3, RangeTail, InjectiveTail DEF PoolInv
<1>5. PICK c \in FileCall : c = Head(pool)
  BY <1>4
<1>6. PICK w \in FileSteps :
        /\ w = FirstStep(kind[c])
        /\ w \notin {"transfer", "start", "queued", "done", "heard"}
        /\ (kind[c] \in Writes => w \in WriteSteps)
  <2>1. kind[c] \in AllKinds \cup {"none"} /\ kind[c] # "none"
    BY <1>1, <1>4, <1>5 DEF FileTypes, PoolInv, StepsInv
  <2> QED BY <2>1, FirstSteps
<1>7. /\ pc' = [pc EXCEPT ![c] = w] /\ pc[c] = "queued"
  BY <1>1, <1>4, <1>5, <1>6 DEF ThreadTakes, Goto, PoolInv
<1>8. /\ pc' \in [FileCall -> FileSteps] /\ pc'[c] = w
      /\ \A d \in FileCall \ {c} : pc'[d] = pc[d]
  BY <1>3, <1>7
<1>9. FileTypes'
  BY <1>1, <1>2, <1>4, <1>8 DEF FileTypes
<1>10. PoolInv'
  <2>1. Working' = Working \cup {c} /\ c \notin Working
    BY <1>6, <1>7, <1>8, WorkingAre, WorkingNext
  <2>2. IsFiniteSet(Working') /\ Cardinality(Working') = Cardinality(Working) + 1
    BY <1>1, <2>1, FS_AddElement DEF PoolInv
  <2>3. Cardinality(Working) \in Nat
    BY <1>1, FS_CardinalityType DEF PoolInv
  <2>4. \A d \in Range(Tail(pool)) : pc'[d] = "queued"
    <3>1. Range(Tail(pool)) \subseteq FileCall
      BY <1>4, RangeOf, ElementOfSeq, LenProperties
    <3> QED BY <1>1, <1>4, <1>5, <1>8, <3>1 DEF PoolInv
  <2> QED BY <1>2, <1>4, <2>2, <2>3, <2>4, CallsCounted DEF PoolInv
<1>11. StepsInv'
  <2>1. ASSUME NEW d \in FileCall
        PROVE  /\ kind[d] = "none" => pc'[d] = "start"
               /\ kind[d] \in Writes => pc'[d] \in WriteSteps
               /\ heard[d] = "ok" => pc'[d] = "heard"
    BY <1>1, <1>6, <1>7, <1>8 DEF StepsInv
  <2> QED BY <1>2, <2>1 DEF StepsInv
<1>12. OpenedFirst' /\ AppendedOnce'
  <2>1. ~HasAppended(c)'
    BY <1>1, <1>2, <1>6, <1>7, <1>8 DEF HasAppended, StepsInv
  <2>2. fd[c] = 0
    BY <1>1, <1>7 DEF OpenedFirst
  <2> QED BY <1>2, <1>6, <1>7, <2>1, <2>2, CallMoves
<1> QED BY <1>9, <1>10, <1>11, <1>12 DEF FilesInv

LEMMA AfterWorkStep ==
  ASSUME FilesInv, NEW c \in FileCall, AfterWork(c)
  PROVE  FilesInv'
<1>1. FileTypes /\ PoolInv /\ StepsInv /\ OpenedFirst /\ AppendedOnce
  BY DEF FilesInv
<1>2. /\ pc[c] = "done" /\ pc' = [pc EXCEPT ![c] = "heard"]
      /\ heard' = [heard EXCEPT ![c] = IF fileDetached THEN @ ELSE result[c]]
      /\ kind' = kind /\ pool' = pool /\ fd' = fd /\ result' = result /\ dir' = dir
      /\ file' = file /\ text' = text /\ fileDetached' = fileDetached
      /\ wiped' = wiped
  BY DEF AfterWork, Goto
<1>3. /\ pc' \in [FileCall -> FileSteps] /\ pc'[c] = "heard"
      /\ \A d \in FileCall \ {c} : pc'[d] = pc[d]
      /\ "heard" \in FileSteps /\ "heard" \in WriteSteps
  BY <1>1, <1>2 DEF FileTypes, FileSteps, WriteSteps
<1>4. /\ heard' \in [FileCall -> {"nothing", "ok", "error"}]
      /\ heard'[c] = IF fileDetached THEN heard[c] ELSE result[c]
      /\ \A d \in FileCall \ {c} : heard'[d] = heard[d]
  BY <1>1, <1>2 DEF FileTypes
<1>5. FileTypes'
  BY <1>1, <1>2, <1>3, <1>4 DEF FileTypes
<1>6. PoolInv'
  <2>1. Working' \subseteq Working
    BY <1>3, WorkingAre, WorkingNext
  <2>2. \A d \in Range(pool) : pc'[d] = "queued"
    <3>1. Range(pool) \subseteq FileCall
      BY <1>1, RangeOf, ElementOfSeq, LenProperties DEF FileTypes
    <3> QED BY <1>1, <1>2, <1>3, <3>1 DEF PoolInv
  <2> QED BY <1>1, <1>2, <2>1, <2>2, FewerWorking DEF PoolInv
<1>7. StepsInv'
  <2>1. ASSUME NEW d \in FileCall
        PROVE  /\ kind[d] = "none" => pc'[d] = "start"
               /\ kind[d] \in Writes => pc'[d] \in WriteSteps
               /\ heard'[d] = "ok" => pc'[d] = "heard"
    BY <1>1, <1>2, <1>3, <1>4 DEF StepsInv
  <2> QED BY <1>2, <2>1 DEF StepsInv
<1>8. OpenedFirst' /\ AppendedOnce'
  <2>1. HasAppended(c)' => HasAppended(c)
    <3>1. heard[c] # "ok"
      BY <1>1, <1>2 DEF StepsInv
    <3> QED BY <1>2, <1>3, <1>4, <3>1 DEF HasAppended
  <2> QED BY <1>2, <1>3, <1>4, <2>1, CallMoves
<1> QED BY <1>5, <1>6, <1>7, <1>8 DEF FilesInv

LEMMA FilesStart ==
  ASSUME FileInit
  PROVE  FilesInv
<1>1. FileTypes
  <2>1. \A n \in Inode : <<>> \in Seq(FileCall)
    BY EmptySeq
  <2> QED BY <2>1, EmptySeq DEF FileInit, FileTypes, FileSteps
<1>2. Working = {}
  BY WorkingAre DEF FileInit
<1>3. PoolInv
  <2>1. Range(pool) = {} /\ IsInjective(pool)
    BY DEF FileInit, Range, IsInjective
  <2> QED BY <1>2, <2>1, FS_EmptySet, CallsCounted DEF PoolInv
<1>4. StepsInv
  BY DEF FileInit, StepsInv, Writes
<1>5. OpenedFirst
  BY DEF FileInit, OpenedFirst
<1>6. AppendedOnce
  <2>1. \A c \in FileCall : ~HasAppended(c)
    BY DEF FileInit, HasAppended
  <2>2. \A n \in Inode : DOMAIN text[n] = {}
    BY DEF FileInit
  <2> QED BY <2>1, <2>2 DEF AppendedOnce
<1> QED BY <1>1, <1>3, <1>4, <1>5, <1>6 DEF FilesInv

LEMMA FilesStand ==
  ASSUME FilesInv, fileDetached' \in BOOLEAN,
         UNCHANGED <<kind, pool, pc, fd, result, dir, file, text, heard, wiped>>
  PROVE  FilesInv'
<1>1. FileTypes'
  BY DEF FilesInv, FileTypes
<1>2. Working' = Working
  BY DEF Working
<1>3. PoolInv'
  BY <1>2 DEF FilesInv, PoolInv
<1>4. StepsInv' /\ OpenedFirst'
  BY DEF FilesInv, StepsInv, OpenedFirst
<1>5. AppendedOnce'
  BY DEF FilesInv, AppendedOnce, HasAppended, TextPlaces
<1> QED BY <1>1, <1>3, <1>4, <1>5 DEF FilesInv

LEMMA FilesKept ==
  ASSUME FilesInv, [FileNext]_fcVars
  PROVE  FilesInv'
<1>1. fileDetached \in BOOLEAN
  BY DEF FilesInv, FileTypes
<1>2. CASE UNCHANGED fcVars
  BY <1>1, <1>2, FilesStand DEF fcVars
<1>3. CASE FileFinished
  BY <1>2, <1>3 DEF FileFinished
<1>4. CASE FileDetach
  BY <1>4, FilesStand DEF FileDetach
<1>5. ASSUME NEW c \in FileCall, \E k \in Kinds : MakeCall(c, k) PROVE FilesInv'
  BY <1>5, MakeCallStep
<1>6. ASSUME NEW c \in FileCall,
             \/ StatFile(c) \/ OpenFile(c) \/ CreateParent(c) \/ Transfer(c)
             \/ Mkdir(c) \/ RemoveEntries(c) \/ RemoveDir(c) \/ UnlinkOrLook(c)
             \/ AfterWork(c)
      PROVE  FilesInv'
  BY <1>6, StatStep, OpenStep, CreateParentStep, TransferStep, MkdirStep,
     RemoveFilesStep, LookStep, AfterWorkStep
<1> QED BY <1>2, <1>3, <1>4, <1>5, <1>6, TakeStep DEF FileNext

LEMMA FilesInvariant == FileSpec => []FilesInv
<1>1. FileInit => FilesInv
  BY FilesStart
<1>2. FilesInv /\ [FileNext]_fcVars => FilesInv'
  BY FilesKept
<1> QED BY <1>1, <1>2, PTL DEF FileSpec

(* A text whose appending was told as done is in the file, once, whatever  *)
(* calls the pool ran at the same time.                                    *)
THEOREM FilesKeepAppends == FileSpec => []AppendsKept
<1>1. FilesInv => AppendsKept
  <2>1. SUFFICES ASSUME FilesInv, NEW c \in FileCall, kind[c] = "append",
                        heard[c] = "ok", fd[c] \notin wiped
                 PROVE  Cardinality({k \in DOMAIN text[fd[c]] : text[fd[c]][k] = c}) = 1
    BY DEF AppendsKept
  <2>2. HasAppended(c)
    BY <2>1 DEF HasAppended
  <2>3. Cardinality(TextPlaces(fd[c], c)) = 1
    BY <2>1, <2>2 DEF FilesInv, AppendedOnce
  <2> QED BY <2>3 DEF TextPlaces
<1> QED BY <1>1, FilesInvariant, PTL

(* Never more works at once than libuv has threads, each on an inode that  *)
(* exists, and a text is made of calls.                                    *)
THEOREM FilesTypesHold == FileSpec => []FileTypeOK
<1>1. FilesInv => FileTypeOK
  <2>1. SUFFICES ASSUME FilesInv PROVE FileTypeOK
    OBVIOUS
  <2>2. \A n \in Inode : ToSet(text[n]) \subseteq FileCall
    <3>1. ASSUME NEW n \in Inode PROVE ToSet(text[n]) \subseteq FileCall
      <4>1. text[n] \in Seq(FileCall)
        BY <2>1 DEF FilesInv, FileTypes
      <4> QED BY <4>1, ElementOfSeq, LenProperties DEF ToSet
    <3> QED BY <3>1
  <2> QED BY <2>1, <2>2 DEF FilesInv, FileTypes, PoolInv, FileTypeOK
<1> QED BY <1>1, FilesInvariant, PTL

-----------------------------------------------------------------------------
(***************************************************************************)
(* The calls of system.crypto, without the mishaps: CryptoAnswersTrue and  *)
(* CryptoBlocksOnce.                                                       *)
(*                                                                         *)
(* PathInv says of each label of a call which blocks may be held there,    *)
(* and that a call that went wrong has done nothing.  Where it answers, it *)
(* has a result exactly if its work is done, and frees what it holds.      *)
(***************************************************************************)
CallBlocks == {"key", "buff", "iv", "aad", "tag", "output", "tag_output",
               "result", "buff_tag", "salt", "info"}
CallSteps == {"begin", "mode", "rsa", "internal", "aes", "encode", "free",
              "answer", "end"}

CallType ==
  [op : CryptoOp, step : CallSteps, fns : SUBSET Role, words : BOOLEAN,
   passed : SUBSET CryptOption, auth : BOOLEAN, held : SUBSET CallBlocks,
   result : {"none", "output", "verdict", "result"}, ret : {"GOOD", "ERROR"},
   done : BOOLEAN, told : SUBSET Role]

(* Nothing went wrong yet, and nothing is made. *)
Underway(c) == c.ret = "GOOD" /\ ~c.done /\ c.result = "none"

(* What the code after a label gives back, and what no path gives back.    *)
Accounted(c) ==
  /\ c.result # "none" <=> c.done
  /\ c.op \in Ciphers =>
       /\ c.ret # "GOOD" => c.held \subseteq {"key", "buff", "iv", "buff_tag"}
       /\ c.ret = "GOOD" =>
            /\ c.result \in {"none"} \cup c.held
            /\ c.held \subseteq
                 {"key", "buff", "iv", "buff_tag", c.result} \cup
                   (IF c.words /\ c.op = "encrypt" THEN {"output", "tag_output"} ELSE {})
       /\ "buff_tag" \in c.held => c.op = "decrypt"
  /\ c.op = "cipher.rsa" =>
       /\ c.result \in {"none"} \cup c.held
       /\ c.held \subseteq {"buff", "output", c.result}

PathInv ==
  /\ call # NoCryptoCall => call \in CallType
  /\ At("begin") => Underway(call) /\ call.held = {} /\ ~call.auth
  /\ call.step \in {"mode", "rsa", "internal"} =>
       /\ Underway(call) /\ call.op \in Ciphers /\ call.held = {"key", "buff"}
  /\ At("aes") =>
       /\ Underway(call) /\ call.op \in Ciphers
       /\ call.held \subseteq {"key", "buff", "iv", "aad", "tag"}
  /\ At("encode") =>
       /\ Underway(call) /\ call.op \in Ciphers
       /\ call.held \subseteq {"key", "buff", "iv", "aad", "tag", "output", "buff_tag"}
       /\ "buff_tag" \in call.held => call.op = "decrypt"
  /\ At("free") =>
       /\ call.op \in Ciphers
       /\ call.ret # "GOOD" => ~call.done
       /\ call.ret = "GOOD" => (call.result # "none" <=> call.done)
       /\ "buff_tag" \in call.held => call.op = "decrypt"
       /\ call.ret = "GOOD" =>
            /\ call.result \in {"none"} \cup call.held
            /\ call.held \subseteq
                 {"key", "buff", "iv", "buff_tag", "aad", "tag", call.result} \cup
                   (IF call.words /\ call.op = "encrypt" THEN {"output", "tag_output"}
                    ELSE {})
       /\ call.held \cap {"salt", "info"} = {}
  /\ call.step \in {"answer", "end"} => Accounted(call)
  /\ At("end") => call.told = (IF call.done /\ "success" \in call.fns
                               THEN {"success"} ELSE call.fns \cap {"fail"})
                              \cup (call.fns \cap {"complete"})


-----------------------------------------------------------------------------
(* The ways on: to the answer, to the label free, to another label.        *)
LEMMA OnCall ==
  ASSUME PathInv, NEW step \in CallSteps, At(step)
  PROVE  call \in CallType
<1>1. call # NoCryptoCall
  BY DEF At, NoCryptoCall, CallSteps
<1> QED BY <1>1 DEF PathInv

LEMMA AnswersKeep ==
  ASSUME NEW c \in CallType, Answers(c), Accounted(c)
  PROVE  PathInv'
<1>1. call' = [c EXCEPT !.step = "answer"]
  BY DEF Answers
<1>2. call' \in CallType /\ call'.step = "answer"
  BY <1>1 DEF CallType, CallSteps
<1>3. /\ call'.op = c.op /\ call'.ret = c.ret /\ call'.held = c.held
      /\ call'.result = c.result /\ call'.done = c.done /\ call'.words = c.words
  BY <1>1 DEF CallType
<1>4. Accounted(call)'
  BY <1>3 DEF Accounted
<1> QED BY <1>2, <1>4 DEF PathInv, At

LEMMA FailsKeep ==
  ASSUME NEW c \in CallType, Fails(c), c.op \in Ciphers, ~c.done,
         "buff_tag" \in c.held => c.op = "decrypt",
         c.held \cap {"salt", "info"} = {}
  PROVE  PathInv'
<1>1. call' = [[c EXCEPT !.ret = "ERROR"] EXCEPT !.step = "free"]
  BY DEF Fails, Failed
<1>2. call' \in CallType /\ call'.step = "free"
  BY <1>1 DEF CallType, CallSteps
<1>3. /\ call'.op = c.op /\ call'.ret = "ERROR" /\ call'.held = c.held
      /\ call'.done = c.done
  BY <1>1 DEF CallType
<1> QED BY <1>2, <1>3 DEF PathInv, At

(* A call that failed before anything was made, of another operation.      *)
LEMMA RefusedKeeps ==
  ASSUME NEW c \in CallType, Answers(Failed(c)), ~c.done, c.result = "none",
         c.op \in Ciphers => c.held = {},
         c.op = "cipher.rsa" => c.held \subseteq {"buff", "output"}
  PROVE  PathInv'
<1>1. Failed(c) \in CallType
  BY DEF Failed, CallType
<1>2. /\ Failed(c).op = c.op /\ Failed(c).held = c.held /\ ~Failed(c).done
      /\ Failed(c).result = "none" /\ Failed(c).ret = "ERROR"
  BY DEF Failed, CallType
<1>3. Accounted(Failed(c))
  BY <1>2 DEF Accounted
<1> QED BY <1>1, <1>3, AnswersKeep

LEMMA CallStarts ==
  ASSUME Mishap = {}, NEW op \in CryptoOp, NEW fns \in SUBSET Role,
         CryptoCall(op, fns)
  PROVE  PathInv'
<1>1. PICK words \in BOOLEAN, passed \in MayPass(op) :
        call' = [op |-> op, step |-> "begin", fns |-> fns, words |-> words,
                 passed |-> passed, auth |-> FALSE, held |-> {},
                 result |-> "none", ret |-> "GOOD", done |-> FALSE,
                 told |-> {}]
  BY DEF CryptoCall
<1>2. passed \subseteq CryptOption
  <2>1. CASE op \in Ciphers
    <3>1. op # "cipher.aes"
      BY <2>1 DEF Ciphers
    <3>2. MayPass(op) = {p \in SUBSET CryptOption : p # {} => "options" \in p}
      BY <2>1, <3>1, Zenon DEF MayPass
    <3> QED BY <3>2
  <2>2. CASE op = "cipher.aes"
    <3>1. MayPass(op) = {{}, {"iv"}} \cup {{m} : m \in Mishap \cap {"empty iv"}}
      BY <2>2, Zenon DEF MayPass, Ciphers
    <3>2. passed \in {{}, {"iv"}}
      BY <3>1
    <3> QED BY <3>2 DEF CryptOption
  <2>3. CASE op \notin Ciphers /\ op # "cipher.aes"
    <3>1. MayPass(op) = {{}}
      BY <2>3, Zenon DEF MayPass
    <3> QED BY <3>1
  <2> QED BY <2>1, <2>2, <2>3
<1>3. call' \in CallType
  BY <1>1, <1>2 DEF CallType, CallSteps
<1>4. /\ call'.step = "begin" /\ call'.ret = "GOOD" /\ ~call'.done
      /\ call'.result = "none" /\ call'.held = {} /\ ~call'.auth
  BY <1>1
<1> QED BY <1>3, <1>4 DEF PathInv, At, Underway

-----------------------------------------------------------------------------
(* Calls that work in one step.                                            *)
Others == CryptoOp \ (Ciphers \cup {"cipher.rsa"})

(* The blocks of these are all freed, whatever they are.                   *)
LEMMA OthersAnswer ==
  ASSUME NEW c \in CallType, c.op \in Others, Answers(c),
         c.result # "none" <=> c.done
  PROVE  PathInv'
<1>1. c.op \notin Ciphers /\ c.op # "cipher.rsa"
  BY DEF Others
<1>2. Accounted(c)
  BY <1>1 DEF Accounted
<1> QED BY <1>2, AnswersKeep

LEMMA BegunCall ==
  ASSUME PathInv, At("begin")
  PROVE  /\ call \in CallType /\ Underway(call) /\ call.held = {}
         /\ ~call.done /\ call.result = "none" /\ call.ret = "GOOD"
BY OnCall DEF PathInv, CallSteps, Underway

LEMMA RefusedCall ==
  ASSUME PathInv, At("begin"), Answers(Failed(call))
  PROVE  PathInv'
BY BegunCall, RefusedKeeps

LEMMA ProductStep ==
  ASSUME PathInv, HmacDigest \/ Sign \/ CipherSign \/ CipherDigest
  PROVE  PathInv'
<1>1. call.op \in Products /\ At("begin")
  BY DEF HmacDigest, Sign, CipherSign, CipherDigest, Begins, Products
<1>2. CASE Answers(Failed(call))
  BY <1>1, <1>2, RefusedCall
<1>3. ASSUME NEW works \in BOOLEAN, Produced(works) PROVE PathInv'
  <2> DEFINE c == [call EXCEPT !.done = works, !.ret = IF works THEN @ ELSE "ERROR",
                               !.result = IF works THEN "output" ELSE @,
                               !.held = IF works THEN {"output"} ELSE @]
  <2>1. call \in CallType /\ call.result = "none" /\ call.held = {}
    BY <1>1, BegunCall
  <2>2. c \in CallType
    BY <2>1 DEF CallType, CallBlocks
  <2>3. c.op \in Others
    <3>1. c.op = call.op
      BY <2>1 DEF CallType
    <3> QED BY <1>1, <3>1 DEF Others, CryptoOp, Ciphers, Products
  <2>4. c.result # "none" <=> c.done
    BY <2>1 DEF CallType
  <2>5. Answers(c)
    BY <1>3 DEF Produced
  <2> HIDE DEF c
  <2> QED BY <2>2, <2>3, <2>4, <2>5, OthersAnswer
<1>4. Answers(Failed(call)) \/ \E works \in BOOLEAN : Produced(works)
  BY DEF HmacDigest, Sign, CipherSign, CipherDigest, Refused
<1> QED BY <1>2, <1>3, <1>4

LEMMA VerdictStep ==
  ASSUME PathInv, Verify \/ CipherVerify
  PROVE  PathInv'
<1>1. call.op \in Verdicts /\ At("begin")
  BY DEF Verify, CipherVerify, Begins, Verdicts
<1>2. CASE Answers(Failed(call))
  BY <1>1, <1>2, RefusedCall
<1>3. ASSUME NEW checked \in BOOLEAN, RsaVerify(checked), Judged(checked)
      PROVE  PathInv'
  <2> DEFINE c == [call EXCEPT !.done = checked,
                     !.ret = IF ~checked THEN "ERROR" ELSE @,
                     !.result = IF ~checked THEN @ ELSE "verdict"]
  <2>1. call \in CallType /\ call.result = "none"
    BY <1>1, BegunCall
  <2>2. c \in CallType
    BY <2>1 DEF CallType
  <2>3. c.op \in Others
    <3>1. c.op = call.op
      BY <2>1 DEF CallType
    <3> QED BY <1>1, <3>1 DEF Others, CryptoOp, Ciphers, Verdicts
  <2>4. c.result # "none" <=> c.done
    BY <2>1 DEF CallType
  <2>5. Answers(c)
    BY <1>3 DEF Judged, RsaVerify
  <2> HIDE DEF c
  <2> QED BY <2>2, <2>3, <2>4, <2>5, OthersAnswer
<1>4. \/ Answers(Failed(call))
      \/ \E checked \in BOOLEAN : RsaVerify(checked) /\ Judged(checked)
  BY DEF Verify, CipherVerify, Refused
<1> QED BY <1>2, <1>3, <1>4

(* What a call has taken when it fails is among its blocks.                *)
LEMMA FailsTakingStep ==
  ASSUME PathInv, At("begin"), NEW taken \in Seq(CallBlocks),
         call.op \notin Ciphers, call.op # "cipher.rsa", FailsTaking(taken)
  PROVE  PathInv'
<1>1. PICK k \in 0..Len(taken) :
        Answers(Failed([call EXCEPT !.held = ToSet(SubSeq(taken, 1, k))]))
  BY DEF FailsTaking
<1>2. call \in CallType /\ call.result = "none" /\ ~call.done
  BY BegunCall
<1> DEFINE c == [call EXCEPT !.held = ToSet(SubSeq(taken, 1, k))]
<1>3. ToSet(SubSeq(taken, 1, k)) \in SUBSET CallBlocks
  <2>1. Len(taken) \in Nat /\ \A n \in 1..k : taken[n] \in CallBlocks
    BY LenProperties, ElementOfSeq
  <2>2. SubSeq(taken, 1, k) \in Seq(CallBlocks)
    BY <2>1, SubSeqProperties
  <2> QED BY <2>2, ElementOfSeq, LenProperties DEF ToSet
<1>4. c \in CallType /\ c.op = call.op /\ ~c.done /\ c.result = "none"
  BY <1>2, <1>3 DEF CallType
<1>5. Answers(Failed(c))
  BY <1>1
<1> HIDE DEF c
<1> QED BY <1>4, <1>5, RefusedKeeps

LEMMA HkdfStep ==
  ASSUME Mishap = {}, PathInv, Hkdf
  PROVE  PathInv'
<1>1. call.op = "hkdf" /\ At("begin")
  BY DEF Hkdf, Begins
<1>2. call \in CallType /\ call.result = "none" /\ ~call.done
  BY <1>1, BegunCall
<1> DEFINE taken == <<"key", "salt", "info">>
<1>3. ToSet(taken) \in SUBSET CallBlocks
  BY DEF ToSet, CallBlocks
<1>4. CASE FailsTaking(taken)
  <2>1. taken \in Seq(CallBlocks)
    BY DEF CallBlocks
  <2>2. call.op \notin Ciphers /\ call.op # "cipher.rsa"
    BY <1>1 DEF Ciphers
  <2> HIDE DEF taken
  <2> QED BY <1>1, <1>4, <2>1, <2>2, FailsTakingStep
<1> DEFINE c == [call EXCEPT !.done = TRUE, !.ret = "GOOD",
                   !.held = ToSet(taken) \cup {"output"}, !.result = "output"]
<1>5. CASE \E works \in BOOLEAN :
             /\ works \/ "derivation" \in Mishap
             /\ Answers([call EXCEPT !.done = works,
                           !.ret = IF works THEN @ ELSE "ERROR",
                           !.held = ToSet(taken) \cup {"output"},
                           !.result = "output"])
  <2> HIDE DEF taken
  <2>1. Answers([call EXCEPT !.done = TRUE, !.ret = call.ret,
                   !.held = ToSet(taken) \cup {"output"}, !.result = "output"])
    BY <1>5
  <2>2. call.ret = "GOOD"
    BY <1>1, BegunCall
  <2>3. c \in CallType
    BY <1>2, <1>3 DEF CallType, CallBlocks
  <2>4. c.op = "hkdf" /\ c.result = "output" /\ c.done
    BY <1>1, <1>2 DEF CallType
  <2>5. c.op \in Others
    BY <2>4 DEF Others, CryptoOp, Ciphers
  <2>6. Answers(c)
    BY <2>1, <2>2
  <2> HIDE DEF c
  <2> QED BY <2>3, <2>4, <2>5, <2>6, OthersAnswer
<1> QED BY <1>4, <1>5 DEF Hkdf

(* RSA may leave an output or none, and fails without one.                 *)
LEMMA RsaLeaves ==
  ASSUME NEW b \in CallType, NEW c \in RsaCrypto(b)
  PROVE  /\ c \in CallType /\ c.op = b.op /\ c.step = b.step /\ c.words = b.words
         /\ c.done = b.done /\ c.result = b.result
         /\ c.held = b.held \/ c.held = b.held \cup {"output"}
         /\ c.ret = b.ret \/ c.ret = "ERROR"
BY DEF RsaCrypto, Failed, CallType, CallBlocks

LEMMA CipherRsaStep ==
  ASSUME Mishap = {}, PathInv, CipherRsa
  PROVE  PathInv'
<1>1. call.op = "cipher.rsa" /\ At("begin")
  BY DEF CipherRsa, Begins
<1>2. call \in CallType /\ call.result = "none" /\ ~call.done /\ call.ret = "GOOD"
  BY <1>1, BegunCall
<1>3. call.op \notin Ciphers
  BY <1>1 DEF Ciphers
<1>4. CASE Refused
  BY <1>1, <1>4, RefusedCall DEF Refused
<1>5. ASSUME NEW decrypts \in BOOLEAN,
             LET begun == [call EXCEPT !.held = IF decrypts THEN {"buff"} ELSE {}]
             IN  \/ Answers(Failed(begun))
                 \/ \E c \in RsaCrypto(begun) :
                      LET there == "output" \in c.held
                          encoded == [c EXCEPT !.held = @ \cup {"result"},
                                               !.result = "result"]
                      IN  \/ c.ret # "GOOD" /\ Answers(c)
                          \/ c.ret = "GOOD" /\ ~decrypts /\ Answers(Failed(c))
                          \/ /\ c.ret = "GOOD" /\ decrypts
                             /\ Answers([c EXCEPT !.done = there,
                                           !.result = IF there THEN "output"
                                                      ELSE @])
                          \/ /\ c.ret = "GOOD" /\ ~decrypts
                             /\ \/ /\ there
                                   /\ Answers([encoded EXCEPT !.done = TRUE])
                                \/ /\ "encoding" \in Mishap
                                   /\ Answers(Failed(encoded))
      PROVE  PathInv'
  <2> DEFINE begun == [call EXCEPT !.held = IF decrypts THEN {"buff"} ELSE {}]
  <2>1. /\ begun \in CallType /\ begun.op = "cipher.rsa" /\ begun.held \subseteq {"buff"}
        /\ ~begun.done /\ begun.result = "none" /\ begun.ret = "GOOD"
    BY <1>1, <1>2 DEF CallType, CallBlocks
  <2>2. CASE Answers(Failed(begun))
    <3> HIDE DEF begun
    <3>1. begun.op \notin Ciphers
      BY <1>1, <1>3, <2>1
    <3> QED BY <2>1, <2>2, <3>1, RefusedKeeps
  <2>3. ASSUME NEW c \in RsaCrypto(begun)
        PROVE  /\ c \in CallType /\ c.op = "cipher.rsa" /\ c.op \notin Ciphers
               /\ ~c.done /\ c.result = "none" /\ c.held \subseteq {"buff", "output"}
    <3> HIDE DEF begun
    <3>1. /\ c \in CallType /\ c.op = begun.op /\ c.done = begun.done
          /\ c.result = begun.result
          /\ c.held = begun.held \/ c.held = begun.held \cup {"output"}
      BY <2>1, RsaLeaves
    <3> QED BY <1>1, <1>3, <2>1, <3>1
  <2>4. ASSUME NEW c \in RsaCrypto(begun), Answers(c) PROVE PathInv'
    <3>1. Accounted(c)
      BY <2>3 DEF Accounted
    <3> QED BY <2>3, <2>4, <3>1, AnswersKeep
  <2>5. ASSUME NEW c \in RsaCrypto(begun), Answers(Failed(c)) PROVE PathInv'
    BY <2>3, <2>5, RefusedKeeps
  <2>6. ASSUME NEW c \in RsaCrypto(begun),
               Answers([c EXCEPT !.done = "output" \in c.held,
                          !.result = IF "output" \in c.held THEN "output" ELSE @])
        PROVE  PathInv'
    <3> DEFINE d == [c EXCEPT !.done = "output" \in c.held,
                       !.result = IF "output" \in c.held THEN "output" ELSE @]
    <3>0. /\ c \in CallType /\ c.op = "cipher.rsa" /\ c.op \notin Ciphers
          /\ ~c.done /\ c.result = "none" /\ c.held \subseteq {"buff", "output"}
      BY <2>3
    <3>1. /\ d.op = "cipher.rsa" /\ d.op \notin Ciphers
          /\ d.held = c.held /\ d.done = ("output" \in c.held)
          /\ d.result = IF "output" \in c.held THEN "output" ELSE "none"
      BY <3>0 DEF CallType
    <3>2. d \in CallType
      <4>1. d.done \in BOOLEAN
        BY <3>1
      <4>2. d.result \in {"none", "output", "verdict", "result"}
        BY <3>1
      <4>3. d = [c EXCEPT !.done = d.done, !.result = d.result]
        BY <3>0 DEF CallType
      <4> HIDE DEF d
      <4> QED BY <3>0, <4>1, <4>2, <4>3 DEF CallType
    <3>3. Answers(d)
      BY <2>6
    <3> HIDE DEF d
    <3>4. Accounted(d)
      BY <3>0, <3>1 DEF Accounted
    <3> QED BY <3>2, <3>3, <3>4, AnswersKeep
  <2>7. ASSUME NEW c \in RsaCrypto(begun),
               LET encoded == [c EXCEPT !.held = @ \cup {"result"}, !.result = "result"]
               IN  Answers([encoded EXCEPT !.done = TRUE])
        PROVE  PathInv'
    <3> DEFINE encoded == [c EXCEPT !.held = @ \cup {"result"}, !.result = "result"]
               d == [encoded EXCEPT !.done = TRUE]
    <3>0. /\ c \in CallType /\ c.op = "cipher.rsa" /\ c.op \notin Ciphers
          /\ ~c.done /\ c.result = "none" /\ c.held \subseteq {"buff", "output"}
      BY <2>3
    <3>1. /\ d.op = "cipher.rsa" /\ d.op \notin Ciphers
          /\ d.held = c.held \cup {"result"} /\ d.done /\ d.result = "result"
      BY <3>0 DEF CallType
    <3>2. d \in CallType
      BY <3>0 DEF CallType, CallBlocks
    <3>3. Answers(d)
      BY <2>7
    <3> HIDE DEF d
    <3>4. Accounted(d)
      BY <3>0, <3>1 DEF Accounted
    <3> QED BY <3>2, <3>3, <3>4, AnswersKeep
  <2>8. "encoding" \notin Mishap
    OBVIOUS
  <2> QED BY <1>5, <2>2, <2>4, <2>5, <2>6, <2>7, <2>8
<1> QED BY <1>4, <1>5 DEF CipherRsa

LEMMA CipherAesStep ==
  ASSUME Mishap = {}, PathInv, CipherAes
  PROVE  PathInv'
<1>1. call.op = "cipher.aes" /\ At("begin")
  BY DEF CipherAes, Begins
<1>2. call \in CallType /\ call.result = "none" /\ ~call.done /\ call.ret = "GOOD"
  BY <1>1, BegunCall
<1>3. call.op \notin Ciphers /\ call.op # "cipher.rsa" /\ call.op \in Others
  BY <1>1 DEF Ciphers, Others, CryptoOp
<1>4. ASSUME NEW taken \in Seq(CallBlocks)
      PROVE  ToSet(taken) \in SUBSET CallBlocks
  BY <1>4, ElementOfSeq, LenProperties DEF ToSet
<1>5. ASSUME NEW taken \in Seq(CallBlocks), NEW decrypts \in BOOLEAN,
             LET ended == [call EXCEPT !.held = ToSet(taken) \cup {"result"},
                                       !.result = "result"]
             IN  \/ FailsTaking(taken)
                 \/ \E c \in AesNonAuthCrypto([call EXCEPT !.held = ToSet(taken)]) :
                      \/ c.ret # "GOOD" /\ Answers(c)
                      \/ c.ret = "GOOD" /\ Answers([ended EXCEPT !.done = TRUE])
                      \/ /\ c.ret = "GOOD" /\ ~decrypts /\ "encoding" \in Mishap
                         /\ Answers(Failed(ended))
      PROVE  PathInv'
  <2> DEFINE ended == [call EXCEPT !.held = ToSet(taken) \cup {"result"},
                                   !.result = "result"]
             begun == [call EXCEPT !.held = ToSet(taken)]
  <2>1. CASE FailsTaking(taken)
    BY <1>1, <1>3, <2>1, FailsTakingStep
  <2>2. /\ begun \in CallType /\ begun.op = "cipher.aes" /\ ~begun.done
        /\ begun.result = "none"
    BY <1>1, <1>2, <1>4 DEF CallType
  <2>3. ASSUME NEW c \in AesNonAuthCrypto(begun), Answers(c) PROVE PathInv'
    <3> HIDE DEF begun
    <3>1. /\ c \in CallType /\ c.op = "cipher.aes" /\ ~c.done /\ c.result = "none"
      BY <2>2 DEF AesNonAuthCrypto, Failed, CallType
    <3>2. c.op \in Others
      BY <1>1, <1>3, <3>1
    <3> QED BY <2>3, <3>1, <3>2, OthersAnswer
  <2>4. CASE Answers([ended EXCEPT !.done = TRUE])
    <3> DEFINE d == [ended EXCEPT !.done = TRUE]
    <3>1. d \in CallType
      BY <1>2, <1>4 DEF CallType, CallBlocks
    <3>2. d.op = call.op /\ d.done /\ d.result = "result"
      BY <1>2 DEF CallType
    <3> HIDE DEF d
    <3>3. d.op \in Others
      BY <1>3, <3>2
    <3> QED BY <2>4, <3>1, <3>2, <3>3, OthersAnswer DEF d
  <2>5. "encoding" \notin Mishap
    OBVIOUS
  <2> HIDE DEF begun, ended
  <2> QED BY <1>5, <2>1, <2>3, <2>4, <2>5 DEF begun, ended
<1>6. ASSUME NEW decrypts \in BOOLEAN
      PROVE  (IF decrypts THEN <<"buff">> ELSE <<>>) \o <<"key">>
               \o (IF "iv" \in call.passed THEN <<"iv">> ELSE <<>>)
               \o <<"output">> \in Seq(CallBlocks)
  <2>1. /\ <<"key">> \in Seq(CallBlocks) /\ <<"output">> \in Seq(CallBlocks)
        /\ <<"buff">> \in Seq(CallBlocks) /\ <<"iv">> \in Seq(CallBlocks)
        /\ <<>> \in Seq(CallBlocks)
    BY DEF CallBlocks
  <2>2. \A s, t \in Seq(CallBlocks) : s \o t \in Seq(CallBlocks)
    BY ConcatProperties
  <2> QED BY <2>1, <2>2
<1> QED BY <1>5, <1>6 DEF CipherAes

-----------------------------------------------------------------------------
(* encrypt and decrypt, label by label.                                    *)
LEMMA TopOptionsStep ==
  ASSUME PathInv, ParseTopOptions
  PROVE  PathInv'
<1>1. At("begin") /\ call.op \in Ciphers
  BY DEF ParseTopOptions
<1>2. call \in CallType /\ Underway(call)
  BY <1>1, BegunCall
<1>3. CASE Answers(Failed(call))
  BY <1>1, <1>3, RefusedCall
<1>4. CASE call' = [call EXCEPT !.step = "mode", !.held = {"key", "buff"}]
  <2>1. call' \in CallType /\ call'.step = "mode"
    BY <1>2, <1>4 DEF CallType, CallSteps, CallBlocks
  <2>2. /\ call'.op = call.op /\ call'.held = {"key", "buff"} /\ call'.ret = call.ret
        /\ call'.done = call.done /\ call'.result = call.result
    BY <1>2, <1>4 DEF CallType
  <2> QED BY <1>1, <1>2, <2>1, <2>2 DEF PathInv, At, Underway
<1> QED BY <1>3, <1>4 DEF ParseTopOptions

LEMMA ModeStep ==
  ASSUME PathInv, ChooseMode
  PROVE  PathInv'
<1>1. At("mode")
  BY DEF ChooseMode
<1>2. /\ call \in CallType /\ call.op \in Ciphers /\ call.held = {"key", "buff"}
      /\ call.ret = "GOOD" /\ ~call.done /\ call.result = "none"
  BY <1>1, OnCall DEF PathInv, At, CallSteps, Underway
<1> DEFINE c == [call EXCEPT !.held = @ \cup {"iv"}]
<1>3. /\ c \in CallType /\ c.op \in Ciphers /\ c.held = {"key", "buff", "iv"}
      /\ c.ret = "GOOD" /\ ~c.done /\ c.result = "none"
  BY <1>2 DEF CallType, CallBlocks
<1>4. CASE call' = [call EXCEPT !.step = "rsa"]
  <2>1. call' \in CallType /\ call'.step = "rsa"
    BY <1>2, <1>4 DEF CallType, CallSteps
  <2>2. /\ call'.op = call.op /\ call'.held = call.held /\ call'.ret = call.ret
        /\ call'.done = call.done /\ call'.result = call.result
    BY <1>2, <1>4 DEF CallType
  <2> QED BY <1>2, <2>1, <2>2 DEF PathInv, At, Underway
<1>5. CASE Fails(call)
  BY <1>2, <1>5, FailsKeep
<1>6. CASE Fails(c)
  <2> HIDE DEF c
  <2> QED BY <1>3, <1>6, FailsKeep
<1>7. CASE call' = [c EXCEPT !.step = "aes"]
  <2> HIDE DEF c
  <2>1. call' \in CallType /\ call'.step = "aes"
    BY <1>3, <1>7 DEF CallType, CallSteps
  <2>2. /\ call'.op = c.op /\ call'.held = c.held /\ call'.ret = c.ret
        /\ call'.done = c.done /\ call'.result = c.result
    BY <1>3, <1>7 DEF CallType
  <2> QED BY <1>3, <2>1, <2>2 DEF PathInv, At, Underway
<1>8. ASSUME NEW auth \in BOOLEAN,
             call' = [call EXCEPT !.step = "internal", !.auth = auth]
      PROVE  PathInv'
  <2>1. call' \in CallType /\ call'.step = "internal"
    BY <1>2, <1>8 DEF CallType, CallSteps
  <2>2. /\ call'.op = call.op /\ call'.held = call.held /\ call'.ret = call.ret
        /\ call'.done = call.done /\ call'.result = call.result
    BY <1>2, <1>8 DEF CallType
  <2> QED BY <1>2, <2>1, <2>2 DEF PathInv, At, Underway
<1>9. CASE \E mode \in ParseTransformation :
             IF mode = "refused" THEN Fails(call)
             ELSE call' = [call EXCEPT !.step = "internal",
                                       !.auth = (mode = "authenticated")]
  <2>1. PICK mode \in ParseTransformation :
             IF mode = "refused" THEN Fails(call)
             ELSE call' = [call EXCEPT !.step = "internal",
                                       !.auth = (mode = "authenticated")]
    BY <1>9
  <2>2. (mode = "authenticated") \in BOOLEAN
    OBVIOUS
  <2> QED BY <1>5, <1>8, <2>1, <2>2
<1> QED BY <1>4, <1>5, <1>6, <1>7, <1>9 DEF ChooseMode

LEMMA InternalOptionsStep ==
  ASSUME PathInv, ParseInternalOptions
  PROVE  PathInv'
<1>1. At("internal")
  BY DEF ParseInternalOptions
<1>2. /\ call \in CallType /\ call.op \in Ciphers /\ call.held = {"key", "buff"}
      /\ call.ret = "GOOD" /\ ~call.done /\ call.result = "none"
  BY <1>1, OnCall DEF PathInv, At, CallSteps, Underway
<1>3. CASE Fails(call)
  BY <1>2, <1>3, FailsKeep
<1>4. CASE call' = [call EXCEPT !.step = "aes",
                     !.held = @ \cup {"iv"} \cup (call.passed \cap {"aad", "tag"})]
  <2>1. call' \in CallType /\ call'.step = "aes"
    BY <1>2, <1>4 DEF CallType, CallSteps, CallBlocks
  <2>2. /\ call'.op = call.op /\ call'.ret = call.ret
        /\ call'.held = call.held \cup {"iv"} \cup (call.passed \cap {"aad", "tag"})
        /\ call'.done = call.done /\ call'.result = call.result
    BY <1>2, <1>4 DEF CallType
  <2>3. call'.held \subseteq {"key", "buff", "iv", "aad", "tag"}
    BY <1>2, <2>2
  <2> QED BY <1>2, <2>1, <2>2, <2>3 DEF PathInv, At, Underway
<1> QED BY <1>3, <1>4 DEF ParseInternalOptions

(* A call that goes on to encode what was made.                            *)
LEMMA EncodesNext ==
  ASSUME NEW c \in CallType, call' = [c EXCEPT !.step = "encode"],
         c.op \in Ciphers, c.ret = "GOOD", ~c.done, c.result = "none",
         c.held \subseteq {"key", "buff", "iv", "aad", "tag", "output", "buff_tag"},
         "buff_tag" \in c.held => c.op = "decrypt"
  PROVE  PathInv'
<1>1. call' \in CallType /\ call'.step = "encode"
  BY DEF CallType, CallSteps
<1>2. /\ call'.op = c.op /\ call'.held = c.held /\ call'.ret = c.ret
      /\ call'.done = c.done /\ call'.result = c.result
  BY DEF CallType
<1> QED BY <1>1, <1>2 DEF PathInv, At, Underway

LEMMA RunRsaStep ==
  ASSUME PathInv, RunRsa
  PROVE  PathInv'
<1>1. At("rsa")
  BY DEF RunRsa
<1>2. /\ call \in CallType /\ call.op \in Ciphers /\ call.held = {"key", "buff"}
      /\ call.ret = "GOOD" /\ ~call.done /\ call.result = "none"
  BY <1>1, OnCall DEF PathInv, At, CallSteps, Underway
<1>3. PICK c \in RsaCrypto(call) :
        IF c.ret = "GOOD" THEN call' = [c EXCEPT !.step = "encode"] ELSE Fails(c)
  BY DEF RunRsa
<1>4. /\ c \in CallType /\ c.op \in Ciphers /\ ~c.done /\ c.result = "none"
      /\ c.held \subseteq {"key", "buff", "output"}
  <2>1. /\ c \in CallType /\ c.op = call.op /\ c.done = call.done
        /\ c.result = call.result
        /\ c.held = call.held \/ c.held = call.held \cup {"output"}
    BY <1>2, RsaLeaves
  <2> QED BY <1>2, <2>1
<1>5. CASE c.ret = "GOOD"
  BY <1>3, <1>4, <1>5, EncodesNext
<1>6. CASE c.ret # "GOOD"
  BY <1>3, <1>4, <1>6, FailsKeep
<1> QED BY <1>5, <1>6

LEMMA RunAesStep ==
  ASSUME PathInv, RunAes
  PROVE  PathInv'
<1>1. At("aes")
  BY DEF RunAes
<1>2. /\ call \in CallType /\ call.op \in Ciphers
      /\ call.held \subseteq {"key", "buff", "iv", "aad", "tag"}
      /\ call.ret = "GOOD" /\ ~call.done /\ call.result = "none"
  BY <1>1, OnCall DEF PathInv, At, CallSteps, Underway
<1>3. CASE Fails(call)
  BY <1>2, <1>3, FailsKeep
<1> DEFINE begun == [call EXCEPT !.held = @ \cup {"output"}]
<1>4. /\ begun \in CallType /\ begun.op = call.op /\ begun.held = call.held \cup {"output"}
      /\ begun.ret = "GOOD" /\ ~begun.done /\ begun.result = "none"
  BY <1>2 DEF CallType, CallBlocks
<1>5. ASSUME NEW c \in (IF call.auth THEN AesAuthCrypto(begun)
                        ELSE AesNonAuthCrypto(begun)),
             IF c.ret = "GOOD" THEN call' = [c EXCEPT !.step = "encode"] ELSE Fails(c)
      PROVE  PathInv'
  <2> HIDE DEF begun
  <2> DEFINE joined == [begun EXCEPT !.held = @ \cup {"buff_tag"}]
  <2>1. /\ joined \in CallType /\ joined.op = call.op
        /\ joined.held = call.held \cup {"output", "buff_tag"}
        /\ joined.ret = "GOOD" /\ ~joined.done /\ joined.result = "none"
    BY <1>4 DEF CallType, CallBlocks
  <2>2. \E b \in {begun, joined} : /\ c = b \/ c = Failed(b)
                                   /\ b = begun \/ call.op = "decrypt"
    <3>1. CASE call.auth
      <4>1. c \in {Failed(begun), Failed(IF begun.op = "decrypt" THEN joined ELSE begun),
                   IF begun.op = "decrypt" THEN joined ELSE begun}
        BY <3>1 DEF AesAuthCrypto
      <4>2. CASE begun.op = "decrypt"
        BY <1>4, <4>1, <4>2
      <4>3. CASE begun.op # "decrypt"
        BY <4>1, <4>3
      <4> QED BY <4>2, <4>3
    <3>2. CASE ~call.auth
      BY <3>2 DEF AesNonAuthCrypto
    <3> QED BY <3>1, <3>2
  <2>3. PICK b \in {begun, joined} : /\ c = b \/ c = Failed(b)
                                     /\ b = begun \/ call.op = "decrypt"
    BY <2>2
  <2>4. /\ b \in CallType /\ b.op = call.op /\ ~b.done /\ b.result = "none"
        /\ b.held = call.held \cup {"output"}
             \/ (b.held = call.held \cup {"output", "buff_tag"} /\ call.op = "decrypt")
    BY <1>4, <2>1, <2>3
  <2> HIDE DEF joined
  <2>5. /\ c \in CallType /\ c.op = b.op /\ ~c.done /\ c.result = "none"
        /\ c.held = b.held
    BY <2>3, <2>4 DEF Failed, CallType
  <2>6. /\ c.op \in Ciphers
        /\ c.held \subseteq {"key", "buff", "iv", "aad", "tag", "output", "buff_tag"}
        /\ "buff_tag" \in c.held => c.op = "decrypt"
    BY <1>2, <2>4, <2>5
  <2>7. c.held \cap {"salt", "info"} = {}
    BY <2>6
  <2>8. CASE c.ret = "GOOD"
    BY <1>5, <2>5, <2>6, <2>8, EncodesNext
  <2>9. CASE c.ret # "GOOD"
    BY <1>5, <2>5, <2>6, <2>7, <2>9, FailsKeep
  <2> QED BY <2>8, <2>9
<1> QED BY <1>3, <1>5 DEF RunAes

(* What is made is the result, or an encoding of it is.                    *)
LEMMA EncodeStep ==
  ASSUME PathInv, Encode
  PROVE  PathInv'
<1>1. At("encode")
  BY DEF Encode
<1>2. /\ call \in CallType /\ call.op \in Ciphers
      /\ call.held \subseteq {"key", "buff", "iv", "aad", "tag", "output", "buff_tag"}
      /\ "buff_tag" \in call.held => call.op = "decrypt"
      /\ call.ret = "GOOD" /\ ~call.done /\ call.result = "none"
  BY <1>1, OnCall DEF PathInv, At, CallSteps, Underway
<1>3. CASE Fails(call)
  BY <1>2, <1>3, FailsKeep
<1> DEFINE encoded == {"result"} \cup (IF call.auth THEN {"tag_output"} ELSE {})
<1>4. encoded \subseteq {"result", "tag_output"} /\ "result" \in encoded
  OBVIOUS
<1> HIDE DEF encoded
<1>5. ASSUME NEW some \in SUBSET {"result", "tag_output"},
             Fails([call EXCEPT !.held = @ \cup some, !.result = "result"])
      PROVE  PathInv'
  <2> DEFINE c == [call EXCEPT !.held = @ \cup some, !.result = "result"]
  <2>1. /\ c \in CallType /\ c.op = call.op /\ ~c.done /\ c.held = call.held \cup some
    BY <1>2, <1>5 DEF CallType, CallBlocks
  <2>2. Fails(c)
    BY <1>5
  <2> HIDE DEF c
  <2>3. ("buff_tag" \in c.held => c.op = "decrypt") /\ c.held \cap {"salt", "info"} = {}
    BY <1>2, <1>5, <2>1
  <2> QED BY <1>2, <2>1, <2>2, <2>3, FailsKeep
<1>6. CASE /\ call.words /\ call.op = "encrypt"
           /\ call' = [call EXCEPT !.step = "free", !.done = TRUE,
                         !.held = @ \cup encoded, !.result = "result"]
  <2>1. call' \in CallType /\ call'.step = "free"
    BY <1>2, <1>4, <1>6 DEF CallType, CallSteps, CallBlocks
  <2>2. /\ call'.op = call.op /\ call'.ret = "GOOD" /\ call'.words = call.words
        /\ call'.held = call.held \cup encoded /\ call'.done /\ call'.result = "result"
    BY <1>2, <1>6 DEF CallType
  <2>3. "buff_tag" \notin call'.held
    BY <1>2, <1>4, <1>6, <2>2
  <2>4. /\ call'.held \subseteq {"key", "buff", "iv", "aad", "tag", "output", "result",
                                "tag_output"}
        /\ "result" \in call'.held
    BY <1>2, <1>4, <2>2, <2>3
  <2> QED BY <1>2, <1>6, <2>1, <2>2, <2>3, <2>4 DEF PathInv, At
<1>7. CASE call' = [call EXCEPT !.step = "free", !.done = "output" \in call.held,
                      !.result = IF "output" \in call.held THEN "output" ELSE "none"]
  <2>1. /\ call'.op = call.op /\ call'.ret = "GOOD" /\ call'.words = call.words
        /\ call'.held = call.held /\ call'.step = "free"
        /\ call'.done = ("output" \in call.held)
        /\ call'.result = IF "output" \in call.held THEN "output" ELSE "none"
    BY <1>2, <1>7 DEF CallType
  <2>2. call' \in CallType
    <3>1. call' = [call EXCEPT !.step = "free", !.done = call'.done,
                               !.result = call'.result]
      BY <1>7, <2>1
    <3>2. call'.done \in BOOLEAN /\ call'.result \in {"none", "output"}
      BY <2>1
    <3> QED BY <1>2, <3>1, <3>2 DEF CallType, CallSteps
  <2>3. /\ "buff_tag" \in call'.held => call'.op = "decrypt"
        /\ call'.held \cap {"salt", "info"} = {}
        /\ call'.result \in {"none"} \cup call'.held
        /\ call'.held \subseteq {"key", "buff", "iv", "buff_tag", "aad", "tag", call'.result}
        /\ call'.result # "none" <=> call'.done
    BY <1>2, <2>1
  <2> QED BY <1>2, <2>1, <2>2, <2>3 DEF PathInv, At
<1>8. {"result"} \in SUBSET {"result", "tag_output"}
  OBVIOUS
<1>9. CASE call.words /\ call.op = "encrypt"
  <2>1. \/ Fails(call)
        \/ \E some \in {{"result"}, encoded} :
             Fails([call EXCEPT !.held = @ \cup some, !.result = "result"])
        \/ call' = [call EXCEPT !.step = "free", !.done = TRUE,
                      !.held = @ \cup encoded, !.result = "result"]
    BY <1>9 DEF Encode, encoded
  <2> QED BY <1>3, <1>4, <1>5, <1>6, <1>8, <1>9, <2>1
<1>10. CASE ~(call.words /\ call.op = "encrypt")
  BY <1>3, <1>7, <1>10 DEF Encode
<1> QED BY <1>9, <1>10

LEMMA FreeLabelStep ==
  ASSUME PathInv, FreeLabel
  PROVE  PathInv'
<1>1. At("free")
  BY DEF FreeLabel
<1>2. /\ call \in CallType /\ call.op \in Ciphers
      /\ call.ret # "GOOD" => ~call.done
      /\ call.ret = "GOOD" => (call.result # "none" <=> call.done)
      /\ "buff_tag" \in call.held => call.op = "decrypt"
      /\ call.ret = "GOOD" =>
            /\ call.result \in {"none"} \cup call.held
            /\ call.held \subseteq
                 {"key", "buff", "iv", "buff_tag", "aad", "tag", call.result} \cup
                   (IF call.words /\ call.op = "encrypt" THEN {"output", "tag_output"}
                    ELSE {})
      /\ call.held \cap {"salt", "info"} = {}
  BY <1>1, OnCall DEF PathInv, At, CallSteps
<1> DEFINE bad == call.ret # "GOOD"
           ours == {"aad", "tag"}
             \cup (IF bad THEN {"output", "result", "tag_output"} ELSE {})
             \cup (IF "options" \notin call.passed
                      \/ {"iv", "ivLen"} \subseteq call.passed
                   THEN {"iv"} ELSE {})
           c == [call EXCEPT !.held = @ \ ours,
                             !.result = IF bad THEN "none" ELSE @]
<1>3. Answers(c)
  BY DEF FreeLabel
<1>4. /\ {"aad", "tag"} \subseteq ours
      /\ bad => {"output", "result", "tag_output"} \subseteq ours
      /\ ~bad => ours \subseteq {"aad", "tag", "iv"}
  OBVIOUS
<1> HIDE DEF ours
<1>5. /\ c.op = call.op /\ c.ret = call.ret /\ c.words = call.words
      /\ c.held = call.held \ ours /\ c.done = call.done
      /\ c.result = IF bad THEN "none" ELSE call.result
  BY <1>2 DEF CallType
<1>6. c \in CallType
  BY <1>2 DEF CallType
<1> HIDE DEF c
<1>7. c.op \notin {"cipher.rsa"}
  BY <1>2, <1>5 DEF Ciphers
<1>8. c.result # "none" <=> c.done
  BY <1>2, <1>5
<1>9. "buff_tag" \in c.held => c.op = "decrypt"
  BY <1>2, <1>5
<1>10. c.ret # "GOOD" => c.held \subseteq {"key", "buff", "iv", "buff_tag"}
  BY <1>2, <1>4, <1>5 DEF CallType, CallBlocks
<1>11. c.ret = "GOOD" =>
            /\ c.result \in {"none"} \cup c.held
            /\ c.held \subseteq
                 {"key", "buff", "iv", "buff_tag", c.result} \cup
                   (IF c.words /\ c.op = "encrypt" THEN {"output", "tag_output"} ELSE {})
  <2>1. SUFFICES ASSUME c.ret = "GOOD"
                 PROVE  /\ c.result \in {"none"} \cup c.held
                        /\ c.held \subseteq
                             {"key", "buff", "iv", "buff_tag", c.result} \cup
                               (IF c.words /\ c.op = "encrypt"
                                THEN {"output", "tag_output"} ELSE {})
    OBVIOUS
  <2>2. ~bad /\ c.result = call.result
    BY <1>5, <2>1
  <2>3. call.result \notin {"aad", "tag", "iv"}
    BY <1>2 DEF CallType
  <2> QED BY <1>2, <1>4, <1>5, <2>2, <2>3
<1>12. Accounted(c)
  BY <1>7, <1>8, <1>9, <1>10, <1>11 DEF Accounted
<1> QED BY <1>3, <1>6, <1>12, AnswersKeep

LEMMA TellStep ==
  ASSUME PathInv, TellScript
  PROVE  PathInv'
<1>1. At("answer")
  BY DEF TellScript
<1>2. call \in CallType /\ Accounted(call)
  BY <1>1, OnCall DEF PathInv, At, CallSteps
<1> DEFINE outcome == IF call.result # "none" /\ "success" \in call.fns
                      THEN {"success"} ELSE call.fns \cap {"fail"}
           answers == outcome \cup (call.fns \cap {"complete"})
<1>3. call' = [call EXCEPT !.step = "end", !.told = answers]
  BY DEF TellScript
<1>4. /\ answers = (IF call.done /\ "success" \in call.fns
                    THEN {"success"} ELSE call.fns \cap {"fail"})
                   \cup (call.fns \cap {"complete"})
  BY <1>2 DEF Accounted
<1>5. answers \in SUBSET Role
  BY <1>2 DEF CallType, Role
<1> HIDE DEF answers
<1>6. call' \in CallType
  BY <1>2, <1>3, <1>5 DEF CallType, CallSteps
<1>7. /\ call'.step = "end" /\ call'.told = answers /\ call'.fns = call.fns
      /\ call'.op = call.op /\ call'.ret = call.ret /\ call'.held = call.held
      /\ call'.result = call.result /\ call'.done = call.done
      /\ call'.words = call.words
  BY <1>2, <1>3 DEF CallType
<1>8. Accounted(call)'
  BY <1>2, <1>7 DEF Accounted
<1> QED BY <1>4, <1>6, <1>7, <1>8 DEF PathInv, At

LEMMA NoCallKeeps ==
  ASSUME call = NoCryptoCall
  PROVE  PathInv
BY DEF NoCryptoCall, PathInv, At

LEMMA CryptoKept ==
  ASSUME Mishap = {}, PathInv, [CryptoNext]_crVars
  PROVE  PathInv'
<1>1. ASSUME NEW op \in CryptoOp, NEW fns \in SUBSET Role, CryptoCall(op, fns)
      PROVE  PathInv'
  BY <1>1, CallStarts
<1>2. CASE call' = call
  BY <1>2 DEF PathInv, At, Underway, Accounted
<1>3. CASE HashDigest \/ BtoaAtob \/ UNCHANGED crVars
  BY <1>2, <1>3 DEF HashDigest, BtoaAtob, crVars
<1>4. CASE CryptoCallEnds
  <2>1. call' = NoCryptoCall
    BY <1>4 DEF CryptoCallEnds
  <2> QED BY <2>1 DEF NoCryptoCall, PathInv, At
<1> QED BY <1>1, <1>3, <1>4, ProductStep, VerdictStep, HkdfStep, CipherRsaStep,
           CipherAesStep, TopOptionsStep, ModeStep, InternalOptionsStep, RunRsaStep,
           RunAesStep, EncodeStep, FreeLabelStep, TellStep
        DEF CryptoNext

-----------------------------------------------------------------------------
LEMMA AnswersAreTrue ==
  ASSUME PathInv
  PROVE  CryptoAnswersTrue
<1>1. SUFFICES ASSUME At("end") PROVE
        /\ "success" \in call.told => call.done
        /\ {"success", "fail"} \subseteq call.fns =>
             ("fail" \in call.told <=> ~call.done)
  BY DEF CryptoAnswersTrue
<1>2. call.told = (IF call.done /\ "success" \in call.fns
                   THEN {"success"} ELSE call.fns \cap {"fail"})
                  \cup (call.fns \cap {"complete"})
  BY <1>1 DEF PathInv
<1>3. CASE call.done /\ "success" \in call.fns
  BY <1>2, <1>3
<1>4. CASE ~(call.done /\ "success" \in call.fns)
  BY <1>2, <1>4
<1> QED BY <1>3, <1>4

LEMMA BlocksAreFreedOnce ==
  ASSUME PathInv
  PROVE  CryptoBlocksOnce
<1> DEFINE Left(op, words) ==
      CASE op = "encrypt"    -> {"key", "buff", "iv"} \cup
             (IF words THEN {"output"} ELSE {})
        [] op = "decrypt"    -> {"key", "buff", "buff_tag", "iv"}
        [] op = "cipher.rsa" -> {"output"}
        [] OTHER             -> {}
<1>1. SUFFICES ASSUME At("end")
               PROVE  /\ FreedAtEnd \subseteq call.held
                      /\ call.held \ FreedAtEnd \subseteq Left(call.op, call.words)
  BY DEF CryptoBlocksOnce
<1>2. call \in CallType /\ Accounted(call)
  BY <1>1, OnCall DEF PathInv, At, CallSteps
<1>3. CASE call.op = "encrypt"
  <2>1. FreedAtEnd = EncryptFrees
    BY <1>3, Zenon DEF FreedAtEnd
  <2>2. Left(call.op, call.words) =
          {"key", "buff", "iv"} \cup (IF call.words THEN {"output"} ELSE {})
    BY <1>3
  <2> HIDE DEF Left
  <2>3. /\ call.ret # "GOOD" => call.held \subseteq {"key", "buff", "iv", "buff_tag"}
        /\ call.ret = "GOOD" =>
             /\ call.result \in {"none"} \cup call.held
             /\ call.held \subseteq
                  {"key", "buff", "iv", "buff_tag", call.result} \cup
                    (IF call.words THEN {"output", "tag_output"} ELSE {})
        /\ "buff_tag" \notin call.held
    BY <1>2, <1>3 DEF Accounted, Ciphers
  <2>4. "none" \notin call.held
    BY <1>2 DEF CallType, CallBlocks
  <2> QED BY <2>1, <2>2, <2>3, <2>4 DEF EncryptFrees
<1>4. CASE call.op = "decrypt"
  <2>1. FreedAtEnd = DecryptFrees
    BY <1>4, Zenon DEF FreedAtEnd
  <2>2. Left(call.op, call.words) = {"key", "buff", "buff_tag", "iv"}
    BY <1>4
  <2> HIDE DEF Left
  <2>3. /\ call.ret # "GOOD" => call.held \subseteq {"key", "buff", "iv", "buff_tag"}
        /\ call.ret = "GOOD" =>
             /\ call.result \in {"none"} \cup call.held
             /\ call.held \subseteq {"key", "buff", "iv", "buff_tag", call.result}
    BY <1>2, <1>4 DEF Accounted, Ciphers
  <2>4. "none" \notin call.held
    BY <1>2 DEF CallType, CallBlocks
  <2> QED BY <2>1, <2>2, <2>3, <2>4 DEF DecryptFrees
<1>5. CASE call.op = "cipher.rsa"
  <2>1. FreedAtEnd = CipherRsaFrees
    BY <1>5, Zenon DEF FreedAtEnd
  <2>2. Left(call.op, call.words) = {"output"}
    BY <1>5
  <2> HIDE DEF Left
  <2>3. /\ call.result \in {"none"} \cup call.held
        /\ call.held \subseteq {"buff", "output", call.result}
    BY <1>2, <1>5 DEF Accounted
  <2>4. "none" \notin call.held
    BY <1>2 DEF CallType, CallBlocks
  <2> QED BY <2>1, <2>2, <2>3, <2>4 DEF CipherRsaFrees
<1>6. CASE call.op \notin {"encrypt", "decrypt", "cipher.rsa"}
  <2>1. FreedAtEnd = call.held
    <3>1. CASE call.op = "hkdf"
      BY <3>1, Zenon DEF FreedAtEnd, HkdfFrees
    <3>2. CASE call.op = "cipher.aes"
      <4>1. FreedAtEnd = CipherAesFrees
        BY <3>2, Zenon DEF FreedAtEnd
      <4>2. "empty iv" \notin call.passed
        BY <1>2 DEF CallType, CryptOption
      <4> QED BY <4>1, <4>2 DEF CipherAesFrees
    <3>3. CASE call.op \notin {"hkdf", "cipher.aes"}
      BY <1>6, <3>3, Zenon DEF FreedAtEnd
    <3> QED BY <3>1, <3>2, <3>3
  <2> QED BY <2>1
<1> QED BY <1>3, <1>4, <1>5, <1>6

LEMMA CryptoInvariant ==
  ASSUME Mishap = {}
  PROVE  CryptoSpec => []PathInv
<1>1. CryptoInit => PathInv
  BY NoCallKeeps DEF CryptoInit
<1>2. PathInv /\ [CryptoNext]_crVars => PathInv'
  BY CryptoKept
<1> QED BY <1>1, <1>2, PTL DEF CryptoSpec

(* What a call of system.crypto or system.cipher tells its functions is    *)
(* what became of its work.                                                *)
THEOREM CryptoTellsTheTruth ==
  ASSUME Mishap = {}
  PROVE  CryptoSpec => []CryptoAnswersTrue
BY CryptoInvariant, AnswersAreTrue, PTL

(* No path through a call frees a block twice or one it does not hold.     *)
THEOREM CryptoFreesOnce ==
  ASSUME Mishap = {}
  PROVE  CryptoSpec => []CryptoBlocksOnce
BY CryptoInvariant, BlocksAreFreedOnce, PTL

-----------------------------------------------------------------------------
(***************************************************************************)
(* ECDH objects: PairKept, for any pairs.  An object without data has      *)
(* agreed on nothing, for createECDH may give it data without keys.        *)
(***************************************************************************)
KeyMemory == Pair \cup {"none", "junk"}

EcdhInv ==
  /\ ecdh \in [there : BOOLEAN, pub : KeyMemory, priv : KeyMemory]
  /\ shown \in [key : KeyMemory, agreed : Pair \cup {NoPair}]
  /\ ~ecdh.there => agreed = NoPair
  /\ agreed \in Pair \cup {NoPair}
  /\ PairKept

LEMMA LostKeeps ==
  ASSUME EcdhInv, NEW data, Lost(data),
         data \in [there : BOOLEAN, pub : KeyMemory, priv : KeyMemory]
  PROVE  EcdhInv'
BY DEF EcdhInv, Lost, PairKept

LEMMA ReplacedKeeps ==
  ASSUME EcdhInv, NEW p \in Pair, Replaced(p), ecdh.there
  PROVE  EcdhInv'
<1>1. /\ ecdh' \in [there : BOOLEAN, pub : KeyMemory, priv : KeyMemory]
      /\ ecdh'.there /\ ecdh'.pub = p /\ ecdh'.priv = p
  BY DEF EcdhInv, Replaced, KeyMemory
<1>2. agreed' = p /\ shown' = shown
  BY DEF Replaced
<1> QED BY <1>1, <1>2 DEF EcdhInv, PairKept

LEMMA ShownKeeps ==
  ASSUME EcdhInv, NEW key \in KeyMemory, UNCHANGED <<ecdh, agreed>>,
         shown' = [key |-> key, agreed |-> agreed],
         agreed # NoPair => key \in {"none", agreed}
  PROVE  EcdhInv'
<1>1. /\ shown' \in [key : KeyMemory, agreed : Pair \cup {NoPair}]
      /\ shown'.key = key /\ shown'.agreed = agreed
  BY DEF EcdhInv
<1> QED BY <1>1 DEF EcdhInv, PairKept

(* Whatever keys an object is left with when a call has failed.            *)
LEMMA DataLeft ==
  ASSUME EcdhInv, NEW p \in Pair
  PROVE  \A data \in AllocateFailed \cup GenerateFailed(p) \cup PemFailed(p)
                       \cup BinaryFailed(p) \cup {NoData}
                       \cup {[AllocatedKeys EXCEPT !.pub = p, !.priv = p]} :
           data \in [there : BOOLEAN, pub : KeyMemory, priv : KeyMemory]
<1>1. ecdh \in [there : BOOLEAN, pub : KeyMemory, priv : KeyMemory]
      /\ p \in KeyMemory /\ "none" \in KeyMemory /\ "junk" \in KeyMemory
  BY DEF EcdhInv, KeyMemory
<1>2. AllocatedKeys \in [there : BOOLEAN, pub : KeyMemory, priv : KeyMemory]
  BY <1>1 DEF AllocatedKeys
<1>3. /\ AllocateFailed \subseteq [there : BOOLEAN, pub : KeyMemory, priv : KeyMemory]
      /\ NoData \in [there : BOOLEAN, pub : KeyMemory, priv : KeyMemory]
  BY <1>1 DEF AllocateFailed, NoData
<1>4. GenerateFailed(p) \cup PemFailed(p) \cup BinaryFailed(p)
        \subseteq [there : BOOLEAN, pub : KeyMemory, priv : KeyMemory]
  BY <1>1, <1>2 DEF GenerateFailed, PemFailed, BinaryFailed
<1>5. [AllocatedKeys EXCEPT !.pub = p, !.priv = p]
        \in [there : BOOLEAN, pub : KeyMemory, priv : KeyMemory]
  BY <1>1, <1>2
<1> QED BY <1>3, <1>4, <1>5

LEMMA EcdhKept ==
  ASSUME EcdhInv, [EcdhNext]_ekVars
  PROVE  EcdhInv'
<1>1. CASE UNCHANGED ekVars
  BY <1>1 DEF ekVars, EcdhInv, PairKept
<1>2. CASE CreateECDH
  <2>1. agreed = NoPair /\ ~ecdh.there /\ UNCHANGED <<agreed, shown>>
    BY <1>2 DEF CreateECDH, EcdhInv
  <2>2. ecdh' \in [there : BOOLEAN, pub : KeyMemory, priv : KeyMemory]
    <3>1. \/ ecdh' = [there |-> FALSE, pub |-> "none", priv |-> "none"]
          \/ ecdh' = [there |-> TRUE, pub |-> "junk", priv |-> "junk"]
      BY <1>2 DEF CreateECDH, InitializeEcdh, NoData
    <3>2. "none" \in KeyMemory /\ "junk" \in KeyMemory
      BY DEF KeyMemory
    <3> DEFINE Data == [there : BOOLEAN, pub : KeyMemory, priv : KeyMemory]
    <3>3. [there |-> FALSE, pub |-> "none", priv |-> "none"] \in Data
      BY <3>2
    <3>4. [there |-> TRUE, pub |-> "junk", priv |-> "junk"] \in Data
      BY <3>2
    <3> HIDE DEF Data
    <3>5. ecdh' \in Data
      BY <3>1, <3>3, <3>4
    <3> QED BY <3>5 DEF Data
  <2> QED BY <2>1, <2>2 DEF EcdhInv, PairKept
<1>3. ASSUME NEW data \in AllocateFailed, Lost(data), ecdh.there PROVE EcdhInv'
  <2>1. ecdh \in [there : BOOLEAN, pub : KeyMemory, priv : KeyMemory]
        /\ "none" \in KeyMemory
    BY DEF EcdhInv, KeyMemory
  <2>2. data \in [there : BOOLEAN, pub : KeyMemory, priv : KeyMemory]
    BY <2>1, <1>3 DEF AllocateFailed
  <2> QED BY <1>3, <2>2, LostKeeps
<1>4. CASE GenerateKeys
  <2>1. ecdh.there
    BY <1>4 DEF GenerateKeys
  <2>2. ASSUME NEW p \in Pair, NEW data \in GenerateFailed(p), Lost(data)
        PROVE  EcdhInv'
    BY <2>2, DataLeft, LostKeeps
  <2>3. ASSUME NEW p \in Pair, Lost([AllocatedKeys EXCEPT !.pub = p, !.priv = p])
        PROVE  EcdhInv'
    BY <2>3, DataLeft, LostKeeps
  <2>4. ASSUME NEW p \in Pair, Replaced(p) PROVE EcdhInv'
    BY <2>1, <2>4, ReplacedKeeps
  <2> QED BY <1>3, <1>4, <2>1, <2>2, <2>3, <2>4 DEF GenerateKeys
<1>5. CASE SetPrivateKey
  <2>1. ecdh.there
    BY <1>5 DEF SetPrivateKey
  <2>2. ASSUME NEW p \in Pair, NEW data \in PemFailed(p) \cup BinaryFailed(p), Lost(data)
        PROVE  EcdhInv'
    BY <2>2, DataLeft, LostKeeps
  <2>3. ASSUME NEW p \in Pair, Replaced(p) PROVE EcdhInv'
    BY <2>1, <2>3, ReplacedKeeps
  <2> QED BY <1>1, <1>3, <1>5, <2>1, <2>2, <2>3 DEF SetPrivateKey
<1>6. CASE GetKey
  <2>1. PICK key \in Encoded(ecdh.pub) \cup Encoded(ecdh.priv) :
          shown' = [key |-> key, agreed |-> agreed]
    BY <1>6 DEF GetKey
  <2>2. key \in KeyMemory /\ (agreed # NoPair => key \in {"none", agreed})
    BY DEF Encoded, EcdhInv, PairKept, KeyMemory
  <2> QED BY <1>6, <2>1, <2>2, ShownKeeps DEF GetKey
<1>7. CASE ComputeSecret
  <2>1. PICK key \in SharedKeys \cup {"none"} :
          shown' = [key |-> key, agreed |-> agreed]
    BY <1>7 DEF ComputeSecret
  <2>2. key \in KeyMemory /\ (agreed # NoPair => key \in {"none", agreed})
    BY DEF SharedKeys, EcdhInv, PairKept, KeyMemory
  <2> QED BY <1>7, <2>1, <2>2, ShownKeeps DEF ComputeSecret
<1>8. CASE FinalizeEcdh
  <2>1. NoData \in [there : BOOLEAN, pub : KeyMemory, priv : KeyMemory]
    BY DEF NoData, KeyMemory
  <2> QED BY <1>8, <2>1, LostKeeps DEF FinalizeEcdh
<1> QED BY <1>1, <1>2, <1>4, <1>5, <1>6, <1>7, <1>8 DEF EcdhNext

LEMMA EcdhInvariant == EcdhSpec => []EcdhInv
<1>1. EcdhInit => EcdhInv
  BY DEF EcdhInit, EcdhInv, NoData, NothingShown, KeyMemory, PairKept
<1>2. EcdhInv /\ [EcdhNext]_ekVars => EcdhInv'
  BY EcdhKept
<1> QED BY <1>1, <1>2, PTL DEF EcdhSpec

(* The keys a script heard success for are the object's until another call *)
(* has begun to replace them.                                              *)
THEOREM EcdhPairIsKept == EcdhSpec => []PairKept
<1>1. EcdhInv => PairKept
  BY DEF EcdhInv
<1> QED BY <1>1, EcdhInvariant, PTL

-----------------------------------------------------------------------------
(* The features loaded together: a step is one of a feature, or leaves its *)
(* variables alone.                                                        *)
LEMMA FeatureSteps ==
  [FeaturesNext]_mcVars =>
    /\ [Next]_vars /\ [ListenersNext]_mlVars /\ [DownloadsNext]_dlVars
    /\ [FileNext]_fcVars /\ [SensorsNext]_seVars /\ [SystemEventsNext]_syVars
    /\ [ArraysNext]_avVars /\ [SettingsNext]_ssVars /\ [ZipNext]_zwVars
    /\ [CryptoNext]_crVars /\ [EcdhNext]_ekVars
<1> DEFINE EachStep ==
    /\ [Next]_vars /\ [ListenersNext]_mlVars /\ [DownloadsNext]_dlVars
    /\ [FileNext]_fcVars /\ [SensorsNext]_seVars /\ [SystemEventsNext]_syVars
    /\ [ArraysNext]_avVars /\ [SettingsNext]_ssVars /\ [ZipNext]_zwVars
    /\ [CryptoNext]_crVars /\ [EcdhNext]_ekVars
<1> SUFFICES ASSUME [FeaturesNext]_mcVars PROVE EachStep
  OBVIOUS
<1>1. CASE UNCHANGED mcVars
  BY <1>1 DEF mcVars, serviceVars, callVars
<1>2. CASE EventsStep
  BY <1>2 DEF EventsStep, callVars
<1>3. CASE ListenersStep
  BY <1>3 DEF ListenersStep, callVars
<1>4. CASE DownloadsStep
  BY <1>4 DEF DownloadsStep, callVars
<1>5. CASE FilesStep
  BY <1>5 DEF FilesStep, callVars
<1>6. CASE SensorsStep
  BY <1>6 DEF SensorsStep, callVars
<1>7. CASE SystemEventsStep
  BY <1>7 DEF SystemEventsStep, callVars
<1>8. CASE ArraysStep
  BY <1>8 DEF ArraysStep, callVars
<1>9. CASE SettingsStep
  BY <1>9 DEF SettingsStep, callVars
<1>10. CASE ZipStep
  BY <1>10 DEF ZipStep, callVars
<1>11. CASE CryptoStep
  BY <1>11 DEF CryptoStep, serviceVars
<1>12. CASE EcdhStep
  BY <1>12 DEF EcdhStep, serviceVars
<1> QED BY <1>1, <1>2, <1>3, <1>4, <1>5, <1>6, <1>7, <1>8, <1>9, <1>10,
           <1>11, <1>12 DEF FeaturesNext

LEMMA FeaturesLoaded ==
  FeaturesSpec =>
    /\ Spec /\ ListenersSpec /\ DownloadsSpec /\ FileSpec /\ SensorsSpec
    /\ SystemEventsSpec /\ ArraysSpec /\ SettingsSpec /\ ZipSpec
    /\ CryptoSpec /\ EcdhSpec
<1>1. FeaturesInit =>
        /\ Init /\ ListenersInit /\ DownloadsInit /\ FileInit /\ SensorsInit
        /\ SystemEventsInit /\ ArraysInit /\ SettingsInit /\ ZipInit
        /\ CryptoInit /\ EcdhInit
  BY DEF FeaturesInit
<1> QED BY <1>1, FeatureSteps, PTL
        DEF FeaturesSpec, Spec, ListenersSpec, DownloadsSpec, FileSpec,
            SensorsSpec, SystemEventsSpec, ArraysSpec, SettingsSpec, ZipSpec,
            CryptoSpec, EcdhSpec

(* Callbacks run in the order they were added in, and the change listener  *)
(* knows which events have any, also when callbacks add, remove and emit.  *)
THEOREM FeaturesEventsInOrder == FeaturesSpec => []EventsInOrder
<1>1. EmittedInOrder /\ ListenerInformed => EventsInOrder
  BY DEF EventsInOrder
<1> QED BY <1>1, FeaturesLoaded, EventsEmittedInOrder, EventsListenerInformed, PTL

(* A call of system.crypto succeeds exactly if its work was done, and      *)
(* frees what it has allocated; an ECDH object keeps the pair it shows.    *)
THEOREM FeaturesCryptoExact ==
  ASSUME Mishap = {}
  PROVE  FeaturesSpec => []CryptoExact
<1>1. CryptoAnswersTrue /\ PairKept /\ CryptoBlocksOnce => CryptoExact
  BY DEF CryptoExact
<1> QED BY <1>1, FeaturesLoaded, CryptoTellsTheTruth, EcdhPairIsKept,
           CryptoFreesOnce, PTL

(* Whichever feature is loaded stays within its types.                     *)
THEOREM FeaturesTyped ==
  ASSUME ~Managed, ~Beyond
  PROVE  FeaturesSpec => []FeaturesTypeOK
<1>1. /\ TypeOK /\ ListenersTypeOK /\ DownloadsTypeOK /\ FileTypeOK
      /\ SensorsTypeOK /\ SystemEventsTypeOK /\ ArraysTypeOK
      /\ SettingsTypeOK /\ ZipTypeOK
      => FeaturesTypeOK
  BY DEF FeaturesTypeOK
<1>2. SensorsSpec => []SensorsTypeOK
  BY SensorsTypesHold
<1>3. ArraysSpec => []ArraysTypeOK
  BY ArraysTypesHold
<1> QED BY <1>1, <1>2, <1>3, FeaturesLoaded, EventsTypesHold,
           ListenersTypesHold, DownloadsTypesHold, FilesTypesHold,
           SystemEventsTypesHold, SettingsTypesHold, ZipTypesHold, PTL
=============================================================================

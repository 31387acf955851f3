-------------------------- MODULE TempFilesProofs --------------------------
(***************************************************************************)
(* Temporary files: a request that is alone on its path hands on exactly   *)
(* the file it was given, what is stored under a certificate was uploaded  *)
(* for it, and what descriptors are left open.                             *)
(***************************************************************************)
EXTENDS TempFiles, SequenceTheorems, TLAPS

(* A request that has opened no file yet.                                  *)
Before == {"unsent", "query", "remove", "open"}

Opened(i) == work[i].pc \notin Before

(* An inode is made by a request for the path of that request.             *)
Belongs(i, p) == i \in Inodes /\ Opened(i) /\ Path(i) = p

(* Which request a handler at each place is serving, and what it has done. *)
ShapeOK(w) ==
    /\ w.pc = "unsent" <=> w.job = NoJob
    /\ w.pc \in {"query", "send"} => w.job.op = "download"
    /\ w.pc \in {"read", "execute"} => w.job.op = "upload"
    /\ w.pc \in Before => w.copied = 0
    /\ w.pc \in Before \cup {"copy", "openRead", "stat"} => w.data = <<>>
    /\ w.pc # "done" => w.code = 0

InodesOK(r) ==
    /\ work[r].wr # NoInode => Belongs(work[r].wr, Path(r))
    /\ work[r].rd # NoInode => Belongs(work[r].rd, Path(r))

PathsOK == \A p \in Paths : names[p] # NoInode => Belongs(names[p], p)

Uploads(r, c, f) ==
    work[r].job # NoJob /\ Op(r) = "upload" /\ Cert(r) = c /\ work[r].job.file = f

(* Blocks uploaded for a certificate, each at a place of its file.         *)
OwnBlocks(file, c) ==
    \A k \in DOMAIN file :
        k <= Blocks[file[k]] /\ \E r \in Requests : Uploads(r, c, file[k])

ContentOK(i) ==
    /\ ~ Opened(i) => content[i] = <<>>
    /\ work[i].job # NoJob /\ Op(i) = "upload" => OwnBlocks(content[i], Cert(i))

UploadOK(r) ==
    /\ work[r].pc = "copy" /\ Op(r) = "upload" => work[r].copied <= Len(content[work[r].wr])
    /\ work[r].pc = "execute" => IsPdf(work[r].data) /\ OwnBlocks(work[r].data, Cert(r))

DiskInv ==
    /\ TypeOK /\ PathsOK
    /\ \A r \in Requests : ShapeOK(work[r]) /\ InodesOK(r) /\ ContentOK(r) /\ UploadOK(r)

(* Nobody else is at work on the path of a request that is alone.          *)
Undisturbed(r) ==
    Running(r) => \A s \in Requests \ {r} : Running(s) => Path(s) # Path(r)

First(f, n) == [i \in 1 .. n |-> f]

(* What a request has to hand on.                                          *)
Given(r) == IF Op(r) = "upload" THEN Whole(work[r].job.file) ELSE work[r].hand

(* How far a request that is alone has come.                               *)
Progress(r) ==
    LET w == work[r]
    IN  /\ w.pc = "open" => names[Path(r)] = NoInode
        /\ w.pc \in {"copy", "openRead", "stat"} => names[Path(r)] = r
        /\ w.pc = "copy" =>
              /\ w.wr = r
              /\ IF Op(r) = "upload"
                 THEN w.copied <= Blocks[w.job.file] /\ content[r] = First(w.job.file, w.copied)
                 ELSE content[r] = <<>>
        /\ w.pc \in {"stat", "read", "send"} => w.rd = r
        /\ w.pc \in {"openRead", "stat", "read", "send"} => content[r] = Given(r)
        /\ w.pc \in {"read", "send"} => w.size = Len(Given(r))
        /\ w.pc = "execute" => w.data = Given(r)
        /\ w.pc = "send" => /\ Len(w.data) <= Len(Given(r))
                            /\ \A k \in DOMAIN w.data : w.data[k] = Given(r)[k]
        /\ w.code = 200 /\ Op(r) = "download" =>
              w.data = w.hand /\ w.size = Len(w.hand)

AloneInv == \A r \in Requests : alone[r] => Undisturbed(r) /\ Progress(r)


-----------------------------------------------------------------------------
(***************************************************************************)
(* Types.                                                                  *)
(***************************************************************************)

(* The ranges of a handler's fields, named.                                *)
PCRange    == {"unsent", "query", "remove", "open", "copy", "openRead", "stat",
               "read", "execute", "send", "done"}
JobRange   == Jobs \cup {NoJob}
InodeRange == Inodes \cup {NoInode}
CodeRange  == {0, 200, 400, 500, 501}

HandlerSet == [pc : PCRange, job : JobRange, wr : InodeRange, rd : InodeRange,
               copied : Nat, size : Nat, data : Content, hand : Content, code : CodeRange]

(* A handler's record has fields in these ranges.                          *)
LEMMA HandlerRecord == Handler = HandlerSet
BY DEF Handler, HandlerSet, PCRange, JobRange, InodeRange, CodeRange

(* What a job is.                                                          *)
LEMMA JobFields ==
    ASSUME NEW job \in Jobs
    PROVE  /\ job.op \in {"upload", "download"} /\ job.certId \in Certs
           /\ job.op = "upload" => job.file \in Files
           /\ job # NoJob
BY JobsAssumption DEF Job

(* The fields of a request's handler.                                      *)
LEMMA HandlerFields ==
    ASSUME DiskInv, NEW r \in Requests
    PROVE  /\ work[r] \in Handler
           /\ work[r].pc \in PCRange /\ work[r].job \in Jobs \cup {NoJob}
           /\ work[r].wr \in Inodes \cup {NoInode} /\ work[r].rd \in Inodes \cup {NoInode}
           /\ work[r].copied \in Nat /\ work[r].size \in Nat
           /\ work[r].data \in Seq(Files) /\ work[r].hand \in Seq(Files)
           /\ work[r].pc # "unsent" => /\ work[r].job \in Jobs /\ work[r].job # NoJob
                                       /\ Path(r) \in Paths /\ Cert(r) \in Certs
                                       /\ Op(r) \in {"upload", "download"}
                                       /\ Op(r) = "upload" => work[r].job.file \in Files
<1>1. work[r] \in HandlerSet /\ ShapeOK(work[r]) /\ work[r] \in Handler
  BY HandlerRecord DEF DiskInv, TypeOK
<1>2. /\ work[r].pc \in PCRange /\ work[r].job \in JobRange
      /\ work[r].wr \in InodeRange /\ work[r].rd \in InodeRange
      /\ work[r].copied \in Nat /\ work[r].size \in Nat
      /\ work[r].data \in Content /\ work[r].hand \in Content
  BY <1>1 DEF HandlerSet
<1>3. ASSUME work[r].pc # "unsent"
      PROVE  /\ work[r].job \in Jobs /\ work[r].job # NoJob
             /\ Path(r) \in Paths /\ Cert(r) \in Certs
             /\ Op(r) \in {"upload", "download"}
             /\ Op(r) = "upload" => work[r].job.file \in Files
  <2>1. work[r].job \in Jobs
    BY <1>1, <1>2, <1>3 DEF ShapeOK, JobRange
  <2> QED BY <2>1, JobFields DEF Path, Paths, Op, Cert
<1> QED BY <1>1, <1>2, <1>3 DEF JobRange, InodeRange, Content

-----------------------------------------------------------------------------
(***************************************************************************)
(* A step of one request.                                                  *)
(***************************************************************************)

(* What no step undoes.                                                    *)
Grows ==
    \A i \in Requests : /\ work[i].job # NoJob => work'[i].job = work[i].job
                        /\ Opened(i) => Opened(i)'

(* Belongs, after the step.                                                *)
BelongsNext(i, p) ==
    /\ i \in Inodes /\ work'[i].pc \notin Before
    /\ <<work'[i].job.op, work'[i].job.certId>> = p

(* Whose an inode or a block is stays true.                                *)
LEMMA OwnersStay ==
    ASSUME DiskInv, Grows
    PROVE  /\ \A i, p : Belongs(i, p) => BelongsNext(i, p)
           /\ \A file, c : OwnBlocks(file, c) => OwnBlocks(file, c)'
<1>1. ASSUME NEW i, NEW p, Belongs(i, p) PROVE BelongsNext(i, p)
  <2>1. i \in Requests /\ work[i].pc # "unsent"
    BY <1>1 DEF Belongs, Opened, Before, Inodes
  <2>2. work[i].job # NoJob
    BY <2>1, HandlerFields
  <2> QED BY <1>1, <2>1, <2>2 DEF Grows, Belongs, BelongsNext, Opened, Path, Op, Cert
<1>2. ASSUME NEW file, NEW c, OwnBlocks(file, c) PROVE OwnBlocks(file, c)'
  <2>1. \A f : \A r \in Requests : Uploads(r, c, f) => Uploads(r, c, f)'
    BY DEF Grows, Uploads, Op, Cert
  <2> QED BY <1>2, <2>1 DEF OwnBlocks
<1> QED BY <1>1, <1>2

(* The handler of r becomes w.                                             *)
Steps(r, w) ==
    /\ w \in Handler /\ ShapeOK(w)
    /\ work' = [work EXCEPT ![r] = w]
    /\ Running(r) /\ w.job = work[r].job /\ w.pc # "unsent"
    /\ Opened(r) => w.pc \notin Before
    /\ w.pc = "copy" => w.wr # NoInode
    /\ w.pc \in {"stat", "read", "send"} => w.rd # NoInode
    /\ w.wr \in {NoInode, work[r].wr, names'[Path(r)]}
    /\ w.rd \in {NoInode, work[r].rd, names'[Path(r)]}
    /\ UNCHANGED alone

(* Only its path and an inode of its path change.                          *)
KeepsToItsPath(r, w) ==
    /\ names' \in [Paths -> Inodes \cup {NoInode}]
    /\ \A p \in Paths \ {Path(r)} : names'[p] = names[p]
    /\ names'[Path(r)] \in {names[Path(r)], NoInode} \/ (names'[Path(r)] = r /\ w.pc \notin Before)
    /\ content' \in [Inodes -> Content]
    /\ \A i \in Inodes :
          \/ content'[i] = content[i]
          \/ /\ Belongs(i, Path(r)) \/ (i = r /\ w.pc \notin Before)
             /\ Op(r) = "upload" => /\ OwnBlocks(content'[i], Cert(r))
                                    /\ Len(content'[i]) >= Len(content[i])

(* The effect on the handlers.                                             *)
LEMMA StepEffect ==
    ASSUME DiskInv, NEW r \in Requests, NEW w, Steps(r, w)
    PROVE  /\ work' \in [Requests -> Handler]
           /\ work'[r] = w /\ \A q \in Requests \ {r} : work'[q] = work[q]
           /\ Path(r)' = Path(r) /\ Op(r)' = Op(r) /\ Cert(r)' = Cert(r)
           /\ Grows
<1>1. work \in [Requests -> Handler]
  BY DEF DiskInv, TypeOK
<1>2. /\ work' \in [Requests -> Handler]
      /\ work'[r] = w /\ \A q \in Requests \ {r} : work'[q] = work[q]
  BY <1>1 DEF Steps
<1>3. Path(r)' = Path(r) /\ Op(r)' = Op(r) /\ Cert(r)' = Cert(r)
  BY <1>2 DEF Steps, Path, Op, Cert
<1>4. Grows
  BY <1>2 DEF Steps, Grows, Opened
<1> QED BY <1>2, <1>3, <1>4

(* Such a step keeps the invariant of the disk.                            *)
LEMMA StepKeepsDisk ==
    ASSUME DiskInv, NEW r \in Requests, NEW w, Steps(r, w), KeepsToItsPath(r, w),
           stored' \in [Certs -> Content \cup {NoFile}],
           open' \subseteq Requests \X {"write", "read"},
           UploadOK(r)'
    PROVE  DiskInv'
<1>1. /\ work' \in [Requests -> Handler]
      /\ work'[r] = w /\ \A q \in Requests \ {r} : work'[q] = work[q]
      /\ Path(r)' = Path(r) /\ Op(r)' = Op(r) /\ Cert(r)' = Cert(r)
  BY StepEffect
<1>2. /\ \A i, p : Belongs(i, p) => BelongsNext(i, p)
      /\ \A file, c : OwnBlocks(file, c) => OwnBlocks(file, c)'
  BY StepEffect, OwnersStay
<1>3. Path(r) \in Paths /\ Op(r) \in {"upload", "download"} /\ work[r].job \in Jobs
      /\ work[r].job # NoJob
  BY HandlerFields DEF Steps, Running
<1>4. \A q \in Requests : ShapeOK(work'[q])
  BY <1>1 DEF DiskInv, Steps
<1>5. TypeOK'
  <2>1. alone' \in [Requests -> BOOLEAN]
    BY DEF DiskInv, TypeOK, Steps
  <2>2. ASSUME NEW q \in Requests
        PROVE  /\ work'[q].pc \notin {"unsent", "done"} => work'[q].job \in Jobs
               /\ work'[q].pc = "copy" => work'[q].wr # NoInode
               /\ work'[q].pc \in {"stat", "read", "send"} => work'[q].rd # NoInode
    <3>1. CASE q = r
      BY <1>1, <1>3, <3>1 DEF Steps
    <3>2. CASE q # r
      BY <1>1, <3>2 DEF DiskInv, TypeOK
    <3> QED BY <3>1, <3>2
  <2> QED BY <1>1, <2>1, <2>2 DEF TypeOK, KeepsToItsPath
<1>6. ASSUME names'[Path(r)] # NoInode
      PROVE  BelongsNext(names'[Path(r)], Path(r))
  <2>1. CASE names'[Path(r)] = names[Path(r)]
    <3>1. Belongs(names[Path(r)], Path(r))
      BY <1>3, <1>6, <2>1 DEF DiskInv, PathsOK
    <3> QED BY <1>2, <2>1, <3>1
  <2>2. CASE names'[Path(r)] = r /\ w.pc \notin Before
    BY <1>1, <2>2 DEF BelongsNext, Inodes, Steps, Path, Op, Cert
  <2> QED BY <1>6, <2>1, <2>2 DEF KeepsToItsPath
<1>7. PathsOK'
  <2> SUFFICES ASSUME NEW p \in Paths, names'[p] # NoInode PROVE BelongsNext(names'[p], p)
    BY DEF PathsOK, Belongs, BelongsNext, Opened, Path, Op, Cert
  <2>1. CASE p = Path(r)
    BY <1>6, <2>1
  <2>2. CASE p # Path(r)
    <3>1. Belongs(names[p], p) /\ names'[p] = names[p]
      BY <2>2 DEF DiskInv, PathsOK, KeepsToItsPath
    <3> QED BY <1>2, <3>1
  <2> QED BY <2>1, <2>2
<1>8. ASSUME NEW q \in Requests PROVE InodesOK(q)'
  <2> SUFFICES ASSUME NEW i \in {work'[q].wr, work'[q].rd}, i # NoInode
               PROVE  BelongsNext(i, Path(q))
    BY <1>1 DEF InodesOK, Belongs, BelongsNext, Opened, Path, Op, Cert, Steps
  <2>1. CASE i \in {work[q].wr, work[q].rd}
    <3>1. Belongs(i, Path(q))
      BY <2>1 DEF DiskInv, InodesOK
    <3> QED BY <1>2, <3>1
  <2>2. CASE i \notin {work[q].wr, work[q].rd}
    <3>1. q = r /\ i = names'[Path(r)]
      BY <1>1, <2>2 DEF Steps
    <3> QED BY <1>6, <3>1
  <2> QED BY <2>1, <2>2
<1>9. ASSUME NEW i \in Requests PROVE ContentOK(i)'
  <2>1. work'[i].job = work[i].job /\ Op(i)' = Op(i) /\ Cert(i)' = Cert(i) /\ Path(i)' = Path(i)
    BY <1>1 DEF Steps, Op, Cert, Path
  <2>2. ContentOK(i) /\ (Opened(i) => Opened(i)')
    BY StepEffect DEF DiskInv, Grows
  <2>3. CASE content'[i] = content[i]
    BY <1>2, <2>1, <2>2, <2>3 DEF ContentOK
  <2>4. CASE content'[i] # content[i]
    <3>1. /\ Belongs(i, Path(r)) \/ (i = r /\ w.pc \notin Before)
          /\ Op(r) = "upload" => OwnBlocks(content'[i], Cert(r))
      BY <2>4 DEF KeepsToItsPath, Inodes
    <3>2. Opened(i)' /\ Path(i) = Path(r)
      BY <1>1, <2>2, <3>1 DEF Belongs, Opened
    <3>3. Op(i) = Op(r) /\ Cert(i) = Cert(r)
      BY <3>2 DEF Path
    <3>4. ASSUME Op(r) = "upload" PROVE OwnBlocks(content[i], Cert(i))'
      <4>1. PICK file, c : file = content'[i] /\ c = Cert(r)
        OBVIOUS
      <4>2. OwnBlocks(file, c)'
        BY <1>2, <3>1, <3>4, <4>1
      <4> QED BY <2>1, <3>3, <4>1, <4>2 DEF OwnBlocks
    <3> QED BY <2>1, <3>2, <3>3, <3>4 DEF ContentOK
  <2> QED BY <2>3, <2>4
<1>10. ASSUME NEW q \in Requests PROVE UploadOK(q)'
  <2>1. CASE q # r
    <3>1. work'[q] = work[q] /\ UploadOK(q) /\ InodesOK(q)
      BY <1>1, <2>1 DEF DiskInv
    <3>2. ASSUME work[q].pc = "copy", Op(q) = "upload"
          PROVE  work[q].copied <= Len(content'[work[q].wr])
      <4> DEFINE i == work[q].wr
      <4>1. i \in Inodes /\ Belongs(i, Path(q))
        BY <3>1, <3>2 DEF DiskInv, TypeOK, InodesOK, Belongs
      <4>2. content[i] \in Seq(Files) /\ content'[i] \in Seq(Files)
        BY <4>1 DEF DiskInv, TypeOK, KeepsToItsPath, Content
      <4>3. Len(content[i]) \in Nat /\ Len(content'[i]) \in Nat /\ work[q].copied \in Nat
        BY <4>2, HandlerFields, LenProperties
      <4>4. work[q].copied <= Len(content[i])
        BY <3>1, <3>2 DEF UploadOK
      <4>5. Len(content'[i]) >= Len(content[i])
        <5>1. CASE content'[i] = content[i]
          BY <4>3, <5>1
        <5>2. CASE content'[i] # content[i]
          <6>1. Belongs(i, Path(r)) \/ (i = r /\ w.pc \notin Before)
            BY <4>1, <5>2 DEF KeepsToItsPath
          <6>2. Op(r) = "upload"
            BY <3>2, <4>1, <6>1 DEF Belongs, Path
          <6> QED BY <4>1, <5>2, <6>2 DEF KeepsToItsPath
        <5> QED BY <5>1, <5>2
      <4> QED BY <4>3, <4>4, <4>5
    <3>3. work[q].pc = "execute" => OwnBlocks(work[q].data, Cert(q))'
      <4> SUFFICES ASSUME work[q].pc = "execute" PROVE OwnBlocks(work[q].data, Cert(q))'
        OBVIOUS
      <4>1. PICK file, c : file = work[q].data /\ c = Cert(q)
        OBVIOUS
      <4>2. OwnBlocks(file, c)'
        BY <1>2, <3>1, <4>1 DEF UploadOK
      <4> QED BY <3>1, <4>1, <4>2 DEF OwnBlocks, Cert
    <3> QED BY <3>1, <3>2, <3>3 DEF UploadOK, Op
  <2> QED BY <2>1
<1> QED BY <1>4, <1>5, <1>7, <1>8, <1>9, <1>10 DEF DiskInv


(* Such a step disturbs no other request that is alone on its path.        *)
LEMMA StepKeepsAlone ==
    ASSUME DiskInv, AloneInv, NEW r \in Requests, NEW w, Steps(r, w), KeepsToItsPath(r, w),
           alone[r] => Progress(r)'
    PROVE  AloneInv'
<1>1. /\ work'[r] = w /\ \A q \in Requests \ {r} : work'[q] = work[q]
      /\ Running(r) /\ w.job = work[r].job /\ alone' = alone
      /\ \A q \in Requests \ {r} :
             Path(q)' = Path(q) /\ Op(q)' = Op(q) /\ Given(q)' = Given(q)
      /\ Path(r)' = Path(r)
  BY StepEffect DEF Steps, Path, Op, Cert, Given
<1>2. ASSUME NEW q \in Requests, alone[q] PROVE Undisturbed(q)'
  <2>1. Undisturbed(q)
    BY <1>2 DEF AloneInv
  <2>2. \A s \in Requests : Path(s)' = Path(s) /\ (Running(s)' => Running(s))
    BY <1>1 DEF Running, Path, Op, Cert
  <2> QED BY <2>1, <2>2 DEF Undisturbed
<1>3. ASSUME NEW q \in Requests, alone[q], q # r PROVE Progress(q)'
  <2>1. Progress(q) /\ Undisturbed(q)
    BY <1>3 DEF AloneInv
  <2>2. /\ work'[q] = work[q] /\ Path(q)' = Path(q) /\ Op(q)' = Op(q) /\ Given(q)' = Given(q)
    BY <1>1, <1>3
  <2>3. CASE Running(q)
    <3>1. Path(q) # Path(r) /\ Path(q) \in Paths
      BY <1>1, <1>3, <2>1, <2>3, HandlerFields DEF Undisturbed, Running
    <3>2. names'[Path(q)] = names[Path(q)]
      BY <3>1 DEF KeepsToItsPath
    <3>3. content'[q] = content[q]
      BY <1>3, <3>1 DEF KeepsToItsPath, Belongs, Inodes
    <3> QED BY <2>1, <2>2, <3>2, <3>3 DEF Progress
  <2>4. CASE ~ Running(q)
    BY <2>1, <2>2, <2>4 DEF Progress, Running
  <2> QED BY <2>3, <2>4
<1> QED BY <1>1, <1>2, <1>3 DEF AloneInv


-----------------------------------------------------------------------------
(***************************************************************************)
(* Contents.                                                               *)
(***************************************************************************)

(* A write at or before the end of a content.                              *)
LEMMA OverwrittenFields ==
    ASSUME NEW old \in Seq(Files), NEW blocks \in Seq(Files), NEW at \in 0 .. Len(old),
           NEW written, written = Overwritten(old, at, blocks)
    PROVE  /\ written \in Seq(Files)
           /\ Len(written) = IF at + Len(blocks) > Len(old) THEN at + Len(blocks) ELSE Len(old)
           /\ \A k \in 1 .. Len(written) :
                 written[k] = IF k \in at + 1 .. at + Len(blocks) THEN blocks[k - at] ELSE old[k]
           /\ Len(written) \in Nat /\ Len(written) >= Len(old)
           /\ Len(written) >= at + Len(blocks)
<1>1. /\ Len(old) \in Nat /\ \A k \in 1 .. Len(old) : old[k] \in Files
      /\ Len(blocks) \in Nat /\ \A k \in 1 .. Len(blocks) : blocks[k] \in Files
      /\ at \in Nat /\ at <= Len(old)
  BY ElementOfSeq, LenProperties
<1> DEFINE n   == IF at + Len(blocks) > Len(old) THEN at + Len(blocks) ELSE Len(old)
           new == [k \in 1 .. n |->
                     IF k \in at + 1 .. at + Len(blocks) THEN blocks[k - at] ELSE old[k]]
<1>2. n \in Nat /\ n >= Len(old) /\ n >= at + Len(blocks)
  BY <1>1
<1>3. \A k \in 1 .. n : new[k] \in Files
  <2> SUFFICES ASSUME NEW k \in 1 .. n PROVE new[k] \in Files
    OBVIOUS
  <2>1. CASE k \in at + 1 .. at + Len(blocks)
    <3>1. k - at \in 1 .. Len(blocks)
      BY <1>1, <2>1
    <3> QED BY <1>1, <2>1, <3>1
  <2>2. CASE k \notin at + 1 .. at + Len(blocks)
    <3>1. k \in 1 .. Len(old)
      BY <1>1, <2>2
    <3> QED BY <1>1, <2>2, <3>1
  <2> QED BY <2>1, <2>2
<1>4. new \in Seq(Files) /\ Len(new) = n
  BY <1>2, <1>3, SeqDef
<1>5. Overwritten(old, at, blocks) = new
  BY DEF Overwritten
<1> QED BY <1>2, <1>4, <1>5

(* The next block of a file comes after the ones before it.                *)
LEMMA NextBlock ==
    ASSUME NEW f \in Files, NEW n \in Nat
    PROVE  /\ First(f, n) \in Seq(Files) /\ Len(First(f, n)) = n
           /\ <<f>> \in Seq(Files) /\ Len(<<f>>) = 1
           /\ Overwritten(First(f, n), n, <<f>>) = First(f, n + 1)
<1>1. First(f, n) \in Seq(Files) /\ Len(First(f, n)) = n
  BY SeqDef DEF First
<1>2. <<f>> \in Seq(Files) /\ Len(<<f>>) = 1 /\ <<f>>[1] = f
  OBVIOUS
<1>3. Overwritten(First(f, n), n, <<f>>) = First(f, n + 1)
  <2>1. Overwritten(First(f, n), n, <<f>>) =
            [k \in 1 .. n + 1 |-> IF k \in n + 1 .. n + 1 THEN <<f>>[k - n] ELSE First(f, n)[k]]
    BY <1>1, <1>2 DEF Overwritten
  <2>2. \A k \in 1 .. n + 1 :
            (IF k \in n + 1 .. n + 1 THEN <<f>>[k - n] ELSE First(f, n)[k]) = f
    <3> SUFFICES ASSUME NEW k \in 1 .. n + 1
                 PROVE  (IF k \in n + 1 .. n + 1 THEN <<f>>[k - n] ELSE First(f, n)[k]) = f
      OBVIOUS
    <3>1. CASE k = n + 1
      BY <1>2, <3>1
    <3>2. CASE k # n + 1
      <4>1. k \in 1 .. n
        BY <3>2
      <4> QED BY <3>2, <4>1 DEF First
    <3> QED BY <3>1, <3>2
  <2> QED BY <2>1, <2>2 DEF First
<1> QED BY <1>1, <1>2, <1>3

(* A file written to an empty content is that content.                     *)
LEMMA WrittenWhole ==
    ASSUME NEW file \in Seq(Files)
    PROVE  Overwritten(<<>>, 0, file) = file
<1>1. Len(file) \in Nat /\ DOMAIN file = 1 .. Len(file) /\ file = [k \in 1 .. Len(file) |-> file[k]]
  BY LenProperties, SeqDef
<1>2. Overwritten(<<>>, 0, file) =
          [k \in 1 .. Len(file) |-> IF k \in 1 .. Len(file) THEN file[k - 0] ELSE <<>>[k]]
  BY <1>1 DEF Overwritten
<1>3. \A k \in 1 .. Len(file) :
          (IF k \in 1 .. Len(file) THEN file[k - 0] ELSE <<>>[k]) = file[k]
  BY <1>1
<1> QED BY <1>1, <1>2, <1>3

(* What one Read returns.                                                  *)
LEMMA PrefixFields ==
    ASSUME NEW s \in Seq(Files), NEW n \in Nat
    PROVE  /\ Prefix(s, n) \in Seq(Files)
           /\ Len(Prefix(s, n)) = IF n < Len(s) THEN n ELSE Len(s)
           /\ \A k \in DOMAIN Prefix(s, n) : k \in DOMAIN s /\ Prefix(s, n)[k] = s[k]
           /\ n = Len(s) => Prefix(s, n) = s
<1> DEFINE m == IF n < Len(s) THEN n ELSE Len(s)
<1>1. Len(s) \in Nat /\ DOMAIN s = 1 .. Len(s)
  BY LenProperties
<1>2. m \in Nat /\ m <= Len(s)
  BY <1>1
<1>3. Prefix(s, n) = SubSeq(s, 1, m)
  BY DEF Prefix
<1>0. m = IF n < Len(s) THEN n ELSE Len(s)
  OBVIOUS
<1> HIDE DEF m
<1>4. /\ SubSeq(s, 1, m) \in Seq(Files) /\ Len(SubSeq(s, 1, m)) = m
      /\ \A k \in 1 .. m : SubSeq(s, 1, m)[k] = s[k]
  BY <1>1, <1>2, SubSeqProperties
<1>5. DOMAIN SubSeq(s, 1, m) = 1 .. m
  BY <1>4, LenProperties
<1>6. ASSUME n = Len(s) PROVE SubSeq(s, 1, m) = s
  BY <1>0, <1>1, <1>4, <1>6, SeqEqual
<1>7. \A k \in DOMAIN Prefix(s, n) : k \in DOMAIN s /\ Prefix(s, n)[k] = s[k]
  BY <1>1, <1>2, <1>3, <1>4, <1>5
<1> QED BY <1>0, <1>3, <1>4, <1>6, <1>7


-----------------------------------------------------------------------------
(***************************************************************************)
(* The steps.                                                              *)
(***************************************************************************)

FilesInv == DiskInv /\ AloneInv

(* A step that touches no file keeps to its path.                          *)
LEMMA NoFileTouched ==
    ASSUME DiskInv, UNCHANGED <<names, content>>
    PROVE  \A r, w : KeepsToItsPath(r, w)
BY DEF DiskInv, TypeOK, KeepsToItsPath

(* The end of a request.                                                   *)
LEMMA EndKeeps ==
    ASSUME FilesInv, NEW r \in Requests, Running(r), NEW code \in CodeRange,
           work' = [work EXCEPT ![r] = Ended(@, code)],
           UNCHANGED <<names, content, alone>>,
           stored' \in [Certs -> Content \cup {NoFile}],
           open' \subseteq Requests \X {"write", "read"},
           code = 200 /\ Op(r) = "download" /\ alone[r] =>
               work[r].data = work[r].hand /\ work[r].size = Len(work[r].hand)
    PROVE  FilesInv'
<1> DEFINE w == Ended(work[r], code)
<1>1. DiskInv /\ work[r] \in HandlerSet /\ work[r].job # NoJob
  BY HandlerRecord, HandlerFields DEF FilesInv, Running
<1>2. /\ w \in HandlerSet /\ w.pc = "done" /\ w.code = code
      /\ w.wr = NoInode /\ w.rd = NoInode /\ w.copied = 0
      /\ w.job = work[r].job /\ w.data = work[r].data /\ w.hand = work[r].hand
      /\ w.size = work[r].size
  <2>1. "done" \in PCRange /\ NoInode \in InodeRange /\ 0 \in Nat
    BY DEF PCRange, InodeRange
  <2> QED BY <1>1, <2>1 DEF HandlerSet, Ended
<1>3. work' = [work EXCEPT ![r] = w]
  OBVIOUS
<1> HIDE DEF w
<1>4. Steps(r, w)
  BY <1>1, <1>2, <1>3, HandlerRecord DEF Steps, ShapeOK, Before
<1>5. KeepsToItsPath(r, w)
  BY <1>1, NoFileTouched
<1>6. work'[r] = w
  BY <1>1, <1>4, StepEffect
<1>7. DiskInv'
  BY <1>1, <1>2, <1>4, <1>5, <1>6, StepKeepsDisk DEF UploadOK
<1>8. alone[r] => Progress(r)'
  BY <1>2, <1>6 DEF Progress, Op
<1>9. AloneInv'
  BY <1>1, <1>4, <1>5, <1>8, StepKeepsAlone DEF FilesInv
<1> QED BY <1>7, <1>9 DEF FilesInv

(* A query that answers.                                                   *)
LEMMA QueryKeeps ==
    ASSUME FilesInv, NEW r \in Requests, work[r].pc = "query", stored[Cert(r)] # NoFile,
           work' = [work EXCEPT ![r].pc = "remove", ![r].hand = stored[Cert(r)]],
           UNCHANGED <<stored, names, content, open, alone>>
    PROVE  FilesInv'
<1> DEFINE w == [work[r] EXCEPT !.pc = "remove", !.hand = stored[Cert(r)]]
<1>1. DiskInv /\ work[r] \in HandlerSet /\ work[r].job # NoJob /\ Cert(r) \in Certs
      /\ ShapeOK(work[r]) /\ TypeOK
  BY HandlerRecord, HandlerFields DEF FilesInv, DiskInv
<1>2. /\ w \in HandlerSet /\ w.pc = "remove" /\ w.code = work[r].code
      /\ w.wr = work[r].wr /\ w.rd = work[r].rd /\ w.copied = work[r].copied
      /\ w.job = work[r].job /\ w.data = work[r].data
  <2>1. "remove" \in PCRange /\ stored[Cert(r)] \in Content
    BY <1>1 DEF PCRange, TypeOK
  <2> QED BY <1>1, <2>1 DEF HandlerSet
<1>3. work' = [work EXCEPT ![r] = w]
  BY <1>1 DEF TypeOK
<1> HIDE DEF w
<1>4. Steps(r, w)
  BY <1>1, <1>2, <1>3, HandlerRecord DEF Steps, ShapeOK, Before, Running, Opened
<1>5. KeepsToItsPath(r, w)
  BY <1>1, NoFileTouched
<1>6. work'[r] = w
  BY <1>1, <1>4, StepEffect
<1>7. DiskInv'
  BY <1>1, <1>2, <1>4, <1>5, <1>6, StepKeepsDisk DEF UploadOK, TypeOK
<1>8. alone[r] => Progress(r)'
  BY <1>1, <1>2, <1>6 DEF Progress, Op, ShapeOK
<1>9. AloneInv'
  BY <1>1, <1>4, <1>5, <1>8, StepKeepsAlone DEF FilesInv
<1> QED BY <1>7, <1>9 DEF FilesInv

(* The removal before a file is written.                                   *)
LEMMA RemoveKeeps ==
    ASSUME FilesInv, NEW r \in Requests, Remove(r)
    PROVE  FilesInv'
<1> DEFINE w == [work[r] EXCEPT !.pc = "open"]
<1>1. DiskInv /\ work[r] \in HandlerSet /\ work[r].job # NoJob /\ Path(r) \in Paths
      /\ ShapeOK(work[r]) /\ TypeOK /\ work[r].pc = "remove"
  BY HandlerRecord, HandlerFields DEF FilesInv, DiskInv, Remove
<1>2. /\ w \in HandlerSet /\ w.pc = "open" /\ w.code = work[r].code
      /\ w.wr = work[r].wr /\ w.rd = work[r].rd /\ w.copied = work[r].copied
      /\ w.job = work[r].job /\ w.data = work[r].data
  <2>1. "open" \in PCRange
    BY DEF PCRange
  <2> QED BY <1>1, <2>1 DEF HandlerSet
<1>3. work' = [work EXCEPT ![r] = w]
  BY <1>1 DEF TypeOK, Remove, Goes
<1> HIDE DEF w
<1>4. Steps(r, w)
  BY <1>1, <1>2, <1>3, HandlerRecord DEF Steps, ShapeOK, Before, Running, Opened, Remove
<1>5. names'[Path(r)] = NoInode /\ KeepsToItsPath(r, w)
  BY <1>1 DEF KeepsToItsPath, TypeOK, Remove
<1>6. work'[r] = w /\ Path(r)' = Path(r)
  BY <1>1, <1>4, StepEffect
<1>7. DiskInv'
  BY <1>1, <1>2, <1>4, <1>5, <1>6, StepKeepsDisk DEF UploadOK, TypeOK, Remove
<1>8. alone[r] => Progress(r)'
  BY <1>1, <1>2, <1>5, <1>6 DEF Progress, Op, ShapeOK
<1>9. AloneInv'
  BY <1>1, <1>4, <1>5, <1>8, StepKeepsAlone DEF FilesInv
<1> QED BY <1>7, <1>9 DEF FilesInv

(* Opening for writing: an inode of the path, or a new one.                *)
LEMMA OpenWriteKeeps ==
    ASSUME FilesInv, NEW r \in Requests, OpenWrite(r)
    PROVE  FilesInv'
<1> DEFINE inode == IF names[Path(r)] = NoInode THEN r ELSE names[Path(r)]
           w     == [work[r] EXCEPT !.pc = "copy", !.wr = inode]
<1>1. DiskInv /\ work[r] \in HandlerSet /\ work[r].job # NoJob /\ Path(r) \in Paths
      /\ ShapeOK(work[r]) /\ TypeOK /\ work[r].pc = "open" /\ Op(r) \in {"upload", "download"}
  BY HandlerRecord, HandlerFields DEF FilesInv, DiskInv, OpenWrite
<1>2. inode \in Inodes /\ inode # NoInode /\ content[r] = <<>>
      /\ (Belongs(inode, Path(r)) \/ inode = r)
  <2>1. r \in Inodes /\ NoInode \notin Inodes
    BY FilesAssumption DEF Inodes
  <2>2. names[Path(r)] \in Inodes \cup {NoInode}
    BY <1>1 DEF TypeOK
  <2>3. names[Path(r)] # NoInode => Belongs(names[Path(r)], Path(r))
    BY <1>1 DEF DiskInv, PathsOK
  <2>4. content[r] = <<>>
    BY <1>1 DEF DiskInv, ContentOK, Opened, Before
  <2> QED BY <2>1, <2>2, <2>3, <2>4
<1>3. /\ names' = [names EXCEPT ![Path(r)] = inode]
      /\ content' = IF Op(r) = "download" THEN [content EXCEPT ![inode] = <<>>] ELSE content
      /\ work' = [work EXCEPT ![r] = w]
      /\ open' = open \cup {<<r, "write">>} /\ UNCHANGED <<stored, alone>>
  BY <1>1 DEF OpenWrite, TypeOK
<1> HIDE DEF inode
<1>4. /\ w \in HandlerSet /\ w.pc = "copy" /\ w.code = work[r].code
      /\ w.wr = inode /\ w.rd = work[r].rd /\ w.copied = work[r].copied
      /\ w.job = work[r].job /\ w.data = work[r].data
  <2>1. "copy" \in PCRange /\ inode \in InodeRange
    BY <1>2 DEF PCRange, InodeRange
  <2> QED BY <1>1, <2>1 DEF HandlerSet
<1> HIDE DEF w
<1>5. /\ names' \in [Paths -> Inodes \cup {NoInode}] /\ names'[Path(r)] = inode
      /\ \A p \in Paths \ {Path(r)} : names'[p] = names[p]
  BY <1>1, <1>2, <1>3 DEF TypeOK
<1>6. /\ content' \in [Inodes -> Content]
      /\ \A i \in Inodes \ {inode} : content'[i] = content[i]
      /\ content'[inode] = IF Op(r) = "download" THEN <<>> ELSE content[inode]
  <2>1. <<>> \in Content
    BY DEF Content
  <2> QED BY <1>1, <1>2, <1>3, <2>1 DEF TypeOK
<1>7. Steps(r, w)
  BY <1>1, <1>2, <1>3, <1>4, <1>5, HandlerRecord DEF Steps, ShapeOK, Before, Running, Opened
<1>8. KeepsToItsPath(r, w)
  BY <1>1, <1>2, <1>4, <1>5, <1>6 DEF KeepsToItsPath, Inodes, Before, inode
<1>9. work'[r] = w /\ Path(r)' = Path(r) /\ Op(r)' = Op(r)
  BY <1>1, <1>7, StepEffect
<1>10. UploadOK(r)'
  <2>1. content'[inode] \in Seq(Files)
    BY <1>2, <1>6 DEF Content
  <2>2. Len(content'[inode]) \in Nat /\ w.copied = 0
    BY <1>1, <1>4, <2>1, LenProperties DEF ShapeOK, Before
  <2> QED BY <1>4, <1>9, <2>2 DEF UploadOK
<1>11. DiskInv'
  BY <1>1, <1>3, <1>7, <1>8, <1>10, StepKeepsDisk DEF TypeOK
<1>12. ASSUME alone[r] PROVE Progress(r)'
  <2>1. names[Path(r)] = NoInode
    BY <1>1, <1>12 DEF FilesInv, AloneInv, Progress
  <2>2. inode = r /\ content'[r] = <<>>
    BY <1>2, <1>6, <2>1 DEF inode
  <2>3. Op(r) = "upload" => work[r].job.file \in Files
    BY <1>1, HandlerFields
  <2>4. Op(r) = "upload" => Blocks[work[r].job.file] \in Nat /\ First(work[r].job.file, 0) = <<>>
    BY <2>3, FilesAssumption DEF First
  <2>5. w.copied = 0 /\ w.code = 0
    BY <1>1, <1>4 DEF ShapeOK, Before
  <2> QED BY <1>4, <1>5, <1>9, <2>2, <2>4, <2>5 DEF Progress
<1>13. AloneInv'
  BY <1>1, <1>7, <1>8, <1>12, StepKeepsAlone DEF FilesInv
<1> QED BY <1>11, <1>13 DEF FilesInv


(* Reading and answering do not touch what requests have written.          *)
LEMMA QuietKeeps ==
    ASSUME FilesInv, NEW r \in Requests, NEW w, Steps(r, w),
           UNCHANGED <<stored, names, content>>,
           open' \subseteq Requests \X {"write", "read"},
           UploadOK(r)',
           alone[r] => Progress(r)'
    PROVE  FilesInv'
<1>1. DiskInv /\ KeepsToItsPath(r, w)
  BY NoFileTouched DEF FilesInv
<1>2. stored' \in [Certs -> Content \cup {NoFile}]
  BY <1>1 DEF DiskInv, TypeOK
<1>3. DiskInv'
  BY <1>1, <1>2, StepKeepsDisk
<1>4. AloneInv'
  BY <1>1, StepKeepsAlone DEF FilesInv
<1> QED BY <1>3, <1>4 DEF FilesInv

(* io.Copy of an upload.                                                   *)
LEMMA CopyBlockKeeps ==
    ASSUME FilesInv, NEW r \in Requests, CopyBlock(r)
    PROVE  FilesInv'
<1> DEFINE f == work[r].job.file
           i == work[r].wr
           n == work[r].copied
<1>1. DiskInv /\ work[r] \in HandlerSet /\ work[r].job # NoJob /\ Path(r) \in Paths
      /\ ShapeOK(work[r]) /\ TypeOK /\ work[r].pc = "copy" /\ Op(r) = "upload" /\ f \in Files
      /\ n \in Nat /\ UNCHANGED <<stored, names, open, alone>>
  BY HandlerRecord, HandlerFields DEF FilesInv, DiskInv, CopyBlock
<1>2. Blocks[f] \in Nat /\ n <= Len(content[i]) /\ Belongs(i, Path(r)) /\ i \in Inodes
      /\ content[i] \in Seq(Files)
  <2>1. i # NoInode /\ n <= Len(content[i])
    BY <1>1 DEF DiskInv, TypeOK, UploadOK
  <2>2. Belongs(i, Path(r))
    BY <1>1, <2>1 DEF DiskInv, InodesOK
  <2> QED BY <1>1, <2>1, <2>2, FilesAssumption DEF Belongs, TypeOK, Content
<1>3. CASE n < Blocks[f]
  <2> DEFINE w   == [work[r] EXCEPT !.copied = n + 1]
             new == Overwritten(content[i], n, <<f>>)
  <2>1. content' = [content EXCEPT ![i] = new] /\ work' = [work EXCEPT ![r] = w]
    BY <1>1, <1>3 DEF CopyBlock, TypeOK, HandlerSet
  <2>2. /\ w \in HandlerSet /\ w.pc = "copy" /\ w.code = work[r].code /\ w.wr = i
        /\ w.rd = work[r].rd /\ w.copied = n + 1 /\ w.job = work[r].job /\ w.data = work[r].data
    BY <1>1 DEF HandlerSet
  <2> HIDE DEF w
  <2>3. /\ new \in Seq(Files) /\ Len(new) \in Nat /\ Len(new) >= Len(content[i])
        /\ Len(new) >= n + 1
        /\ \A k \in 1 .. Len(new) :
              new[k] = IF k \in n + 1 .. n + 1 THEN <<f>>[k - n] ELSE content[i][k]
        /\ Len(new) = IF n + 1 > Len(content[i]) THEN n + 1 ELSE Len(content[i])
    <3>1. PICK blocks \in Seq(Files) : blocks = <<f>> /\ Len(blocks) = 1
      BY <1>1, NextBlock
    <3>2. n \in 0 .. Len(content[i])
      BY <1>1, <1>2, LenProperties
    <3>3. new = Overwritten(content[i], n, blocks)
      BY <3>1
    <3> HIDE DEF new
    <3>4. blocks \in Seq(Files) /\ content[i] \in Seq(Files)
      BY <1>2, <3>1
    <3>5. new \in Seq(Files) /\ Len(new) \in Nat
      BY <3>2, <3>3, <3>4, OverwrittenFields
    <3>6. Len(new) >= Len(content[i]) /\ Len(new) >= n + Len(blocks)
      BY <3>2, <3>3, <3>4, OverwrittenFields
    <3>7. \A k \in 1 .. Len(new) :
             new[k] = IF k \in n + 1 .. n + Len(blocks) THEN blocks[k - n] ELSE content[i][k]
      BY <3>2, <3>3, <3>4, OverwrittenFields
    <3>8. Len(new) = IF n + Len(blocks) > Len(content[i]) THEN n + Len(blocks)
                     ELSE Len(content[i])
      BY <3>2, <3>3, <3>4, OverwrittenFields
    <3> QED BY <3>1, <3>5, <3>6, <3>7, <3>8
  <2> HIDE DEF new
  <2>4. OwnBlocks(new, Cert(r))
    <3>1. OwnBlocks(content[i], Cert(r))
      <4>1. work[i].job # NoJob /\ Path(i) = Path(r) /\ i \in Requests
        BY <1>1, <1>2, HandlerFields DEF Belongs, Opened, Before, Inodes
      <4>2. Op(i) = "upload" /\ Cert(i) = Cert(r)
        BY <1>1, <4>1 DEF Path
      <4> QED BY <1>1, <4>1, <4>2 DEF DiskInv, ContentOK
    <3>2. Uploads(r, Cert(r), f)
      BY <1>1 DEF Uploads
    <3> SUFFICES ASSUME NEW k \in DOMAIN new
                 PROVE  k <= Blocks[new[k]] /\ \E q \in Requests : Uploads(q, Cert(r), new[k])
      BY DEF OwnBlocks
    <3>3. k \in 1 .. Len(new)
      BY <2>3, LenProperties
    <3>4. CASE k = n + 1
      <4>1. new[k] = f
        <5>1. new[k] = <<f>>[k - n] /\ k - n = 1
          BY <1>1, <2>3, <3>3, <3>4
        <5> QED BY <5>1
      <4> QED BY <1>1, <1>2, <1>3, <3>2, <3>4, <4>1
    <3>5. CASE k # n + 1
      <4>1. k \in DOMAIN content[i] /\ new[k] = content[i][k]
        BY <1>1, <1>2, <2>3, <3>3, <3>5, LenProperties
      <4> QED BY <3>1, <4>1 DEF OwnBlocks
    <3> QED BY <3>4, <3>5
  <2>5. /\ content' \in [Inodes -> Content] /\ content'[i] = new
        /\ \A j \in Inodes \ {i} : content'[j] = content[j]
    BY <1>1, <1>2, <2>1, <2>3 DEF TypeOK, Content
  <2>6. Steps(r, w)
    <3>1. i # NoInode
      BY <1>1 DEF TypeOK
    <3> QED BY <1>1, <2>1, <2>2, <3>1, HandlerRecord DEF Steps, ShapeOK, Before, Running, Opened
  <2>7. KeepsToItsPath(r, w)
    BY <1>1, <1>2, <2>3, <2>4, <2>5 DEF KeepsToItsPath, TypeOK
  <2>8. work'[r] = w /\ Path(r)' = Path(r) /\ Op(r)' = Op(r)
    BY <1>1, <2>6, StepEffect
  <2>9. UploadOK(r)'
    BY <2>2, <2>3, <2>5, <2>8 DEF UploadOK
  <2>10. DiskInv'
    BY <1>1, <2>6, <2>7, <2>9, StepKeepsDisk DEF TypeOK
  <2>11. ASSUME alone[r] PROVE Progress(r)'
    <3>1. names[Path(r)] = r /\ i = r /\ content[r] = First(f, n)
      BY <1>1, <2>11 DEF FilesInv, AloneInv, Progress
    <3>2. content'[r] = First(f, n + 1)
      BY <1>1, <2>5, <3>1, NextBlock DEF new
    <3>3. n + 1 <= Blocks[f] /\ w.code = 0
      BY <1>1, <1>2, <1>3, <2>2 DEF ShapeOK
    <3>4. names'[Path(r)] = r
      BY <1>1, <3>1
    <3> QED BY <1>1, <2>2, <2>8, <3>1, <3>2, <3>3, <3>4 DEF Progress
  <2>12. AloneInv'
    BY <1>1, <2>6, <2>7, <2>11, StepKeepsAlone DEF FilesInv
  <2> QED BY <2>10, <2>12 DEF FilesInv
<1>4. CASE ~ (n < Blocks[f])
  <2> DEFINE w == [work[r] EXCEPT !.pc = "openRead"]
  <2>1. UNCHANGED content /\ work' = [work EXCEPT ![r] = w]
    BY <1>1, <1>4 DEF CopyBlock, TypeOK, Goes
  <2>2. /\ w \in HandlerSet /\ w.pc = "openRead" /\ w.code = work[r].code /\ w.wr = i
        /\ w.rd = work[r].rd /\ w.copied = n /\ w.job = work[r].job /\ w.data = work[r].data
    BY <1>1 DEF HandlerSet, PCRange
  <2> HIDE DEF w
  <2>3. Steps(r, w)
    BY <1>1, <2>1, <2>2, HandlerRecord DEF Steps, ShapeOK, Before, Running, Opened
  <2>4. work'[r] = w /\ Path(r)' = Path(r) /\ Op(r)' = Op(r)
    BY <1>1, <2>3, StepEffect
  <2>5. UploadOK(r)'
    BY <2>2, <2>4 DEF UploadOK
  <2>6. ASSUME alone[r] PROVE Progress(r)'
    <3>1. names[Path(r)] = r /\ content[r] = First(f, n) /\ n <= Blocks[f]
      BY <1>1, <2>6 DEF FilesInv, AloneInv, Progress
    <3>2. n = Blocks[f]
      BY <1>1, <1>2, <1>4, <3>1
    <3>3. content'[r] = Given(r)'
      <4>1. Given(r)' = Whole(f)
        BY <1>1, <2>2, <2>4 DEF Given
      <4> QED BY <2>1, <3>1, <3>2, <4>1 DEF Whole, First
    <3>4. names'[Path(r)] = r /\ w.code = 0
      BY <1>1, <2>2, <3>1 DEF ShapeOK
    <3> QED BY <2>2, <2>4, <3>3, <3>4 DEF Progress
  <2> QED BY <1>1, <2>1, <2>3, <2>5, <2>6, QuietKeeps DEF TypeOK
<1> QED BY <1>3, <1>4


(* The one Write of a download.                                            *)
LEMMA WriteFileKeeps ==
    ASSUME FilesInv, NEW r \in Requests, WriteFile(r)
    PROVE  FilesInv'
<1> DEFINE i    == work[r].wr
           hand == work[r].hand
           new  == Overwritten(content[i], 0, hand)
           w    == [work[r] EXCEPT !.pc = "openRead"]
<1>1. DiskInv /\ work[r] \in HandlerSet /\ work[r].job # NoJob /\ Path(r) \in Paths
      /\ ShapeOK(work[r]) /\ TypeOK /\ work[r].pc = "copy" /\ Op(r) = "download"
      /\ hand \in Seq(Files) /\ UNCHANGED <<stored, names, open, alone>>
  BY HandlerRecord, HandlerFields DEF FilesInv, DiskInv, WriteFile
<1>2. Belongs(i, Path(r)) /\ i \in Inodes /\ content[i] \in Seq(Files)
  <2>1. i # NoInode
    BY <1>1 DEF TypeOK
  <2>2. Belongs(i, Path(r))
    BY <1>1, <2>1 DEF DiskInv, InodesOK
  <2> QED BY <1>1, <2>2 DEF Belongs, TypeOK, Content
<1>3. content' = [content EXCEPT ![i] = new] /\ work' = [work EXCEPT ![r] = w]
  BY <1>1 DEF WriteFile, TypeOK, Goes
<1>4. /\ w \in HandlerSet /\ w.pc = "openRead" /\ w.code = work[r].code /\ w.wr = i
      /\ w.rd = work[r].rd /\ w.copied = work[r].copied /\ w.job = work[r].job
      /\ w.data = work[r].data /\ w.hand = hand
  BY <1>1 DEF HandlerSet, PCRange
<1> HIDE DEF w
<1>5. new \in Seq(Files)
  <2>1. 0 \in 0 .. Len(content[i])
    BY <1>2, LenProperties
  <2> QED BY <1>1, <1>2, <2>1, OverwrittenFields
<1>6. content[i] = <<>> => new = hand
  BY <1>1, WrittenWhole
<1> HIDE DEF new
<1>7. /\ content' \in [Inodes -> Content] /\ content'[i] = new
      /\ \A j \in Inodes \ {i} : content'[j] = content[j]
  BY <1>1, <1>2, <1>3, <1>5 DEF TypeOK, Content
<1>8. Steps(r, w)
  BY <1>1, <1>3, <1>4, HandlerRecord DEF Steps, ShapeOK, Before, Running, Opened
<1>9. KeepsToItsPath(r, w)
  BY <1>1, <1>2, <1>7 DEF KeepsToItsPath, TypeOK
<1>10. work'[r] = w /\ Path(r)' = Path(r) /\ Op(r)' = Op(r)
  BY <1>1, <1>8, StepEffect
<1>11. UploadOK(r)'
  BY <1>4, <1>10 DEF UploadOK
<1>12. DiskInv'
  BY <1>1, <1>8, <1>9, <1>11, StepKeepsDisk DEF TypeOK
<1>13. ASSUME alone[r] PROVE Progress(r)'
  <2>1. names[Path(r)] = r /\ i = r /\ content[r] = <<>>
    BY <1>1, <1>13 DEF FilesInv, AloneInv, Progress
  <2>2. content'[r] = hand /\ Given(r)' = hand
    BY <1>1, <1>4, <1>6, <1>7, <1>10, <2>1 DEF Given
  <2>3. names'[Path(r)] = r /\ w.code = 0
    BY <1>1, <1>4, <2>1 DEF ShapeOK
  <2> QED BY <1>4, <1>10, <2>2, <2>3 DEF Progress
<1>14. AloneInv'
  BY <1>1, <1>8, <1>9, <1>13, StepKeepsAlone DEF FilesInv
<1> QED BY <1>12, <1>14 DEF FilesInv

(* Opening for reading: whatever file has the name now.                    *)
LEMMA OpenReadKeeps ==
    ASSUME FilesInv, NEW r \in Requests, OpenRead(r)
    PROVE  FilesInv'
<1> DEFINE w == [work[r] EXCEPT !.pc = "stat", !.rd = names[Path(r)]]
<1>1. DiskInv /\ work[r] \in HandlerSet /\ work[r].job # NoJob /\ Path(r) \in Paths
      /\ ShapeOK(work[r]) /\ TypeOK /\ work[r].pc = "openRead"
      /\ names[Path(r)] # NoInode /\ UNCHANGED <<stored, names, content, alone>>
  BY HandlerRecord, HandlerFields DEF FilesInv, DiskInv, OpenRead
<1>2. /\ w \in HandlerSet /\ w.pc = "stat" /\ w.code = work[r].code /\ w.wr = work[r].wr
      /\ w.rd = names[Path(r)] /\ w.copied = work[r].copied /\ w.job = work[r].job
      /\ w.data = work[r].data /\ w.hand = work[r].hand
  <2>1. names[Path(r)] \in InodeRange /\ "stat" \in PCRange
    BY <1>1 DEF TypeOK, InodeRange, PCRange
  <2> QED BY <1>1, <2>1 DEF HandlerSet
<1>3. work' = [work EXCEPT ![r] = w] /\ open' = open \cup {<<r, "read">>}
  BY <1>1 DEF OpenRead, TypeOK
<1> HIDE DEF w
<1>4. Steps(r, w)
  BY <1>1, <1>2, <1>3, HandlerRecord DEF Steps, ShapeOK, Before, Running, Opened
<1>5. work'[r] = w /\ Path(r)' = Path(r) /\ Op(r)' = Op(r)
  BY <1>1, <1>4, StepEffect
<1>6. UploadOK(r)'
  BY <1>2, <1>5 DEF UploadOK
<1>7. ASSUME alone[r] PROVE Progress(r)'
  <2>1. names[Path(r)] = r /\ content[r] = Given(r)
    BY <1>1, <1>7 DEF FilesInv, AloneInv, Progress
  <2>2. content'[r] = Given(r)' /\ names'[Path(r)] = r /\ w.code = 0
    BY <1>1, <1>2, <1>5, <2>1 DEF Given, ShapeOK
  <2> QED BY <1>2, <1>5, <2>1, <2>2 DEF Progress
<1>8. open' \subseteq Requests \X {"write", "read"}
  BY <1>1, <1>3 DEF TypeOK
<1> QED BY <1>1, <1>4, <1>6, <1>7, <1>8, QuietKeeps

(* The size is that of the file that has the name when Stat is called.     *)
LEMMA StatKeeps ==
    ASSUME FilesInv, NEW r \in Requests, Stat(r)
    PROVE  FilesInv'
<1> DEFINE n  == Len(content[names[Path(r)]])
           pc == IF Op(r) = "upload" THEN "read" ELSE "send"
           w  == [work[r] EXCEPT !.size = n, !.pc = pc]
<1>1. DiskInv /\ work[r] \in HandlerSet /\ work[r].job # NoJob /\ Path(r) \in Paths
      /\ Op(r) \in {"upload", "download"}
      /\ ShapeOK(work[r]) /\ TypeOK /\ work[r].pc = "stat"
      /\ names[Path(r)] # NoInode /\ UNCHANGED <<stored, names, content, alone>>
  BY HandlerRecord, HandlerFields DEF FilesInv, DiskInv, Stat
<1>2. n \in Nat
  <2>1. content[names[Path(r)]] \in Seq(Files)
    BY <1>1 DEF TypeOK, Content
  <2> QED BY <2>1, LenProperties
<1>3. work' = [work EXCEPT ![r] = w] /\ open' \subseteq open
  BY <1>1 DEF Stat, TypeOK
<1> HIDE DEF n
<1>4. pc \in PCRange /\ pc \in {"read", "send"} /\ (pc = "read" <=> Op(r) = "upload")
  BY DEF PCRange
<1> HIDE DEF pc
<1>5. /\ w \in HandlerSet /\ w.pc = pc /\ w.code = work[r].code /\ w.wr = work[r].wr
      /\ w.rd = work[r].rd /\ w.copied = work[r].copied /\ w.job = work[r].job
      /\ w.data = work[r].data /\ w.hand = work[r].hand /\ w.size = n
  BY <1>1, <1>2, <1>4 DEF HandlerSet
<1> HIDE DEF w
<1>6. Steps(r, w)
  <2>1. work[r].rd # NoInode
    BY <1>1 DEF TypeOK
  <2>2. ShapeOK(w)
    BY <1>1, <1>4, <1>5 DEF ShapeOK, Before, Op
  <2> QED BY <1>1, <1>3, <1>4, <1>5, <2>1, <2>2, HandlerRecord DEF Steps, Before, Running
<1>7. work'[r] = w /\ Path(r)' = Path(r) /\ Op(r)' = Op(r)
  BY <1>1, <1>6, StepEffect
<1>8. UploadOK(r)'
  BY <1>4, <1>5, <1>7 DEF UploadOK
<1>9. ASSUME alone[r] PROVE Progress(r)'
  <2>1. names[Path(r)] = r /\ content[r] = Given(r) /\ work[r].rd = r
    BY <1>1, <1>9 DEF FilesInv, AloneInv, Progress
  <2>2. content'[r] = Given(r)' /\ w.code = 0 /\ n = Len(Given(r)') /\ w.data = <<>>
    BY <1>1, <1>5, <1>7, <2>1 DEF Given, ShapeOK, n
  <2>3. Len(w.data) = 0 /\ DOMAIN w.data = {} /\ n >= 0
    BY <1>2, <2>2
  <2> QED BY <1>4, <1>5, <1>7, <2>1, <2>2, <2>3 DEF Progress
<1>10. open' \subseteq Requests \X {"write", "read"}
  BY <1>1, <1>3 DEF TypeOK
<1> QED BY <1>1, <1>6, <1>8, <1>9, <1>10, QuietKeeps


(* The end of a request that has stored nothing.                           *)
LEMMA EndsKeeps ==
    ASSUME FilesInv, NEW r \in Requests, Running(r), NEW code \in CodeRange, NEW leaked,
           Ends(r, code, leaked), UNCHANGED <<stored, names, content, alone>>,
           code = 200 /\ Op(r) = "download" /\ alone[r] =>
               work[r].data = work[r].hand /\ work[r].size = Len(work[r].hand)
    PROVE  FilesInv'
<1>1. work' = [work EXCEPT ![r] = Ended(@, code)] /\ open' \subseteq open
  BY DEF Ends
<1>2. open' \subseteq Requests \X {"write", "read"} /\ stored' \in [Certs -> Content \cup {NoFile}]
  BY <1>1 DEF FilesInv, DiskInv, TypeOK
<1> QED BY <1>1, <1>2, EndKeeps

(* Reading the file of an upload back.                                     *)
LEMMA ReadBackKeeps ==
    ASSUME FilesInv, NEW r \in Requests, ReadBack(r)
    PROVE  FilesInv'
<1> DEFINE i   == work[r].rd
           buf == Prefix(content[i], work[r].size)
           w   == [work[r] EXCEPT !.pc = "execute", !.data = buf]
<1>1. DiskInv /\ work[r] \in HandlerSet /\ work[r].job # NoJob /\ Path(r) \in Paths
      /\ ShapeOK(work[r]) /\ TypeOK /\ work[r].pc = "read" /\ Op(r) = "upload"
      /\ work[r].size \in Nat /\ UNCHANGED <<stored, names, content, alone>>
      /\ work[r].job.file \in Files
  <2>1. DiskInv /\ ShapeOK(work[r]) /\ work[r].pc = "read"
    BY DEF FilesInv, DiskInv, ReadBack
  <2> QED BY <2>1, HandlerRecord, HandlerFields DEF DiskInv, ReadBack, ShapeOK, Op
<1>2. Belongs(i, Path(r)) /\ i \in Inodes /\ content[i] \in Seq(Files)
  <2>1. i # NoInode
    BY <1>1 DEF TypeOK
  <2>2. Belongs(i, Path(r))
    BY <1>1, <2>1 DEF DiskInv, InodesOK
  <2> QED BY <1>1, <2>2 DEF Belongs, TypeOK, Content
<1>3. CASE \E code \in {400, 501} : Ends(r, code, {})
  BY <1>1, <1>3, EndsKeeps DEF Running, CodeRange
<1>4. CASE IsPdf(buf) /\ work' = [work EXCEPT ![r].pc = "execute", ![r].data = buf]
           /\ UNCHANGED open
  <2>1. work' = [work EXCEPT ![r] = w]
    BY <1>1, <1>4 DEF TypeOK
  <2>2. buf \in Seq(Files) /\ \A k \in DOMAIN buf : k \in DOMAIN content[i] /\ buf[k] = content[i][k]
    BY <1>1, <1>2, PrefixFields
  <2>3. work[r].size = Len(content[i]) => buf = content[i]
    BY <1>1, <1>2, PrefixFields
  <2> HIDE DEF buf
  <2>4. /\ w \in HandlerSet /\ w.pc = "execute" /\ w.code = work[r].code /\ w.wr = work[r].wr
        /\ w.rd = work[r].rd /\ w.copied = work[r].copied /\ w.job = work[r].job
        /\ w.data = buf /\ w.hand = work[r].hand /\ w.size = work[r].size
    <3>1. "execute" \in PCRange /\ buf \in Content
      BY <2>2 DEF PCRange, Content
    <3> QED BY <1>1, <3>1 DEF HandlerSet
  <2> HIDE DEF w
  <2>5. ShapeOK(w)
    BY <1>1, <2>4 DEF ShapeOK, Before, Op
  <2>6. Steps(r, w)
    BY <1>1, <2>1, <2>4, <2>5, HandlerRecord DEF Steps, Before, Running
  <2>7. work'[r] = w /\ Path(r)' = Path(r) /\ Op(r)' = Op(r) /\ Cert(r)' = Cert(r)
    BY <1>1, <2>6, StepEffect
  <2>8. OwnBlocks(buf, Cert(r))
    <3>1. work[i].job # NoJob /\ Path(i) = Path(r) /\ i \in Requests
      BY <1>1, <1>2, HandlerFields DEF Belongs, Opened, Before, Inodes
    <3>2. Op(i) = "upload" /\ Cert(i) = Cert(r)
      BY <1>1, <3>1 DEF Path
    <3>3. OwnBlocks(content[i], Cert(r))
      BY <1>1, <3>1, <3>2 DEF DiskInv, ContentOK
    <3> QED BY <2>2, <3>3 DEF OwnBlocks
  <2>9. UploadOK(r)'
    <3>1. PICK file, c : file = buf /\ c = Cert(r)
      OBVIOUS
    <3>2. OwnBlocks(file, c)'
      BY <1>1, <2>6, <2>8, <3>1, StepEffect, OwnersStay
    <3>3. w.data = file /\ Cert(r)' = c /\ IsPdf(file)
      BY <1>4, <2>4, <2>7, <3>1
    <3> QED BY <2>4, <2>7, <3>2, <3>3 DEF UploadOK, OwnBlocks, IsPdf
  <2>10. ASSUME alone[r] PROVE Progress(r)'
    <3>1. content[r] = Given(r) /\ i = r /\ work[r].size = Len(Given(r))
      BY <1>1, <2>10 DEF FilesInv, AloneInv, Progress
    <3>2. w.data = Given(r)' /\ w.code = 0
      BY <1>1, <2>3, <2>4, <2>7, <3>1 DEF Given, ShapeOK
    <3> QED BY <2>4, <2>7, <3>2 DEF Progress
  <2>11. open' \subseteq Requests \X {"write", "read"}
    BY <1>1, <1>4 DEF TypeOK
  <2> QED BY <1>1, <2>6, <2>9, <2>10, <2>11, QuietKeeps
<1> QED BY <1>3, <1>4 DEF ReadBack

(* The file of an upload is stored, or not.                                *)
LEMMA ExecuteKeeps ==
    ASSUME FilesInv, NEW r \in Requests, Execute(r)
    PROVE  FilesInv'
<1>1. DiskInv /\ TypeOK /\ work[r].pc = "execute" /\ Op(r) = "upload" /\ work[r].data \in Content
      /\ Cert(r) \in Certs /\ Running(r) /\ UNCHANGED <<names, content, alone>>
  <2>1. DiskInv /\ TypeOK /\ ShapeOK(work[r]) /\ work[r].pc = "execute"
    BY DEF FilesInv, DiskInv, Execute
  <2> QED BY <2>1, HandlerFields DEF DiskInv, Execute, ShapeOK, Op, Content, Running
<1>2. PICK code \in {200, 501} :
          /\ Ends(r, code, {})
          /\ stored' = [stored EXCEPT ![Cert(r)] = work[r].data] \/ UNCHANGED stored
  BY DEF Execute
<1>3. PICK end \in CodeRange :
          /\ work' = [work EXCEPT ![r] = Ended(@, end)]
          /\ end = 200 /\ Op(r) = "download" /\ alone[r] =>
                 work[r].data = work[r].hand /\ work[r].size = Len(work[r].hand)
  <2>1. code \in CodeRange
    BY <1>2 DEF CodeRange
  <2>2. work' = [work EXCEPT ![r] = Ended(@, code)]
    BY <1>2 DEF Ends
  <2>3. code = 200 /\ Op(r) = "download" /\ alone[r] =>
            work[r].data = work[r].hand /\ work[r].size = Len(work[r].hand)
    BY <1>1
  <2> QED BY <2>1, <2>2, <2>3
<1>4. /\ FilesInv /\ Running(r) /\ UNCHANGED <<names, content, alone>>
      /\ stored' \in [Certs -> Content \cup {NoFile}]
      /\ open' \subseteq Requests \X {"write", "read"}
  BY <1>1, <1>2 DEF TypeOK, Ends
<1> QED BY <1>3, <1>4, EndKeeps

(* Sending a download.                                                     *)
LEMMA SendBlockKeeps ==
    ASSUME FilesInv, NEW r \in Requests, SendBlock(r)
    PROVE  FilesInv'
<1> DEFINE i    == work[r].rd
           file == content[i]
           sent == work[r].data
           w    == [work[r] EXCEPT !.data = Append(sent, file[Len(sent) + 1])]
<1>1. DiskInv /\ work[r] \in HandlerSet /\ work[r].job # NoJob /\ Path(r) \in Paths
      /\ ShapeOK(work[r]) /\ TypeOK /\ work[r].pc = "send" /\ Op(r) = "download"
      /\ work[r].size \in Nat /\ sent \in Seq(Files)
      /\ UNCHANGED <<stored, names, content, alone>>
  <2>1. DiskInv /\ ShapeOK(work[r]) /\ work[r].pc = "send"
    BY DEF FilesInv, DiskInv, SendBlock
  <2> QED BY <2>1, HandlerRecord, HandlerFields DEF DiskInv, SendBlock, ShapeOK, Op
<1>2. i \in Inodes /\ file \in Seq(Files) /\ Len(file) \in Nat /\ Len(sent) \in Nat
  <2>1. i # NoInode
    BY <1>1 DEF TypeOK
  <2>2. Belongs(i, Path(r))
    BY <1>1, <2>1 DEF DiskInv, InodesOK
  <2>3. i \in Inodes /\ file \in Seq(Files)
    BY <1>1, <2>2 DEF Belongs, TypeOK, Content
  <2> QED BY <1>1, <2>3, LenProperties
<1>3. alone[r] =>
          /\ file = work[r].hand /\ work[r].size = Len(work[r].hand) /\ i = r
          /\ Given(r) = work[r].hand
          /\ Len(sent) <= Len(file) /\ \A k \in DOMAIN sent : sent[k] = file[k]
  BY <1>1 DEF FilesInv, AloneInv, Progress, Given
<1>4. CASE Len(sent) >= Len(file) /\ Ends(r, 200, {})
  <2>1. ASSUME alone[r] PROVE sent = work[r].hand
    <3>1. Len(sent) = Len(file) /\ DOMAIN sent = 1 .. Len(sent)
      BY <1>1, <1>2, <1>3, <1>4, <2>1, LenProperties
    <3> QED BY <1>1, <1>2, <1>3, <2>1, <3>1, SeqEqual
  <2>2. Running(r) /\ 200 \in CodeRange
    BY <1>1 DEF Running, CodeRange
  <2> QED BY <1>1, <1>3, <1>4, <2>1, <2>2, EndsKeeps
<1>5. CASE /\ Len(sent) < Len(file) /\ UNCHANGED open
           /\ work' = [work EXCEPT ![r].data = Append(sent, file[Len(sent) + 1])]
  <2> DEFINE new == Append(sent, file[Len(sent) + 1])
  <2>1. work' = [work EXCEPT ![r] = w]
    BY <1>1, <1>5 DEF TypeOK
  <2>2. /\ new \in Seq(Files) /\ Len(new) = Len(sent) + 1 /\ DOMAIN new = 1 .. Len(sent) + 1
        /\ \A k \in 1 .. Len(sent) : new[k] = sent[k]
        /\ new[Len(sent) + 1] = file[Len(sent) + 1]
    <3>1. file[Len(sent) + 1] \in Files
      BY <1>2, <1>5, ElementOfSeq
    <3>2. /\ new \in Seq(Files) /\ Len(new) = Len(sent) + 1
          /\ \A k \in 1 .. Len(sent) : new[k] = sent[k]
          /\ new[Len(sent) + 1] = file[Len(sent) + 1]
      BY <1>1, <3>1, AppendProperties
    <3>3. DOMAIN new = 1 .. Len(sent) + 1
      BY <3>2, LenProperties
    <3> QED BY <3>2, <3>3
  <2> HIDE DEF new
  <2>3. /\ w \in HandlerSet /\ w.pc = "send" /\ w.code = work[r].code /\ w.wr = work[r].wr
        /\ w.rd = work[r].rd /\ w.copied = work[r].copied /\ w.job = work[r].job
        /\ w.data = new /\ w.hand = work[r].hand /\ w.size = work[r].size
    <3>1. w = [work[r] EXCEPT !.data = new] /\ new \in Content
      BY <2>2 DEF new, Content
    <3> HIDE DEF w
    <3> QED BY <1>1, <3>1 DEF HandlerSet
  <2> HIDE DEF w
  <2>4. ShapeOK(w)
    BY <1>1, <2>3 DEF ShapeOK, Before
  <2>5. Steps(r, w)
    <3>1. work[r].rd # NoInode
      BY <1>1 DEF TypeOK
    <3> QED BY <1>1, <2>1, <2>3, <2>4, <3>1, HandlerRecord DEF Steps, Before, Running
  <2>6. work'[r] = w /\ Path(r)' = Path(r) /\ Op(r)' = Op(r)
    BY <1>1, <2>5, StepEffect
  <2>7. UploadOK(r)'
    BY <2>3, <2>6 DEF UploadOK
  <2>8. ASSUME alone[r] PROVE Progress(r)'
    <3>1. /\ Given(r)' = work[r].hand /\ content'[r] = work[r].hand
          /\ w.size = Len(work[r].hand) /\ w.rd = r /\ w.code = 0
      BY <1>1, <1>3, <2>3, <2>6, <2>8 DEF Given, ShapeOK
    <3>2. DOMAIN sent = 1 .. Len(sent)
      BY <1>1, LenProperties
    <3>3. Len(new) <= Len(work[r].hand)
      <4>1. Len(file) = Len(work[r].hand)
        BY <1>3, <2>8
      <4> QED BY <1>2, <1>5, <2>2, <4>1
    <3>4. ASSUME NEW k \in DOMAIN new PROVE new[k] = work[r].hand[k]
      <4>1. k \in 1 .. Len(sent) \/ k = Len(sent) + 1
        BY <1>2, <2>2
      <4>2. file = work[r].hand /\ \A j \in 1 .. Len(sent) : sent[j] = file[j]
        BY <1>3, <2>8, <3>2
      <4> HIDE DEF file, sent
      <4> QED BY <2>2, <4>1, <4>2
    <3> QED BY <2>3, <2>6, <3>1, <3>3, <3>4 DEF Progress
  <2>9. open' \subseteq Requests \X {"write", "read"}
    BY <1>1, <1>5 DEF TypeOK
  <2> QED BY <1>1, <2>5, <2>7, <2>8, <2>9, QuietKeeps
<1> QED BY <1>4, <1>5 DEF SendBlock

(* Calls that fail end their request.                                      *)
LEMMA FailureKeeps ==
    ASSUME FilesInv, NEW r \in Requests, SendFails(r) \/ CallFails(r)
    PROVE  FilesInv'
<1>1. Running(r) /\ UNCHANGED <<stored, names, content, alone>>
  BY DEF SendFails, CallFails, Running
<1>2. PICK code \in {400, 500, 501} : \E leaked : Ends(r, code, leaked)
  BY DEF SendFails, CallFails
<1>3. code \in CodeRange /\ code # 200
  BY DEF CodeRange
<1> QED BY <1>1, <1>2, <1>3, EndsKeeps


-----------------------------------------------------------------------------
(***************************************************************************)
(* Requests received, and the end of the server.                           *)
(***************************************************************************)

(* A handler is left as it is, is given up, or is new.                     *)
OpensNothing(q) ==
    \/ /\ work'[q].job = work[q].job
       /\ work'[q].wr \in {NoInode, work[q].wr} /\ work'[q].rd \in {NoInode, work[q].rd}
    \/ work[q].pc = "unsent" /\ work'[q].wr = NoInode /\ work'[q].rd = NoInode

(* Whose the paths, descriptors and contents are, when no file changes.    *)
LEMMA OwnersKept ==
    ASSUME DiskInv, Grows, UNCHANGED <<names, content>>,
           \A q \in Requests : OpensNothing(q)
    PROVE  PathsOK' /\ \A q \in Requests : InodesOK(q)' /\ ContentOK(q)'
<1>1. /\ \A i, p : Belongs(i, p) => BelongsNext(i, p)
      /\ \A file, c : OwnBlocks(file, c) => OwnBlocks(file, c)'
  BY OwnersStay
<1>2. PathsOK'
  <2> SUFFICES ASSUME NEW p \in Paths, names[p] # NoInode PROVE BelongsNext(names[p], p)
    BY DEF PathsOK, Belongs, BelongsNext, Opened, Path, Op, Cert
  <2> QED BY <1>1 DEF DiskInv, PathsOK
<1>3. ASSUME NEW q \in Requests PROVE InodesOK(q)'
  <2> SUFFICES ASSUME NEW i \in {work'[q].wr, work'[q].rd}, i # NoInode
               PROVE  BelongsNext(i, <<work'[q].job.op, work'[q].job.certId>>)
    BY DEF InodesOK, Belongs, BelongsNext, Opened, Path, Op, Cert
  <2>1. work'[q].job = work[q].job /\ i \in {work[q].wr, work[q].rd}
    BY DEF OpensNothing
  <2>2. Belongs(i, Path(q))
    BY <2>1 DEF DiskInv, InodesOK
  <2> QED BY <1>1, <2>1, <2>2 DEF Path, Op, Cert
<1>4. ASSUME NEW q \in Requests PROVE ContentOK(q)'
  <2>1. ContentOK(q) /\ (Opened(q) => Opened(q)')
    BY DEF DiskInv, Grows
  <2>2. ASSUME work'[q].job # NoJob, Op(q)' = "upload" PROVE OwnBlocks(content[q], Cert(q))'
    <3>1. CASE work'[q].job = work[q].job
      <4>1. PICK file, c : file = content[q] /\ c = Cert(q)
        OBVIOUS
      <4>2. OwnBlocks(file, c)'
        BY <1>1, <2>1, <2>2, <3>1, <4>1 DEF ContentOK, Op
      <4> QED BY <3>1, <4>1, <4>2 DEF OwnBlocks, Cert
    <3>2. CASE work[q].pc = "unsent"
      <4>1. content[q] = <<>>
        BY <2>1, <3>2 DEF ContentOK, Opened, Before
      <4> QED BY <4>1 DEF OwnBlocks
    <3> QED BY <3>1, <3>2 DEF OpensNothing
  <2> QED BY <2>1, <2>2 DEF ContentOK
<1> QED BY <1>2, <1>3, <1>4

(* A request is received.                                                  *)
LEMMA ReceiveKeeps ==
    ASSUME FilesInv, NEW r \in Requests, NEW job \in Jobs, Receive(r, job)
    PROVE  FilesInv'
<1> DEFINE pc == IF job.op = "upload" THEN "remove" ELSE "query"
           w  == [Unsent EXCEPT !.pc = pc, !.job = job]
<1>1. DiskInv /\ TypeOK /\ AloneInv /\ work[r].pc = "unsent" /\ work[r].job = NoJob
      /\ job.op \in {"upload", "download"} /\ job # NoJob
      /\ UNCHANGED <<stored, names, content, open>>
  <2>1. DiskInv /\ AloneInv /\ ShapeOK(work[r]) /\ work[r].pc = "unsent"
    BY DEF FilesInv, DiskInv, Receive
  <2> QED BY <2>1, JobFields DEF DiskInv, Receive, ShapeOK
<1>2. pc \in PCRange /\ pc \in {"remove", "query"} /\ (pc = "query" => job.op = "download")
  BY <1>1 DEF PCRange
<1>3. work' = [work EXCEPT ![r] = w]
  BY DEF Receive
<1> HIDE DEF pc
<1>4. /\ w \in HandlerSet /\ w.pc = pc /\ w.job = job /\ w.wr = NoInode /\ w.rd = NoInode
      /\ w.copied = 0 /\ w.code = 0 /\ w.data = <<>>
  <2>1. <<>> \in Content
    BY DEF Content
  <2> QED BY <1>2, <2>1 DEF Unsent, HandlerSet, JobRange, InodeRange, CodeRange
<1> HIDE DEF w
<1>5. /\ work' \in [Requests -> Handler] /\ work'[r] = w
      /\ \A q \in Requests \ {r} : work'[q] = work[q]
  BY <1>1, <1>3, <1>4, HandlerRecord DEF TypeOK
<1>6. Grows
  BY <1>1, <1>5 DEF Grows, Opened, Before
<1>7. PathsOK' /\ \A q \in Requests : InodesOK(q)' /\ ContentOK(q)'
  <2>1. \A q \in Requests : OpensNothing(q)
    BY <1>1, <1>4, <1>5 DEF OpensNothing
  <2> QED BY <1>1, <1>6, <2>1, OwnersKept
<1>8. \A q \in Requests : ShapeOK(work'[q])
  <2>1. ShapeOK(w)
    BY <1>1, <1>2, <1>4 DEF ShapeOK, Before
  <2> QED BY <1>1, <1>5, <2>1 DEF DiskInv
<1>9. TypeOK'
  <2>1. alone' \in [Requests -> BOOLEAN]
    BY <1>1 DEF Receive, TypeOK
  <2>2. ASSUME NEW q \in Requests
        PROVE  /\ work'[q].pc \notin {"unsent", "done"} => work'[q].job \in Jobs
               /\ work'[q].pc = "copy" => work'[q].wr # NoInode
               /\ work'[q].pc \in {"stat", "read", "send"} => work'[q].rd # NoInode
    <3>1. CASE q = r
      BY <1>2, <1>4, <1>5, <3>1
    <3>2. CASE q # r
      BY <1>1, <1>5, <3>2 DEF TypeOK
    <3> QED BY <3>1, <3>2
  <2> QED BY <1>1, <1>5, <2>1, <2>2 DEF TypeOK
<1>10. ASSUME NEW q \in Requests PROVE UploadOK(q)'
  <2>1. CASE q = r
    BY <1>2, <1>4, <1>5, <2>1 DEF UploadOK
  <2>2. CASE q # r
    <3>1. UploadOK(q) /\ work'[q] = work[q]
      BY <1>1, <1>5, <2>2 DEF DiskInv
    <3>2. work[q].pc = "execute" => OwnBlocks(work[q].data, Cert(q))'
      <4> SUFFICES ASSUME work[q].pc = "execute" PROVE OwnBlocks(work[q].data, Cert(q))'
        OBVIOUS
      <4>1. PICK file, c : file = work[q].data /\ c = Cert(q)
        OBVIOUS
      <4>2. OwnBlocks(file, c)'
        BY <1>1, <1>6, <3>1, <4>1, OwnersStay DEF UploadOK
      <4> QED BY <3>1, <4>1, <4>2 DEF OwnBlocks, Cert
    <3> QED BY <1>1, <3>1, <3>2 DEF UploadOK, Op
  <2> QED BY <2>1, <2>2
<1>11. Path(r)' = <<job.op, job.certId>> /\ \A q \in Requests \ {r} : Path(q)' = Path(q)
  BY <1>4, <1>5 DEF Path, Op, Cert
<1>12. ASSUME NEW q \in Requests, alone'[q] PROVE Undisturbed(q)' /\ Progress(q)'
  <2>1. CASE q = r
    <3>1. \A s \in Requests \ {r} : Running(s) => Path(s) # <<job.op, job.certId>>
      BY <1>12, <2>1 DEF Receive, Overlap, Path
    <3>2. Undisturbed(r)'
      BY <1>5, <1>11, <3>1 DEF Undisturbed, Running
    <3> QED BY <1>2, <1>4, <1>5, <2>1, <3>2 DEF Progress
  <2>2. CASE q # r
    <3>1. alone[q] /\ (Running(q) => Path(q) # <<job.op, job.certId>>)
      BY <1>12, <2>2 DEF Receive, Overlap, Path
    <3>2. Undisturbed(q) /\ Progress(q) /\ work'[q] = work[q]
      BY <1>1, <1>5, <2>2, <3>1 DEF AloneInv
    <3>3. Undisturbed(q)'
      BY <1>5, <1>11, <2>2, <3>1, <3>2 DEF Undisturbed, Running
    <3>4. Progress(q)'
      BY <1>1, <3>2 DEF Progress, Given, Path, Op, Cert
    <3> QED BY <3>3, <3>4
  <2> QED BY <2>1, <2>2
<1> QED BY <1>7, <1>8, <1>9, <1>10, <1>12 DEF FilesInv, DiskInv, AloneInv

(* The server is killed.                                                   *)
LEMMA CrashKeeps ==
    ASSUME FilesInv, Crash
    PROVE  FilesInv'
<1>1. DiskInv /\ TypeOK /\ AloneInv /\ UNCHANGED <<stored, names, content, alone>> /\ open' = {}
  BY DEF FilesInv, DiskInv, Crash
<1>2. ASSUME NEW q \in Requests
      PROVE  /\ work'[q] \in Handler /\ ShapeOK(work'[q])
             /\ work'[q].pc \in {"unsent", "done"} /\ work'[q].job = work[q].job
             /\ work'[q].wr \in {NoInode, work[q].wr} /\ work'[q].rd \in {NoInode, work[q].rd}
             /\ work'[q].data = work[q].data /\ work'[q].hand = work[q].hand
             /\ work'[q].size = work[q].size
             /\ work'[q].code = work[q].code /\ (Opened(q) => Opened(q)')
  <2>1. work[q] \in HandlerSet /\ work[q] \in Handler /\ ShapeOK(work[q])
    BY <1>1, HandlerRecord, HandlerFields DEF DiskInv
  <2>2. CASE Running(q)
    <3> DEFINE w == Ended(work[q], 0)
    <3>1. work'[q] = w
      BY <2>2 DEF Crash
    <3>2. /\ w \in HandlerSet /\ w.pc = "done" /\ w.code = 0
          /\ w.wr = NoInode /\ w.rd = NoInode /\ w.copied = 0
          /\ w.job = work[q].job /\ w.data = work[q].data /\ w.hand = work[q].hand
          /\ w.size = work[q].size
      <4>1. "done" \in PCRange /\ NoInode \in InodeRange /\ 0 \in Nat /\ 0 \in CodeRange
        BY DEF PCRange, InodeRange, CodeRange
      <4> QED BY <2>1, <4>1 DEF HandlerSet, Ended
    <3> HIDE DEF w
    <3>3. work[q].code = 0 /\ work[q].job # NoJob
      BY <2>1, <2>2 DEF ShapeOK, Running
    <3> QED BY <3>1, <3>2, <3>3, HandlerRecord DEF ShapeOK, Before, Opened
  <2>3. CASE ~ Running(q)
    BY <2>1, <2>3 DEF Crash, Running, Opened
  <2> QED BY <2>2, <2>3
<1>3. Grows
  BY <1>2 DEF Grows
<1>4. PathsOK' /\ \A q \in Requests : InodesOK(q)' /\ ContentOK(q)'
  BY <1>1, <1>2, <1>3, OwnersKept DEF OpensNothing
<1>5. TypeOK'
  <2>1. work' \in [Requests -> Handler]
    BY <1>2 DEF Crash
  <2> QED BY <1>1, <1>2, <2>1 DEF TypeOK
<1>6. \A q \in Requests : UploadOK(q)'
  BY <1>2 DEF UploadOK
<1>7. ASSUME NEW q \in Requests, alone[q] PROVE Undisturbed(q)' /\ Progress(q)'
  <2>1. Undisturbed(q)'
    BY <1>2 DEF Undisturbed, Running
  <2>2. Progress(q)
    BY <1>1, <1>7 DEF AloneInv
  <2>3. work'[q].code = 200 /\ Op(q)' = "download" =>
            work'[q].data = work'[q].hand /\ work'[q].size = Len(work'[q].hand)
    BY <1>2, <2>2 DEF Progress, Op
  <2>4. work'[q].pc \in {"unsent", "done"}
    BY <1>2
  <2> QED BY <2>1, <2>3, <2>4 DEF Progress
<1> QED BY <1>1, <1>2, <1>4, <1>5, <1>6, <1>7 DEF FilesInv, DiskInv, AloneInv


-----------------------------------------------------------------------------
(***************************************************************************)
(* The inductive invariant.                                                *)
(***************************************************************************)

(* The steps that serve one request.                                       *)
Serves(r) ==
    \/ \E job \in Jobs : Receive(r, job)
    \/ QueryFile(r) \/ Remove(r) \/ OpenWrite(r)
    \/ CopyBlock(r) \/ WriteFile(r)
    \/ OpenRead(r) \/ Stat(r) \/ ReadBack(r)
    \/ Execute(r)
    \/ SendBlock(r)
    \/ SendFails(r) \/ CallFails(r)

(* A step serves one request, or is the end of the server, or is none.     *)
LEMMA NextServes == [Next]_vars <=> (\E r \in Requests : Serves(r)) \/ Crash \/ UNCHANGED vars
BY DEF Next, Serves, AllDone

(* The disk and the requests at the start.                                 *)
LEMMA InitFiles == Init => FilesInv
<1> SUFFICES ASSUME Init PROVE FilesInv
  OBVIOUS
<1> DEFINE w == Unsent
<1>1. /\ w \in HandlerSet /\ w.pc = "unsent" /\ w.job = NoJob /\ w.wr = NoInode /\ w.rd = NoInode
      /\ w.copied = 0 /\ w.code = 0 /\ w.data = <<>>
  <2>1. <<>> \in Content
    BY DEF Content
  <2> QED BY <2>1 DEF Unsent, HandlerSet, PCRange, JobRange, InodeRange, CodeRange
<1>2. /\ stored = [c \in Certs |-> NoFile] /\ names = [p \in Paths |-> NoInode]
      /\ content = [i \in Inodes |-> <<>>] /\ open = {}
      /\ work = [r \in Requests |-> w] /\ alone = [r \in Requests |-> FALSE]
  BY DEF Init
<1> HIDE DEF w
<1>3. TypeOK
  <2>1. <<>> \in Content
    BY DEF Content
  <2>2. work \in [Requests -> Handler]
    BY <1>1, <1>2, HandlerRecord
  <2> QED BY <1>1, <1>2, <2>1, <2>2 DEF TypeOK
<1>4. PathsOK
  BY <1>2 DEF PathsOK
<1>5. ASSUME NEW r \in Requests
      PROVE  ShapeOK(work[r]) /\ InodesOK(r) /\ ContentOK(r) /\ UploadOK(r)
  BY <1>1, <1>2 DEF ShapeOK, InodesOK, ContentOK, UploadOK, Before, Inodes
<1> QED BY <1>2, <1>3, <1>4, <1>5 DEF FilesInv, DiskInv, AloneInv

(* A query answers, or the download ends.                                  *)
LEMMA QueryFileKeeps ==
    ASSUME FilesInv, NEW r \in Requests, QueryFile(r)
    PROVE  FilesInv'
<1>1. CASE Ends(r, 400, {})
  BY <1>1, EndsKeeps DEF QueryFile, Running, CodeRange
<1>2. CASE /\ stored[Cert(r)] # NoFile /\ UNCHANGED open
           /\ work' = [work EXCEPT ![r].pc = "remove", ![r].hand = stored[Cert(r)]]
  BY <1>2, QueryKeeps DEF QueryFile
<1> QED BY <1>1, <1>2 DEF QueryFile

(* Each step keeps the invariant.                                          *)
LEMMA NextFiles == FilesInv /\ [Next]_vars => FilesInv'
<1> SUFFICES ASSUME FilesInv, [Next]_vars PROVE FilesInv'
  OBVIOUS
<1>1. ASSUME NEW r \in Requests, Serves(r) PROVE FilesInv'
  <2>1. CASE (\E job \in Jobs : Receive(r, job)) \/ QueryFile(r) \/ Remove(r)
    BY <2>1, ReceiveKeeps, QueryFileKeeps, RemoveKeeps
  <2>2. CASE OpenWrite(r) \/ CopyBlock(r) \/ WriteFile(r)
    BY <2>2, OpenWriteKeeps, CopyBlockKeeps, WriteFileKeeps
  <2>3. CASE OpenRead(r) \/ Stat(r) \/ ReadBack(r)
    BY <2>3, OpenReadKeeps, StatKeeps, ReadBackKeeps
  <2>4. CASE Execute(r) \/ SendBlock(r) \/ SendFails(r) \/ CallFails(r)
    BY <2>4, ExecuteKeeps, SendBlockKeeps, FailureKeeps
  <2> QED BY <1>1, <2>1, <2>2, <2>3, <2>4 DEF Serves
<1>2. CASE Crash
  BY <1>2, CrashKeeps
<1>3. CASE UNCHANGED vars
  BY <1>3 DEF vars, FilesInv, DiskInv, AloneInv, TypeOK, PathsOK, InodesOK, ContentOK, UploadOK,
              Belongs, Opened, OwnBlocks, Uploads, Undisturbed, Running, Progress, Given,
              Path, Op, Cert, Handler
<1> QED BY <1>1, <1>2, <1>3, NextServes

(* The invariant of the disk and of requests that are alone.               *)
LEMMA FilesInvariant == Spec => []FilesInv
BY InitFiles, NextFiles, PTL DEF Spec

-----------------------------------------------------------------------------
(***************************************************************************)
(* Theorems.                                                               *)
(***************************************************************************)

(* Types, with the bindings of the handlers at each place.                 *)
THEOREM FileTypesHold == Spec => []TypeOK
<1>1. FilesInv => TypeOK
  BY DEF FilesInv, DiskInv
<1> QED BY <1>1, FilesInvariant, PTL

(* What UploadFile reads back and hands to the chaincode is its file, if no *)
(* other upload of the certificate overlapped with it: the removal before   *)
(* os.OpenFile makes the inode its own.                                    *)
THEOREM LoneUploadsAreWhole == Spec => []LoneUploadIsWhole
<1>1. FilesInv => LoneUploadIsWhole
  <2> SUFFICES ASSUME FilesInv, NEW r \in Requests, work[r].pc = "execute", alone[r]
               PROVE  work[r].data = Whole(work[r].job.file)
    BY DEF LoneUploadIsWhole
  <2>1. Op(r) = "upload" /\ work[r].data = Given(r)
    BY DEF FilesInv, DiskInv, ShapeOK, AloneInv, Progress, Op
  <2> QED BY <2>1 DEF Given
<1> QED BY <1>1, FilesInvariant, PTL

(* What getDownloadFile sends is what the query of DownloadFile gave, and   *)
(* Content-Length is its length, if no other download of the certificate    *)
(* overlapped with it.                                                     *)
THEOREM LoneDownloadsAreExact == Spec => []LoneDownloadIsExact
<1>1. FilesInv => LoneDownloadIsExact
  BY DEF FilesInv, AloneInv, Progress, LoneDownloadIsExact
<1> QED BY <1>1, FilesInvariant, PTL


-----------------------------------------------------------------------------
(***************************************************************************)
(* What outlives a request: its descriptors and what it stored.            *)
(***************************************************************************)

(* A descriptor that may stay open.                                        *)
Accounted(d) ==
    Running(d[1]) \/ (d[2] = "read" /\ Op(d[1]) = "download" /\ work[d[1]].code \in {400, 500})

(* A step of r leaves the descriptors of others, and each of its own is     *)
(* accounted for.                                                          *)
LocalStep(r) ==
    /\ \A q \in Requests \ {r} : work'[q] = work[q]
    /\ work[r].job # NoJob => work'[r].job = work[r].job
    /\ Opened(r) => Opened(r)'
    /\ \A d \in open' : d[1] # r => d \in open
    /\ \/ Running(r)'
       \/ \A d \in open' : d[1] = r => /\ d[2] = "read" /\ Op(r)' = "download"
                                       /\ work'[r].code \in {400, 500}

(* A step that goes on with a request is local to it.                      *)
LEMMA MovesAreLocal ==
    ASSUME NEW r \in Requests,
           \A q \in Requests \ {r} : work'[q] = work[q],
           work'[r].pc \notin {"unsent", "done"},
           work[r].job # NoJob => work'[r].job = work[r].job,
           Opened(r) => work'[r].pc \notin Before,
           open' \subseteq open \cup {<<r, "write">>, <<r, "read">>}
    PROVE  LocalStep(r)
BY DEF LocalStep, Running, Opened

(* The end of a request closes its descriptors, but for that of a download. *)
LEMMA EndsAreLocal ==
    ASSUME TypeOK, NEW r \in Requests, Running(r), NEW code, NEW leaked, Ends(r, code, leaked),
           leaked = {} \/ (leaked = {<<r, "read">>} /\ Op(r) = "download" /\ code \in {400, 500})
    PROVE  LocalStep(r)
<1> DEFINE w == Ended(work[r], code)
<1>1. work[r] \in HandlerSet
  BY HandlerRecord DEF TypeOK
<1>2. w.pc = "done" /\ w.code = code /\ w.job = work[r].job
  BY <1>1 DEF HandlerSet, Ended
<1>3. work'[r] = w /\ \A q \in Requests \ {r} : work'[q] = work[q]
  BY DEF Ends, TypeOK
<1> HIDE DEF w
<1>4. ASSUME NEW d \in open'
      PROVE  /\ d \in open
             /\ d[1] = r => /\ d[2] = "read" /\ Op(r)' = "download"
                            /\ work'[r].code \in {400, 500}
  BY <1>2, <1>3 DEF Ends, Op
<1> QED BY <1>2, <1>3, <1>4 DEF LocalStep, Opened, Before

(* Every step that serves a request is local to it.                        *)
LEMMA ServesAreLocal ==
    ASSUME FilesInv, NEW r \in Requests, Serves(r)
    PROVE  LocalStep(r)
<1>1. TypeOK /\ work[r] \in HandlerSet /\ ShapeOK(work[r]) /\ work \in [Requests -> Handler]
  BY HandlerRecord DEF FilesInv, DiskInv, TypeOK
<1>2. CASE \E job \in Jobs : Receive(r, job)
  <2>1. PICK job \in Jobs : Receive(r, job)
    BY <1>2
  <2>2. work'[r].pc \in {"remove", "query"} /\ UNCHANGED open
    BY <1>1, <2>1 DEF Receive, Unsent
  <2>3. \A q \in Requests \ {r} : work'[q] = work[q]
    BY <1>1, <2>1 DEF Receive
  <2>4. work[r].job = NoJob /\ ~ Opened(r)
    BY <1>1, <2>1 DEF Receive, ShapeOK, Opened, Before
  <2> QED BY <2>2, <2>3, <2>4, MovesAreLocal
<1>3. CASE /\ \/ Remove(r) \/ OpenWrite(r) \/ CopyBlock(r) \/ WriteFile(r) \/ OpenRead(r) \/ Stat(r)
              \/ work[r].pc = "query" /\ UNCHANGED open
                 /\ work' = [work EXCEPT ![r].pc = "remove", ![r].hand = stored[Cert(r)]]
              \/ work[r].pc = "read" /\ UNCHANGED open
                 /\ work' = [work EXCEPT ![r].pc = "execute",
                                         ![r].data = Prefix(content[work[r].rd], work[r].size)]
              \/ work[r].pc = "send" /\ UNCHANGED open
                 /\ work' = [work EXCEPT ![r].data = Append(work[r].data,
                                content[work[r].rd][Len(work[r].data) + 1])]
  <2>1. \A q \in Requests \ {r} : work'[q] = work[q]
    BY <1>1, <1>3 DEF Remove, OpenWrite, CopyBlock, WriteFile, OpenRead, Stat, Goes
  <2>2. work'[r].job = work[r].job
    BY <1>1, <1>3 DEF HandlerSet, Remove, OpenWrite, CopyBlock, WriteFile, OpenRead, Stat, Goes
  <2>3. work'[r].pc \notin {"unsent", "done"} /\ (Opened(r) => work'[r].pc \notin Before)
    BY <1>1, <1>3 DEF HandlerSet, Remove, OpenWrite, CopyBlock, WriteFile, OpenRead, Stat, Goes,
                      Opened, Before
  <2>4. open' \subseteq open \cup {<<r, "write">>, <<r, "read">>}
    BY <1>3 DEF Remove, OpenWrite, CopyBlock, WriteFile, OpenRead, Stat
  <2> QED BY <2>1, <2>2, <2>3, <2>4, MovesAreLocal
<1>4. CASE Running(r) /\ \E code : Ends(r, code, {})
  BY <1>1, <1>4, EndsAreLocal
<1>5. CASE Running(r) /\ Op(r) = "download" /\ \E code \in {400, 500} : Ends(r, code, {<<r, "read">>})
  <2>1. PICK code \in {400, 500} : Ends(r, code, {<<r, "read">>})
    BY <1>5
  <2> QED BY <1>1, <1>5, <2>1, EndsAreLocal
<1>6. CASE QueryFile(r)
  BY <1>3, <1>4, <1>6 DEF QueryFile, Running
<1>7. CASE ReadBack(r)
  BY <1>3, <1>4, <1>7 DEF ReadBack, Running
<1>8. CASE Execute(r)
  BY <1>4, <1>8 DEF Execute, Running
<1>9. CASE SendBlock(r)
  BY <1>3, <1>4, <1>9 DEF SendBlock, Running
<1>10. CASE SendFails(r)
  <2>1. Op(r) = "download" /\ Running(r)
    BY <1>1, <1>10 DEF SendFails, ShapeOK, Op, Running
  <2> QED BY <1>5, <1>10, <2>1 DEF SendFails
<1>11. CASE CallFails(r)
  <2>1. Running(r) /\ Op(r) \in {"upload", "download"}
    <3>1. Running(r) /\ work[r].pc # "unsent"
      BY <1>11 DEF CallFails, Running
    <3> QED BY <3>1, HandlerFields DEF FilesInv
  <2>2. CASE \E code : Ends(r, code, {})
    BY <1>4, <2>1, <2>2
  <2>3. CASE Op(r) # "upload" /\ Ends(r, 500, {<<r, "read">>})
    BY <1>5, <2>1, <2>3
  <2> QED BY <1>11, <2>2, <2>3 DEF CallFails
<1> QED BY <1>2, <1>3, <1>6, <1>7, <1>8, <1>9, <1>10, <1>11 DEF Serves

(* Each step keeps the descriptors accounted for.                          *)
LEMMA NextDescriptors ==
    FilesInv /\ DescriptorsAreAccounted /\ [Next]_vars => DescriptorsAreAccounted'
<1> SUFFICES ASSUME FilesInv, DescriptorsAreAccounted, [Next]_vars, NEW d \in open'
             PROVE  Accounted(d)'
  BY DEF DescriptorsAreAccounted, Accounted
<1>1. open \subseteq Requests \X {"write", "read"}
  BY DEF FilesInv, DiskInv, TypeOK
<1>2. d \in open => Accounted(d) /\ d[1] \in Requests
  BY <1>1 DEF DescriptorsAreAccounted, Accounted
<1>3. CASE \E r \in Requests : Serves(r)
  <2>1. PICK r \in Requests : Serves(r)
    BY <1>3
  <2>2. LocalStep(r)
    BY <2>1, ServesAreLocal
  <2>3. CASE d[1] = r
    BY <2>2, <2>3 DEF LocalStep, Accounted, Running, Op
  <2>4. CASE d[1] # r
    <3>1. Accounted(d) /\ work'[d[1]] = work[d[1]]
      BY <1>2, <2>2, <2>4 DEF LocalStep
    <3> QED BY <3>1 DEF Accounted, Running, Op
  <2> QED BY <2>3, <2>4
<1>4. CASE Crash
  BY <1>4 DEF Crash
<1>5. CASE UNCHANGED vars
  BY <1>2, <1>5 DEF vars, Accounted, Running, Op
<1> QED BY <1>3, <1>4, <1>5, NextServes

(* A descriptor outlives its request only in the early returns of           *)
(* DownloadFile and getDownloadFile.                                       *)
THEOREM DescriptorsStayAccounted == Spec => []DescriptorsAreAccounted
<1>1. Init => DescriptorsAreAccounted
  BY DEF Init, DescriptorsAreAccounted
<1> QED BY <1>1, FilesInvariant, NextDescriptors, PTL DEF Spec

(* Each step keeps what is stored a file of its certificate's own blocks.   *)
LEMMA NextStored ==
    FilesInv /\ StoredBlocksAreOwn /\ [Next]_vars => StoredBlocksAreOwn'
<1> SUFFICES ASSUME FilesInv, StoredBlocksAreOwn, [Next]_vars, NEW c \in Certs, stored'[c] # NoFile
             PROVE  IsPdf(stored'[c]) /\ OwnBlocks(stored[c], c)'
  BY DEF StoredBlocksAreOwn, OwnBlocks, Uploads, IsPdf
<1>1. stored[c] # NoFile => IsPdf(stored[c]) /\ OwnBlocks(stored[c], c)
  BY DEF StoredBlocksAreOwn, OwnBlocks, Uploads
<1>2. DiskInv /\ TypeOK
  BY DEF FilesInv, DiskInv
<1>3. PICK file : file = stored'[c]
  OBVIOUS
<1>4. ASSUME IsPdf(file), OwnBlocks(file, c), Grows PROVE IsPdf(stored'[c]) /\ OwnBlocks(stored[c], c)'
  <2>1. OwnBlocks(file, c)'
    BY <1>2, <1>4, OwnersStay
  <2> QED BY <1>3, <1>4, <2>1 DEF OwnBlocks
<1>5. CASE \E r \in Requests : Serves(r)
  <2>1. PICK r \in Requests : Serves(r)
    BY <1>5
  <2>2. Grows
    <3>1. LocalStep(r)
      BY <2>1, ServesAreLocal
    <3>2. ASSUME NEW i \in Requests
          PROVE  /\ work[i].job # NoJob => work'[i].job = work[i].job
                 /\ Opened(i) => Opened(i)'
      <4>1. CASE i = r
        BY <3>1, <4>1 DEF LocalStep
      <4>2. CASE i # r
        BY <3>1, <4>2 DEF LocalStep, Opened
      <4> QED BY <4>1, <4>2
    <3> QED BY <3>2 DEF Grows
  <2>3. CASE stored'[c] = stored[c]
    BY <1>1, <1>3, <1>4, <2>2, <2>3
  <2>4. CASE stored'[c] # stored[c]
    <3>1. Execute(r) /\ stored' = [stored EXCEPT ![Cert(r)] = work[r].data]
      BY <2>1, <2>4 DEF Serves, Receive, QueryFile, Remove, OpenWrite, CopyBlock, WriteFile,
                        OpenRead, Stat, ReadBack, Execute, SendBlock, SendFails, CallFails
    <3>2. c = Cert(r) /\ file = work[r].data
      BY <1>2, <1>3, <2>4, <3>1 DEF TypeOK
    <3>3. IsPdf(work[r].data) /\ OwnBlocks(work[r].data, Cert(r))
      BY <1>2, <3>1 DEF DiskInv, UploadOK, Execute
    <3> QED BY <1>4, <2>2, <3>2, <3>3
  <2> QED BY <2>3, <2>4
<1>6. CASE Crash
  <2>1. Grows /\ stored' = stored
    <3>1. ASSUME NEW i \in Requests
          PROVE  work'[i].job = work[i].job /\ (Opened(i) => Opened(i)')
      <4>1. work[i] \in HandlerSet
        BY <1>2, HandlerRecord DEF TypeOK
      <4> QED BY <1>6, <4>1 DEF Crash, Opened, Before, Ended, HandlerSet
    <3> QED BY <1>6, <3>1 DEF Grows, Crash
  <2> QED BY <1>1, <1>3, <1>4, <2>1
<1>7. CASE UNCHANGED vars
  <2>1. Grows /\ stored' = stored
    BY <1>7 DEF vars, Grows, Opened
  <2> QED BY <1>1, <1>3, <1>4, <2>1
<1> QED BY <1>5, <1>6, <1>7, NextServes

(* What is on the ledger under a certificate was uploaded for it, each      *)
(* block at its place, however uploads overlap, break off or fail.         *)
THEOREM StoredBlocksStayOwn == Spec => []StoredBlocksAreOwn
<1>1. Init => StoredBlocksAreOwn
  BY DEF Init, StoredBlocksAreOwn
<1> QED BY <1>1, FilesInvariant, NextStored, PTL DEF Spec
=============================================================================

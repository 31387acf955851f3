----------------------------- MODULE TempFiles -----------------------------
(***************************************************************************)
(* The way of a PDF through the disk of the server: UploadFile up to its   *)
(* call of Execute, DownloadFile, deleteFileOnDisk and the handlers of     *)
(* app/app.go.  An upload writes the file to ./tempUploadFiles/<certId>.pdf *)
(* and reads it back; a download writes it to ../files/<certId>.pdf and    *)
(* sends it from there.  Requests for one certificate share the path, and  *)
(* nothing is locked.  Opening gives a descriptor of an inode, which lives *)
(* on when its name is removed or given to another.                        *)
(*                                                                         *)
(* A content is a sequence of blocks, each known by the file it is from.   *)
(***************************************************************************)
EXTENDS Naturals, Sequences

CONSTANTS
    Certs,      \* certificate numbers
    Files,      \* files that clients upload
    Pdfs,       \* those that begin as a PDF does
    Blocks,     \* how many blocks each file has
    Requests,   \* uploads and downloads being served
    Jobs,       \* what clients ask for
    NoJob,      \* the job of a request not received
    NoInode,    \* "no such file or directory"
    NoFile      \* "no value under this key"

Job == [op : {"upload"}, certId : Certs, file : Files] \cup
       [op : {"download"}, certId : Certs]

ASSUME JobsAssumption == Jobs \subseteq Job /\ NoJob \notin Job

ASSUME FilesAssumption ==
    /\ Pdfs \subseteq Files /\ Blocks \in [Files -> Nat]
    /\ NoInode \notin Requests /\ NoFile \notin Seq(Files)

Content == Seq(Files)
Inodes  == Requests     \* a request creates at most one inode

VARIABLES
    stored,     \* the file of each certificate on the ledger
    names,      \* the directories: the inode under each path
    content,    \* of each inode
    open,       \* open descriptors, <<request, "write">> and <<request, "read">>
    work,       \* the state of each request's handler
    alone       \* no other request of this kind has overlapped (history)

vars == <<stored, names, content, open, work, alone>>

Paths == {"upload", "download"} \X Certs

Handler == [pc     : {"unsent", "query", "remove", "open", "copy", "openRead", "stat",
                      "read", "execute", "send", "done"},
            job    : Jobs \cup {NoJob},
            wr     : Inodes \cup {NoInode},     \* f, open for writing
            rd     : Inodes \cup {NoInode},     \* certf or file, open for reading
            copied : Nat,                       \* blocks that io.Copy has written
            size   : Nat,                       \* fileInfo.Size()
            data   : Content,                   \* buf, or the bytes sent to the client
            hand   : Content,                   \* fileStruct.CertFile of a download
            code   : {0, 200, 400, 500, 501}]

TypeOK ==
    /\ stored \in [Certs -> Content \cup {NoFile}]
    /\ names \in [Paths -> Inodes \cup {NoInode}]
    /\ content \in [Inodes -> Content]
    /\ open \subseteq Requests \X {"write", "read"}
    /\ work \in [Requests -> Handler]
    /\ alone \in [Requests -> BOOLEAN]
    /\ \A r \in Requests :
          /\ work[r].pc \notin {"unsent", "done"} => work[r].job \in Jobs
          /\ work[r].pc = "copy" => work[r].wr # NoInode
          /\ work[r].pc \in {"stat", "read", "send"} => work[r].rd # NoInode

Unsent == [pc |-> "unsent", job |-> NoJob, wr |-> NoInode, rd |-> NoInode,
           copied |-> 0, size |-> 0, data |-> <<>>, hand |-> <<>>, code |-> 0]

Init ==
    /\ stored = [c \in Certs |-> NoFile]
    /\ names = [p \in Paths |-> NoInode]
    /\ content = [i \in Inodes |-> <<>>]
    /\ open = {}
    /\ work = [r \in Requests |-> Unsent]
    /\ alone = [r \in Requests |-> FALSE]

Op(r)   == work[r].job.op
Cert(r) == work[r].job.certId

MutPath(r) == <<Op(r), CHOOSE c \in Certs : TRUE>>

Path(r) == <<Op(r), Cert(r)>>

Goes(r, pc) == work' = [work EXCEPT ![r].pc = pc]

(* The locals of a handler are gone with it.                               *)
Ended(w, code) == [w EXCEPT !.pc = "done", !.code = code,
                            !.wr = NoInode, !.rd = NoInode, !.copied = 0]

MutEnds(r, code, leaked) ==
    /\ work' = [work EXCEPT ![r] = Ended(@, code)]
    /\ open' = IF code = 200 THEN {d \in open : d[1] # r} ELSE open

(* The end of a request and of its deferred calls, but for the descriptors  *)
(* in "leaked".                                                            *)
Ends(r, code, leaked) ==
    /\ work' = [work EXCEPT ![r] = Ended(@, code)]
    /\ open' = {d \in open : d[1] = r => d \in leaked}

-----------------------------------------------------------------------------
(* Opening and removing.                                                   *)

Running(r) == work[r].pc \notin {"unsent", "done"}

Overlap(r, job) == {s \in Requests \ {r} :
    Running(s) /\ Op(s) = job.op /\ Cert(s) = job.certId}

Receive(r, job) ==
    /\ work[r].pc = "unsent"
    /\ work' = [work EXCEPT ![r] = [Unsent EXCEPT
                   !.pc = IF job.op = "upload" THEN "remove" ELSE "query", !.job = job]]
    /\ alone' = [s \in Requests |-> IF s = r THEN Overlap(r, job) = {}
                                    ELSE alone[s] /\ s \notin Overlap(r, job)]
    /\ UNCHANGED <<stored, names, content, open>>

(* The query of DownloadFile.  Without an error and without a file the     *)
(* handler goes on with a nil file, from which nothing can be copied.      *)
QueryFile(r) ==
    /\ work[r].pc = "query"
    /\ \/ /\ stored[Cert(r)] # NoFile
          /\ work' = [work EXCEPT ![r].pc = "remove", ![r].hand = stored[Cert(r)]]
          /\ UNCHANGED open
       \/ Ends(r, 400, {})
    /\ UNCHANGED <<stored, names, content, alone>>

MutRemove(r) ==
    /\ work[r].pc = "remove"
    /\ Goes(r, "open")
    /\ UNCHANGED <<stored, names, content, open, alone>>

Remove(r) ==
    /\ work[r].pc = "remove"
    /\ names' = [names EXCEPT ![Path(r)] = NoInode]
    /\ Goes(r, "open")
    /\ UNCHANGED <<stored, content, open, alone>>

(* os.OpenFile with O_CREATE keeps what is there; os.Create truncates it.  *)
OpenWrite(r) ==
    /\ work[r].pc = "open"
    /\ LET inode == IF names[Path(r)] = NoInode THEN r ELSE names[Path(r)]
       IN  /\ names' = [names EXCEPT ![Path(r)] = inode]
           /\ content' = IF Op(r) = "download" THEN [content EXCEPT ![inode] = <<>>]
                         ELSE content
           /\ work' = [work EXCEPT ![r].pc = "copy", ![r].wr = inode]
    /\ open' = open \cup {<<r, "write">>}
    /\ UNCHANGED <<stored, alone>>

(* What a write of "blocks" at an offset makes of a content.               *)
Overwritten(old, at, blocks) ==
    [i \in 1 .. (IF at + Len(blocks) > Len(old) THEN at + Len(blocks) ELSE Len(old)) |->
        IF i \in at + 1 .. at + Len(blocks) THEN blocks[i - at] ELSE old[i]]

(* io.Copy of an upload writes block by block.                             *)
CopyBlock(r) ==
    /\ work[r].pc = "copy" /\ Op(r) = "upload"
    /\ LET w == work[r]
       IN  IF w.copied < Blocks[w.job.file]
           THEN /\ content' = [content EXCEPT ![w.wr] = Overwritten(@, w.copied, <<w.job.file>>)]
                /\ work' = [work EXCEPT ![r].copied = @ + 1]
           ELSE Goes(r, "openRead") /\ UNCHANGED content
    /\ UNCHANGED <<stored, names, open, alone>>

(* The one Write of a download.                                            *)
WriteFile(r) ==
    /\ work[r].pc = "copy" /\ Op(r) = "download"
    /\ content' = [content EXCEPT ![work[r].wr] = Overwritten(@, 0, work[r].hand)]
    /\ Goes(r, "openRead")
    /\ UNCHANGED <<stored, names, open, alone>>

MutOpenRead(r) ==
    /\ work[r].pc = "openRead"
    /\ work' = [work EXCEPT ![r].pc = "stat", ![r].rd = names[Path(r)]]
    /\ open' = open \cup {<<r, "read">>}
    /\ UNCHANGED <<stored, names, content, alone>>

OpenRead(r) ==
    /\ work[r].pc = "openRead"
    /\ names[Path(r)] # NoInode
    /\ work' = [work EXCEPT ![r].pc = "stat", ![r].rd = names[Path(r)]]
    /\ open' = open \cup {<<r, "read">>}
    /\ UNCHANGED <<stored, names, content, alone>>

MutStat(r) ==
    /\ work[r].pc = "stat"
    /\ names[<<"upload", Cert(r)>>] # NoInode
    /\ work' = [work EXCEPT ![r].size = Len(content[names[<<"upload", Cert(r)>>]]),
                            ![r].pc = IF Op(r) = "upload" THEN "read" ELSE "send"]
    /\ open' = IF Op(r) = "upload" THEN open ELSE open \ {<<r, "write">>}
    /\ UNCHANGED <<stored, names, content, alone>>

(* os.Stat goes by the path, not by the descriptor.  DownloadFile returns,  *)
(* and its deferred call closes f.                                         *)
Stat(r) ==
    /\ work[r].pc = "stat"
    /\ names[Path(r)] # NoInode
    /\ work' = [work EXCEPT ![r].size = Len(content[names[Path(r)]]),
                            ![r].pc = IF Op(r) = "upload" THEN "read" ELSE "send"]
    /\ open' = IF Op(r) = "upload" THEN open ELSE open \ {<<r, "write">>}
    /\ UNCHANGED <<stored, names, content, alone>>

-----------------------------------------------------------------------------
(* What an upload does with what it reads back.                            *)

Prefix(s, n) == SubSeq(s, 1, IF n < Len(s) THEN n ELSE Len(s))

(* http.DetectContentType goes by the first bytes.                         *)
IsPdf(buf) == buf # <<>> /\ buf[1] \in Pdfs

(* One Read into a buffer of the size that Stat gave.                      *)
ReadBack(r) ==
    /\ work[r].pc = "read"
    /\ LET buf == Prefix(content[work[r].rd], work[r].size)
       IN  \/ /\ Len(buf) # work[r].size
              /\ Ends(r, 501, {})
           \/ /\ Len(buf) = work[r].size
              /\ ~ IsPdf(buf)
              /\ Ends(r, 400, {})
           \/ /\ Len(buf) = work[r].size
              /\ IsPdf(buf)
              /\ work' = [work EXCEPT ![r].pc = "execute", ![r].data = buf]
              /\ UNCHANGED open
    /\ UNCHANGED <<stored, names, content, alone>>

(* Execute, and the rest of UploadFile (module CertificateIO).  The file   *)
(* may be on the ledger although the answer is an error.                   *)
Execute(r) ==
    /\ work[r].pc = "execute"
    /\ \/ /\ stored' = [stored EXCEPT ![Cert(r)] = work[r].data]
          /\ \E code \in {200, 501} : Ends(r, code, {})
       \/ Ends(r, 501, {}) /\ UNCHANGED stored
    /\ UNCHANGED <<names, content, alone>>

-----------------------------------------------------------------------------
(* What getDownloadFile does with the file.                                *)

SendBlock(r) ==
    /\ work[r].pc = "send"
    /\ LET sent == work[r].data
           file == content[work[r].rd]
       IN  \/ /\ Len(sent) < Len(file) /\ Len(sent) < work[r].size
              /\ work' = [work EXCEPT ![r].data = Append(sent, file[Len(sent) + 1])]
              /\ UNCHANGED open
           \/ /\ Len(sent) >= Len(file)
              /\ Ends(r, 200, {})
    /\ UNCHANGED <<stored, names, content, alone>>

(* The client is gone, or the file is longer than Content-Length said: the  *)
(* handler returns before its "defer closeFile(file)".                     *)
SendFails(r) ==
    /\ work[r].pc = "send"
    /\ Ends(r, 400, {<<r, "read">>})
    /\ UNCHANGED <<stored, names, content, alone>>

-----------------------------------------------------------------------------
(* Calls of the system that fail, by the code that they are answered with. *)
CallFails(r) ==
    /\ \/ /\ work[r].pc \in {"open", "copy"}
          /\ Ends(r, IF Op(r) = "upload" THEN 500 ELSE 501, {})
       \/ /\ work[r].pc \in {"openRead", "read"}
          /\ Ends(r, IF Op(r) = "upload" THEN 501 ELSE 500, {})
       \/ /\ work[r].pc = "stat"
          /\ IF Op(r) = "upload" THEN Ends(r, 501, {}) ELSE Ends(r, 500, {<<r, "read">>})
    /\ UNCHANGED <<stored, names, content, alone>>

(* The server is killed and started again: the disk keeps its files.       *)
Crash ==
    /\ work' = [r \in Requests |-> IF Running(r) THEN Ended(work[r], 0) ELSE work[r]]
    /\ open' = {}
    /\ UNCHANGED <<stored, names, content, alone>>

AllDone == (\A r \in Requests : work[r].pc = "done") /\ UNCHANGED vars

Next ==
    \/ \E r \in Requests :
          \/ \E job \in Jobs : Receive(r, job)
          \/ QueryFile(r) \/ Remove(r) \/ OpenWrite(r)
          \/ CopyBlock(r) \/ WriteFile(r)
          \/ OpenRead(r) \/ Stat(r) \/ ReadBack(r)
          \/ Execute(r)
          \/ SendBlock(r) \/ SendFails(r)
          \/ CallFails(r)
    \/ Crash
    \/ AllDone

Spec == Init /\ [][Next]_vars

-----------------------------------------------------------------------------
(* Properties.                                                             *)

Whole(f) == [i \in 1 .. Blocks[f] |-> f]

(* An upload that overlaps with no other upload of its certificate hands    *)
(* exactly its file to the chaincode, whatever was uploaded, broken off or  *)
(* left on the disk before.  Nothing truncates the file that os.OpenFile    *)
(* finds: this rests on the removal before it.                             *)
LoneUploadIsWhole ==
    \A r \in Requests :
        work[r].pc = "execute" /\ alone[r] => work[r].data = Whole(work[r].job.file)

(* A download that overlaps with no other download of its certificate sends *)
(* what the query gave and announces its length, whatever is uploaded       *)
(* meanwhile.                                                              *)
LoneDownloadIsExact ==
    \A r \in Requests :
        work[r].code = 200 /\ Op(r) = "download" /\ alone[r] =>
            work[r].data = work[r].hand /\ work[r].size = Len(work[r].hand)

(* Even when uploads overlap, so that the blocks of several files may be    *)
(* mixed or cut off, what is stored under a certificate was uploaded for    *)
(* that certificate, each block at its place, and begins as a PDF does.     *)
StoredBlocksAreOwn ==
    \A c \in Certs : stored[c] # NoFile =>
        /\ IsPdf(stored[c])
        /\ \A i \in DOMAIN stored[c] :
              /\ i <= Blocks[stored[c][i]]
              /\ \E r \in Requests : /\ work[r].job # NoJob /\ Op(r) = "upload" /\ Cert(r) = c
                                     /\ work[r].job.file = stored[c][i]

(* A descriptor outlives its request only if a download failed after it had *)
(* opened the file.  The early returns of DownloadFile and getDownloadFile  *)
(* leave it open for good.                                                 *)
DescriptorsAreAccounted ==
    \A d \in open :
        \/ Running(d[1])
        \/ d[2] = "read" /\ Op(d[1]) = "download" /\ work[d[1]].code \in {400, 500}
=============================================================================

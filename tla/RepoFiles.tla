-------------------------------- MODULE RepoFiles --------------------------------
(***************************************************************************)
(* The fake repository of sftp_backend.py: one directory of files that all *)
(* connections share.                                                      *)
(*                                                                         *)
(* An in-shell transfer stores its artifact with FakeRepoFS.put_bytes, and *)
(* a decoding echo stores its bytes, under a lock that belongs to its      *)
(* connection; an SFTP session uses the files through FakeSFTPServer,      *)
(* request by request, without any lock.  A connection's commands come one *)
(* at a time, so its lock excludes nobody and has no state here.  Files    *)
(* are POSIX files: an open file outlives its name, and a rename replaces  *)
(* its target.  Contents have two blocks: one read or write request of     *)
(* SFTP is one block.                                                      *)
(***************************************************************************)
EXTENDS Naturals, Sequences

CONSTANTS
    Shells,     \* connections with a shell or exec service
    Sftps,      \* connections with an SFTP session
    Paths,      \* files of the one directory below the root
    MaxFiles    \* a bound of the model on the files that exist at one time

ASSUME MaxFilesAssumption == MaxFiles \in Nat \ {0}

VARIABLES
    dir,       \* the directory exists
    entry,     \* path -> the file it names, 0: none
    data,      \* file -> its blocks
    put,       \* shell -> the call of put_bytes it is in
    handle     \* SFTP session -> the handle it has open

fileVars == <<dir, entry, data, put, handle>>

Files == 1..MaxFiles
None == 0
Missing == "none"

\* Contents by name: p is deterministic_bytes(logical_key(p)), the same bytes whoever writes
\* them; session s is what its client uploads, and Decoded what a command brings along.
Content(c) == <<[of |-> c, block |-> 1], [of |-> c, block |-> 2]>>
Decoded == "decoded"
\* A block tells whether a command or an SFTP session wrote it.
ASSUME NamesAssumption == Sftps \cap (Paths \cup {Decoded}) = {}
\* The blocks a write behind the end of a file leaves open.
Hole == [of |-> "nobody", block |-> 0]

NoPut == [at |-> "no", path |-> Missing, what |-> Missing, file |-> None]
NoHandle == [mode |-> "no", file |-> None, pos |-> 0, got |-> <<>>]

FilesInit ==
    /\ dir = FALSE
    /\ entry = [p \in Paths |-> None]
    /\ data = [i \in Files |-> <<>>]
    /\ put = [s \in Shells |-> NoPut]
    /\ handle = [s \in Sftps |-> NoHandle]

--------------------------------------------------------------------------------
InUse(i) == \/ \E p \in Paths : entry[p] = i
            \/ \E s \in Shells : put[s].file = i
            \/ \E s \in Sftps : handle[s].file = i

Fresh(i) == ~InUse(i) /\ \A j \in Files : j < i => InUse(j)

\* Mutant: an existing file keeps its contents.
OpenUntruncated(p, i) ==
    /\ IF entry[p] # None THEN i = entry[p] ELSE Fresh(i)
    /\ entry' = [entry EXCEPT ![p] = i]
    /\ data' = IF entry[p] # None THEN data ELSE [data EXCEPT ![i] = <<>>]

\* Open for writing, create and truncate: the file named p, or a new one.
OpenForWriting(p, i) ==
    /\ IF entry[p] # None THEN i = entry[p] ELSE Fresh(i)
    /\ entry' = [entry EXCEPT ![p] = i]
    /\ data' = [data EXCEPT ![i] = <<>>]

\* A write at an offset, which may lie behind the end.
WriteAt(blocks, pos, b) ==
    [k \in 1..(IF Len(blocks) > pos THEN Len(blocks) ELSE pos + 1) |->
        IF k = pos + 1 THEN b ELSE IF k <= Len(blocks) THEN blocks[k] ELSE Hole]

--------------------------------------------------------------------------------
(* put_bytes, called by a command of a shell or exec service. *)

\* Mutant: the directory is taken for granted.
PutStartsBare(s, p, c) ==
    /\ put[s].at = "no"
    /\ put' = [put EXCEPT ![s] = [at |-> "open", path |-> p, what |-> c, file |-> None]]
    /\ UNCHANGED <<dir, entry, data, handle>>

\* os.makedirs(..., exist_ok=True)
PutStarts(s, p, c) ==
    /\ put[s].at = "no"
    /\ dir' = TRUE
    /\ put' = [put EXCEPT ![s] = [at |-> "open", path |-> p, what |-> c, file |-> None]]
    /\ UNCHANGED <<entry, data, handle>>

\* open(real, "wb")
PutOpens(s) ==
    /\ put[s].at = "open" /\ dir
    /\ \E i \in Files :
        /\ OpenForWriting(put[s].path, i)
        /\ put' = [put EXCEPT ![s].at = "write", ![s].file = i]
    /\ UNCHANGED <<dir, handle>>

\* The directory is gone: the command catches the exception and reports success.
PutFails(s) ==
    /\ put[s].at = "open" /\ ~dir
    /\ put' = [put EXCEPT ![s] = NoPut]
    /\ UNCHANGED <<dir, entry, data, handle>>

\* fh.write(data): the content in one piece, from the start of the file.
PutWrites(s) ==
    /\ put[s].at = "write"
    /\ LET a == Content(put[s].what)
       IN  data' = [data EXCEPT ![put[s].file] = WriteAt(WriteAt(@, 0, a[1]), 1, a[2])]
    /\ put' = [put EXCEPT ![s] = NoPut]
    /\ UNCHANGED <<dir, entry, handle>>

PutStep(s) == PutOpens(s) \/ PutFails(s) \/ PutWrites(s)

--------------------------------------------------------------------------------
(* The requests of an SFTP session. *)

\* makedirs and os.open of one request.  If another session removes the directory in
\* between, the request fails and leaves what SftpMkdir and SftpRmdir leave.
SftpOpenWrite(s, p) ==
    /\ handle[s].mode = "no" /\ dir' = TRUE
    /\ \E i \in Files :
        /\ OpenForWriting(p, i)
        /\ handle' = [handle EXCEPT ![s] = [NoHandle EXCEPT !.mode = "write", !.file = i]]
    /\ UNCHANGED put

SftpOpenRead(s, p) ==
    /\ handle[s].mode = "no" /\ entry[p] # None
    /\ handle' = [handle EXCEPT ![s] = [NoHandle EXCEPT !.mode = "read", !.file = entry[p]]]
    /\ UNCHANGED <<dir, entry, data, put>>

\* One packet of an upload, written through at once.
SftpWrite(s) ==
    /\ handle[s].mode = "write" /\ handle[s].pos < 2
    /\ LET h == handle[s]
       IN  data' = [data EXCEPT ![h.file] = WriteAt(@, h.pos, Content(s)[h.pos + 1])]
    /\ handle' = [handle EXCEPT ![s].pos = @ + 1]
    /\ UNCHANGED <<dir, entry, put>>

AtEnd(h) == h.pos >= Len(data[h.file])

SftpRead(s) ==
    /\ handle[s].mode = "read" /\ handle[s].pos < 2 /\ ~AtEnd(handle[s])
    /\ handle' = [handle EXCEPT ![s].pos = @ + 1,
                                ![s].got = Append(@, data[handle[s].file][handle[s].pos + 1])]
    /\ UNCHANGED <<dir, entry, data, put>>

\* A close request, or the end of the session.
SftpClose(s) ==
    /\ handle[s].mode # "no"
    /\ handle' = [handle EXCEPT ![s] = NoHandle]
    /\ UNCHANGED <<dir, entry, data, put>>

SftpRemove(s, p) ==
    /\ entry[p] # None
    /\ entry' = [entry EXCEPT ![p] = None]
    /\ UNCHANGED <<dir, data, put, handle>>

SftpRename(s, p, q) ==
    /\ entry[p] # None /\ p # q
    /\ entry' = [entry EXCEPT ![q] = entry[p], ![p] = None]
    /\ UNCHANGED <<dir, data, put, handle>>

SftpMkdir(s) ==
    /\ ~dir /\ dir' = TRUE
    /\ UNCHANGED <<entry, data, put, handle>>

SftpRmdir(s) ==
    /\ dir /\ \A p \in Paths : entry[p] = None
    /\ dir' = FALSE
    /\ UNCHANGED <<entry, data, put, handle>>

\* The requests that change names only.
SftpNames(s) ==
    \/ \E p \in Paths : SftpRemove(s, p)
    \/ \E p, q \in Paths : SftpRename(s, p, q)
    \/ SftpMkdir(s) \/ SftpRmdir(s)
================================================================================

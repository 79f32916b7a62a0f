------------------------------- MODULE Repository -------------------------------
(***************************************************************************)
(* The sessions of several connections and the repository they share: the  *)
(* shell and exec services run transfers, SFTP sessions use the files      *)
(* directly, and may break off at any time.                                *)
(***************************************************************************)
EXTENDS RepoFiles, SequencesExt

VARIABLES
    origin,    \* history: file -> whose content was written to it since it was truncated
    met,       \* history: session -> whose content its open read may have met
    calm,      \* history: session -> no writer has met its open read
    alone,     \* history: session -> no name was changed by SFTP during its transfer
    stored     \* history: paths a transfer was answered for, not changed by SFTP since

history == <<origin, met, calm, alone, stored>>
vars == <<fileVars, history>>

HistoryInit ==
    /\ origin = [i \in Files |-> {}]
    /\ met = [s \in Sftps |-> {}]
    /\ calm = [s \in Sftps |-> FALSE]
    /\ alone = [s \in Shells |-> FALSE]
    /\ stored = [p \in Paths |-> FALSE]

Init == FilesInit /\ HistoryInit

--------------------------------------------------------------------------------
(* The histories. *)

\* Those who have file i open for writing.
Writers(i) == {put[s].what : s \in {s \in Shells : put[s].file = i}}
              \cup {s \in Sftps : handle[s].mode = "write" /\ handle[s].file = i}

Reads(s, i) == handle[s].mode = "read" /\ handle[s].file = i

\* `who` truncates file i or writes to it.
Meets(i, who) ==
    /\ met' = [s \in Sftps |-> IF Reads(s, i) THEN met[s] \cup {who} ELSE met[s]]
    /\ calm' = [s \in Sftps |-> calm[s] /\ ~Reads(s, i)]

Truncates(i, who) == origin' = [origin EXCEPT ![i] = Writers(i) \cup {who}] /\ Meets(i, who)
Writes(i, who)    == origin' = [origin EXCEPT ![i] = @ \cup {who}] /\ Meets(i, who)
StartsReading(s, i) ==
    /\ met' = [met EXCEPT ![s] = origin[i]]
    /\ calm' = [calm EXCEPT ![s] = Writers(i) = {}]
    /\ UNCHANGED origin
NoWriter == UNCHANGED <<origin, met, calm>>

Answered(s) ==
    /\ stored' = [stored EXCEPT ![put[s].path] = @ \/ alone[s]]
    /\ alone' = [alone EXCEPT ![s] = FALSE]

--------------------------------------------------------------------------------
\* A command of a shell or exec service stores the artifact of its path; the service goes
\* on when put_bytes has returned, so that a session has one transfer at a time.
Transfer(s, p) ==
    /\ PutStarts(s, p, p)
    /\ alone' = [alone EXCEPT ![s] = TRUE]
    /\ NoWriter /\ UNCHANGED stored

\* Or a content of its own (_decode_write).
DecodeWrite(s, p) ==
    /\ PutStarts(s, p, Decoded)
    /\ alone' = [alone EXCEPT ![s] = TRUE]
    /\ NoWriter /\ UNCHANGED stored

TransferGoesOn(s) ==
    \/ PutOpens(s) /\ Truncates(put'[s].file, put[s].what) /\ UNCHANGED <<alone, stored>>
    \/ PutWrites(s) /\ Writes(put[s].file, put[s].what) /\ Answered(s)
    \/ PutFails(s) /\ NoWriter /\ Answered(s)

\* A request of an SFTP session.
SftpRequest(s) ==
    /\ \/ \E p \in Paths : SftpOpenWrite(s, p) /\ Truncates(handle'[s].file, s)
       \/ \E p \in Paths : SftpOpenRead(s, p) /\ StartsReading(s, entry[p])
       \/ SftpWrite(s) /\ Writes(handle[s].file, s)
       \/ (SftpRead(s) \/ SftpNames(s)) /\ NoWriter
    /\ stored' = [p \in Paths |-> stored[p] /\ entry'[p] = entry[p]]
    /\ alone' = [d \in Shells |-> alone[d] /\ dir' = dir /\ entry' = entry]

\* A close request; or the client is gone, and paramiko closes what its session has open.
SftpEnds(s) ==
    /\ SftpClose(s)
    /\ met' = [met EXCEPT ![s] = {}] /\ calm' = [calm EXCEPT ![s] = FALSE]
    /\ UNCHANGED <<origin, alone, stored>>

Next ==
    \/ \E s \in Shells : TransferGoesOn(s) \/ \E p \in Paths : Transfer(s, p) \/ DecodeWrite(s, p)
    \/ \E s \in Sftps : SftpRequest(s) \/ SftpEnds(s)

Spec == Init /\ [][Next]_vars

--------------------------------------------------------------------------------
\* An uploaded file is there, whole, although uploads to one path overlap under locks that
\* do not exclude each other (sftp_backend.py:45) and a transfer reports success whatever
\* happened (command_engine.py:362-363): once it is answered, and until an SFTP session
\* changes names or the file, its path names a file, which holds the content uploaded, but
\* for the time in which others upload to it, or have done so side by side.
UploadedIsThere ==
    \A p \in Paths : stored[p] =>
        /\ entry[p] # None
        /\ \A c \in Paths \cup {Decoded} :
              Writers(entry[p]) = {} /\ origin[entry[p]] = {c} => data[entry[p]] = Content(c)

\* "a file "uploaded" by an in-shell `sftp put` can later be `get`-fetched here and
\* round-trips byte-for-byte" (sftp_backend.py:8-10).  An SFTP get of a file that has
\* one content never returns other bytes, and returns all of it unless the file is rewritten
\* while it reads.
GetRoundTrips ==
    \A s \in Sftps : \A c \in Paths \cup {Decoded} :
        handle[s].mode = "read" /\ met[s] = {c} =>
            /\ IsPrefix(handle[s].got, Content(c))
            /\ calm[s] /\ AtEnd(handle[s]) => handle[s].got = Content(c)
================================================================================

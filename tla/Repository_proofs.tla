----------------------------- MODULE Repository_proofs -----------------------------
(***************************************************************************)
(* Proofs of the safety properties of Repository, for any number of        *)
(* connections, of SFTP sessions, of paths and of files.                   *)
(***************************************************************************)
EXTENDS Repository, TLAPS

(* The inductive invariant. *)

\* What a command writes, and what anybody does.
Uploads == Paths \cup {Decoded}
Contents == Uploads \cup Sftps
Blocks == [of : Contents \cup {"nobody"}, block : 0..2]

\* A call of put_bytes.
Calls == [at : {"no", "open", "write"}, path : Paths \cup {Missing},
          what : Uploads \cup {Missing}, file : Files \cup {None}]
\* A handle of SFTP.
Handles == [mode : {"no", "read", "write"}, file : Files \cup {None}, pos : 0..2, got : Seq(Blocks)]

\* The type invariant.
TypeOK ==
    /\ dir \in BOOLEAN
    /\ entry \in [Paths -> Files \cup {None}]
    /\ data \in [Files -> Seq(Blocks)]
    /\ put \in [Shells -> Calls]
    /\ handle \in [Sftps -> Handles]
    /\ origin \in [Files -> SUBSET Contents]
    /\ met \in [Sftps -> SUBSET Contents]
    /\ calm \in [Sftps -> BOOLEAN]
    /\ alone \in [Shells -> BOOLEAN]
    /\ stored \in [Paths -> BOOLEAN]

\* A call that writes has a file, and so has a handle that is open; a read has as many blocks
\* as its position says.
CallInv(s) ==
    /\ put[s].at # "no" => put[s].path \in Paths /\ put[s].what \in Uploads
    /\ put[s].at = "write" <=> put[s].file # None
HandleInv(s) ==
    /\ handle[s].mode # "no" <=> handle[s].file # None
    /\ handle[s].mode = "read" => Len(handle[s].got) = handle[s].pos

\* What is typed, and shaped like this.
ShapeInv == TypeOK /\ (\A s \in Shells : CallInv(s)) /\ (\A s \in Sftps : HandleInv(s))

\* Those who write to a file since it was truncated are known, and a file with the content of
\* one path is whole, or has just been truncated by one who is about to write it.
FileInv(i) ==
    /\ InUse(i) => origin[i] # {}
    /\ Writers(i) \subseteq origin[i]
    /\ \A c \in Uploads : origin[i] = {c} => data[i] = Content(c) \/ (data[i] = <<>> /\ c \in Writers(i))

\* What an open read may have met includes what its file is made of; a read that no writer has
\* met has none now; and what it got so far of one content is its beginning.
ReadInv(s) ==
    handle[s].mode = "read" =>
        /\ origin[handle[s].file] \subseteq met[s]
        /\ calm[s] => Writers(handle[s].file) = {}
        /\ \A c \in Uploads : met[s] = {c} => \A k \in 1..handle[s].pos : handle[s].got[k] = Content(c)[k]

\* A transfer during which no name was changed by SFTP finds the directory and its file.
AloneInv(s) ==
    put[s].at # "no" /\ alone[s] => dir /\ (put[s].at = "write" => entry[put[s].path] # None)

\* A path that was answered for names a file.
StoredInv == \A p \in Paths : stored[p] => entry[p] # None

\* The inductive invariant of both properties.
IInv ==
    /\ ShapeInv
    /\ \A i \in Files : FileInv(i)
    /\ \A s \in Sftps : ReadInv(s)
    /\ \A s \in Shells : AloneInv(s)
    /\ StoredInv

--------------------------------------------------------------------------------
(* The steps. *)

\* put_bytes of a content is called.
Starts(s, p, c) ==
    /\ PutStarts(s, p, c) /\ alone' = [alone EXCEPT ![s] = TRUE]
    /\ NoWriter /\ UNCHANGED stored

\* It opens the file, writes it, or fails.
Opens(s) == PutOpens(s) /\ Truncates(put'[s].file, put[s].what) /\ UNCHANGED <<alone, stored>>
Fills(s) == PutWrites(s) /\ Writes(put[s].file, put[s].what) /\ Answered(s)
Fails(s) == PutFails(s) /\ NoWriter /\ Answered(s)

\* What a request of SFTP leaves of the histories of transfers.
Names ==
    /\ stored' = [p \in Paths |-> stored[p] /\ entry'[p] = entry[p]]
    /\ alone' = [d \in Shells |-> alone[d] /\ dir' = dir /\ entry' = entry]

\* An SFTP session opens a file, writes or reads a block, or changes names.
OpensToWrite(s, p) == SftpOpenWrite(s, p) /\ Truncates(handle'[s].file, s) /\ Names
OpensToRead(s, p) == SftpOpenRead(s, p) /\ StartsReading(s, entry[p]) /\ Names
Extends(s) == SftpWrite(s) /\ Writes(handle[s].file, s) /\ Names
Gets(s) == SftpRead(s) /\ NoWriter /\ Names
Renames(s) == SftpNames(s) /\ NoWriter /\ Names

\* Every step is one of these.
LEMMA Steps ==
    ASSUME Next
    PROVE  \/ \E s \in Shells, p \in Paths, c \in Uploads : Starts(s, p, c)
           \/ \E s \in Shells : Opens(s) \/ Fills(s) \/ Fails(s)
           \/ \E s \in Sftps, p \in Paths : OpensToWrite(s, p) \/ OpensToRead(s, p)
           \/ \E s \in Sftps : Extends(s) \/ Gets(s) \/ Renames(s) \/ SftpEnds(s)
<1>1. ASSUME NEW s \in Shells, NEW p \in Paths, Transfer(s, p)
      PROVE  p \in Uploads /\ Starts(s, p, p)
  BY <1>1 DEF Transfer, Starts, Uploads
<1>2. ASSUME NEW s \in Shells, NEW p \in Paths, DecodeWrite(s, p)
      PROVE  Decoded \in Uploads /\ Starts(s, p, Decoded)
  BY <1>2 DEF DecodeWrite, Starts, Uploads
<1>3. ASSUME NEW s \in Shells, TransferGoesOn(s) PROVE Opens(s) \/ Fills(s) \/ Fails(s)
  BY <1>3 DEF TransferGoesOn, Opens, Fills, Fails
<1>4. ASSUME NEW s \in Sftps, SftpRequest(s)
      PROVE  \/ \E p \in Paths : OpensToWrite(s, p) \/ OpensToRead(s, p)
             \/ Extends(s) \/ Gets(s) \/ Renames(s)
  BY <1>4 DEF SftpRequest, OpensToWrite, OpensToRead, Extends, Gets, Renames, Names
<1>5. QED BY <1>1, <1>2, <1>3, <1>4 DEF Next

--------------------------------------------------------------------------------
(* Contents and writes. *)

\* No file is numbered None, and nobody uploads by SFTP what a command uploads.
LEMMA Constants == None \notin Files /\ Sftps \cap Uploads = {} /\ MaxFiles \in Nat
  BY MaxFilesAssumption, NamesAssumption DEF None, Files, Uploads

\* A content is two blocks.
LEMMA ContentShape ==
    ASSUME NEW c \in Contents
    PROVE  /\ Content(c) \in Seq(Blocks) /\ Len(Content(c)) = 2
           /\ Content(c)[1] \in Blocks /\ Content(c)[2] \in Blocks
<1>1. [of |-> c, block |-> 1] \in Blocks /\ [of |-> c, block |-> 2] \in Blocks
  BY DEF Blocks
<1>2. QED BY <1>1 DEF Content

\* A write makes a sequence of blocks.
LEMMA WriteAtType ==
    ASSUME NEW blocks \in Seq(Blocks), NEW pos \in Nat, NEW b \in Blocks
    PROVE  WriteAt(blocks, pos, b) \in Seq(Blocks)
<1> DEFINE n == IF Len(blocks) > pos THEN Len(blocks) ELSE pos + 1
<1>1. n \in Nat
  OBVIOUS
<1>2. Hole \in Blocks
  BY DEF Hole, Blocks
<1>3. \A k \in 1..n : (IF k = pos + 1 THEN b ELSE IF k <= Len(blocks) THEN blocks[k] ELSE Hole) \in Blocks
  BY <1>2
<1>4. WriteAt(blocks, pos, b) \in [1..n -> Blocks]
  BY <1>3 DEF WriteAt
<1>5. QED BY <1>1, <1>4

\* put_bytes writes the content, whole, over nothing or over the same.
LEMMA WritesWhole ==
    ASSUME NEW c \in Contents, NEW d, d = <<>> \/ d = Content(c)
    PROVE  WriteAt(WriteAt(d, 0, Content(c)[1]), 1, Content(c)[2]) = Content(c)
<1> DEFINE a == Content(c)[1]
           b == Content(c)[2]
<1>1. Content(c) = <<a, b>>
  BY DEF Content
<1>2. CASE d = <<>>
  <2>1. WriteAt(d, 0, a) = <<a>>
    BY <1>2 DEF WriteAt
  <2>2. WriteAt(<<a>>, 1, b) = <<a, b>>
    BY DEF WriteAt
  <2>3. QED BY <1>1, <2>1, <2>2
<1>3. CASE d = <<a, b>>
  <2>1. WriteAt(d, 0, a) = <<a, b>>
    BY <1>3 DEF WriteAt
  <2>2. WriteAt(<<a, b>>, 1, b) = <<a, b>>
    BY DEF WriteAt
  <2>3. QED BY <1>1, <2>1, <2>2
<1>4. QED BY <1>1, <1>2, <1>3

--------------------------------------------------------------------------------
(* The types and shapes. *)

\* Everything starts empty.
LEMMA ShapeInit == Init => ShapeInv
<1> SUFFICES ASSUME Init PROVE ShapeInv
  OBVIOUS
<1>1. NoPut \in Calls /\ NoHandle \in Handles
  BY DEF NoPut, NoHandle, Calls, Handles
<1>2. TypeOK
  <2>0. <<>> \in Seq(Blocks)
    OBVIOUS
  <2>1. dir \in BOOLEAN /\ entry \in [Paths -> Files \cup {None}] /\ data \in [Files -> Seq(Blocks)]
    BY <2>0 DEF Init, FilesInit
  <2>2. put \in [Shells -> Calls] /\ handle \in [Sftps -> Handles]
    BY <1>1 DEF Init, FilesInit
  <2>3. QED BY <2>1, <2>2 DEF Init, HistoryInit, TypeOK
<1>3. \A s \in Shells : CallInv(s)
  BY DEF Init, FilesInit, NoPut, CallInv
<1>4. \A s \in Sftps : HandleInv(s)
  BY DEF Init, FilesInit, NoHandle, HandleInv
<1>5. QED BY <1>2, <1>3, <1>4 DEF ShapeInv

\* Writers are known by name.
LEMMA WritersType == ShapeInv => \A i \in Files : Writers(i) \subseteq Contents
<1> SUFFICES ASSUME ShapeInv, NEW i \in Files PROVE Writers(i) \subseteq Contents
  OBVIOUS
<1>1. \A s \in Shells : put[s].file = i => put[s].what \in Uploads
  BY Constants DEF ShapeInv, CallInv
<1>2. QED BY <1>1 DEF Writers, Contents

\* The histories of a file that is truncated or written keep their types.
LEMMA MeetsType ==
    ASSUME ShapeInv, NEW i \in Files, NEW who \in Contents, Truncates(i, who) \/ Writes(i, who)
    PROVE  /\ origin' \in [Files -> SUBSET Contents]
           /\ met' \in [Sftps -> SUBSET Contents] /\ calm' \in [Sftps -> BOOLEAN]
<1>1. Writers(i) \cup {who} \in SUBSET Contents /\ origin[i] \cup {who} \in SUBSET Contents
  BY WritersType DEF ShapeInv, TypeOK
<1>2. origin' \in [Files -> SUBSET Contents]
  BY <1>1 DEF Truncates, Writes, ShapeInv, TypeOK
<1>3. \A s \in Sftps : met[s] \cup {who} \in SUBSET Contents
  BY DEF ShapeInv, TypeOK
<1>4. QED BY <1>2, <1>3 DEF Truncates, Writes, Meets, ShapeInv, TypeOK

\* What is left of the histories of transfers keeps its type.
LEMMA NamesType ==
    ASSUME ShapeInv, Names
    PROVE  stored' \in [Paths -> BOOLEAN] /\ alone' \in [Shells -> BOOLEAN]
<1>1. \A p \in Paths : (stored[p] /\ entry'[p] = entry[p]) \in BOOLEAN
  OBVIOUS
<1>2. \A d \in Shells : (alone[d] /\ dir' = dir /\ entry' = entry) \in BOOLEAN
  OBVIOUS
<1>3. QED BY <1>1, <1>2 DEF Names

\* A transfer that is answered, too.
LEMMA AnsweredType ==
    ASSUME ShapeInv, NEW s \in Shells, put[s].at # "no", Answered(s)
    PROVE  stored' \in [Paths -> BOOLEAN] /\ alone' \in [Shells -> BOOLEAN]
<1>1. put[s].path \in Paths
  BY DEF ShapeInv, CallInv
<1>2. QED BY <1>1 DEF Answered, ShapeInv, TypeOK

\* Opening for writing keeps the types, and gives a file.
LEMMA OpeningType ==
    ASSUME ShapeInv, NEW p \in Paths, NEW i \in Files, OpenForWriting(p, i)
    PROVE  entry' \in [Paths -> Files \cup {None}] /\ data' \in [Files -> Seq(Blocks)]
  BY DEF OpenForWriting, ShapeInv, TypeOK

\* Every step of a shell keeps types and shapes.
LEMMA CallShape ==
    ASSUME ShapeInv, NEW s \in Shells,
           \/ \E p \in Paths, c \in Uploads : Starts(s, p, c)
           \/ Opens(s) \/ Fills(s) \/ Fails(s)
    PROVE  ShapeInv'
<1>1. NoPut \in Calls /\ NoPut.at = "no" /\ NoPut.file = None
  BY DEF NoPut, Calls
<1>2. ASSUME NEW p \in Paths, NEW c \in Uploads, Starts(s, p, c) PROVE ShapeInv'
  <2> DEFINE call == [at |-> "open", path |-> p, what |-> c, file |-> None]
  <2>1. call \in Calls
    BY DEF Calls
  <2>2. TypeOK'
    BY <1>2, <2>1 DEF Starts, PutStarts, NoWriter, ShapeInv, TypeOK
  <2>3. \A t \in Shells : CallInv(t)'
    BY <1>2 DEF Starts, PutStarts, ShapeInv, TypeOK, CallInv
  <2>4. \A t \in Sftps : HandleInv(t)'
    BY <1>2 DEF Starts, PutStarts, ShapeInv, HandleInv
  <2>5. QED BY <2>2, <2>3, <2>4 DEF ShapeInv
<1>3. CASE Opens(s)
  <2>1. PICK i \in Files : OpenForWriting(put[s].path, i) /\ put' = [put EXCEPT ![s].at = "write", ![s].file = i]
    BY <1>3 DEF Opens, PutOpens
  <2>2. put[s] \in Calls /\ put[s].at = "open" /\ put[s].path \in Paths /\ put[s].what \in Uploads /\ i # None
    BY <1>3, Constants DEF Opens, PutOpens, ShapeInv, TypeOK, CallInv
  <2>3. put' \in [Shells -> Calls] /\ put'[s] = [put[s] EXCEPT !.at = "write", !.file = i]
    BY <2>1, <2>2 DEF ShapeInv, TypeOK, Calls
  <2>4. entry' \in [Paths -> Files \cup {None}] /\ data' \in [Files -> Seq(Blocks)]
    BY <2>1, <2>2, OpeningType
  <2>5. /\ origin' \in [Files -> SUBSET Contents]
        /\ met' \in [Sftps -> SUBSET Contents] /\ calm' \in [Sftps -> BOOLEAN]
    BY <1>3, <2>2, <2>3, MeetsType DEF Opens, Calls, Contents
  <2>6. TypeOK'
    BY <1>3, <2>3, <2>4, <2>5 DEF Opens, PutOpens, ShapeInv, TypeOK
  <2>7. \A t \in Shells : CallInv(t)'
    BY <2>1, <2>2, <2>3 DEF ShapeInv, TypeOK, CallInv, Calls
  <2>8. \A t \in Sftps : HandleInv(t)'
    BY <1>3 DEF Opens, PutOpens, ShapeInv, HandleInv
  <2>9. QED BY <2>6, <2>7, <2>8 DEF ShapeInv
<1>4. CASE Fills(s)
  <2> DEFINE f == put[s].file
             a == Content(put[s].what)
  <2>1. put[s].at = "write" /\ f \in Files /\ put[s].what \in Contents
    BY <1>4 DEF Fills, PutWrites, ShapeInv, TypeOK, CallInv, Calls, Contents
  <2>2. WriteAt(WriteAt(data[f], 0, a[1]), 1, a[2]) \in Seq(Blocks)
    BY <2>1, ContentShape, WriteAtType DEF ShapeInv, TypeOK
  <2>3. data' \in [Files -> Seq(Blocks)]
    BY <1>4, <2>2 DEF Fills, PutWrites, ShapeInv, TypeOK
  <2>4. /\ origin' \in [Files -> SUBSET Contents]
        /\ met' \in [Sftps -> SUBSET Contents] /\ calm' \in [Sftps -> BOOLEAN]
    BY <1>4, <2>1, MeetsType DEF Fills
  <2>5. stored' \in [Paths -> BOOLEAN] /\ alone' \in [Shells -> BOOLEAN]
    BY <1>4, <2>1, AnsweredType DEF Fills
  <2>6. TypeOK'
    BY <1>1, <1>4, <2>3, <2>4, <2>5 DEF Fills, PutWrites, ShapeInv, TypeOK
  <2>7. \A t \in Shells : CallInv(t)'
    BY <1>1, <1>4 DEF Fills, PutWrites, ShapeInv, TypeOK, CallInv
  <2>8. \A t \in Sftps : HandleInv(t)'
    BY <1>4 DEF Fills, PutWrites, ShapeInv, HandleInv
  <2>9. QED BY <2>6, <2>7, <2>8 DEF ShapeInv
<1>5. CASE Fails(s)
  <2>1. stored' \in [Paths -> BOOLEAN] /\ alone' \in [Shells -> BOOLEAN]
    BY <1>5, AnsweredType DEF Fails, PutFails
  <2>2. TypeOK'
    BY <1>1, <1>5, <2>1 DEF Fails, PutFails, NoWriter, ShapeInv, TypeOK
  <2>3. \A t \in Shells : CallInv(t)'
    BY <1>1, <1>5 DEF Fails, PutFails, ShapeInv, TypeOK, CallInv
  <2>4. \A t \in Sftps : HandleInv(t)'
    BY <1>5 DEF Fails, PutFails, ShapeInv, HandleInv
  <2>5. QED BY <2>2, <2>3, <2>4 DEF ShapeInv
<1>6. QED BY <1>2, <1>3, <1>4, <1>5

\* And so does every step of an SFTP session.
LEMMA HandleShape ==
    ASSUME ShapeInv, NEW s \in Sftps,
           \/ \E p \in Paths : OpensToWrite(s, p) \/ OpensToRead(s, p)
           \/ Extends(s) \/ Gets(s) \/ Renames(s) \/ SftpEnds(s)
    PROVE  ShapeInv'
<1>1. /\ NoHandle \in Handles /\ NoHandle.mode = "no" /\ NoHandle.file = None
      /\ NoHandle.got = <<>> /\ NoHandle.pos = 0
  BY DEF NoHandle, Handles
<1>2. handle[s] \in Handles /\ s \in Contents
  BY DEF ShapeInv, TypeOK, Contents
<1>3. ASSUME NEW p \in Paths, OpensToWrite(s, p) PROVE ShapeInv'
  <2>1. PICK i \in Files : /\ OpenForWriting(p, i)
                           /\ handle' = [handle EXCEPT ![s] = [NoHandle EXCEPT !.mode = "write", !.file = i]]
    BY <1>3 DEF OpensToWrite, SftpOpenWrite
  <2> DEFINE h == [NoHandle EXCEPT !.mode = "write", !.file = i]
  <2>2. h \in Handles /\ h.mode = "write" /\ h.file = i /\ i # None
    BY <1>1, Constants DEF NoHandle, Handles
  <2>3. handle' \in [Sftps -> Handles] /\ handle'[s] = h
    BY <2>1, <2>2 DEF ShapeInv, TypeOK
  <2>4. entry' \in [Paths -> Files \cup {None}] /\ data' \in [Files -> Seq(Blocks)]
    BY <2>1, OpeningType
  <2>5. /\ origin' \in [Files -> SUBSET Contents]
        /\ met' \in [Sftps -> SUBSET Contents] /\ calm' \in [Sftps -> BOOLEAN]
    BY <1>2, <1>3, <2>2, <2>3, MeetsType DEF OpensToWrite
  <2>6. stored' \in [Paths -> BOOLEAN] /\ alone' \in [Shells -> BOOLEAN]
    BY <1>3, NamesType DEF OpensToWrite
  <2>7. TypeOK'
    BY <1>3, <2>3, <2>4, <2>5, <2>6 DEF OpensToWrite, SftpOpenWrite, ShapeInv, TypeOK
  <2>8. \A t \in Shells : CallInv(t)'
    BY <1>3 DEF OpensToWrite, SftpOpenWrite, ShapeInv, CallInv
  <2>9. \A t \in Sftps : HandleInv(t)'
    BY <2>1, <2>2, <2>3 DEF ShapeInv, TypeOK, HandleInv
  <2>10. QED BY <2>7, <2>8, <2>9 DEF ShapeInv
<1>4. ASSUME NEW p \in Paths, OpensToRead(s, p) PROVE ShapeInv'
  <2> DEFINE h == [NoHandle EXCEPT !.mode = "read", !.file = entry[p]]
  <2>1. handle' = [handle EXCEPT ![s] = h] /\ entry[p] \in Files
    BY <1>4 DEF OpensToRead, SftpOpenRead, ShapeInv, TypeOK
  <2>2. h \in Handles /\ h.mode = "read" /\ h.file # None /\ h.got = <<>> /\ h.pos = 0
    BY <1>1, <2>1, Constants DEF NoHandle, Handles
  <2>3. handle' \in [Sftps -> Handles]
    BY <2>1, <2>2 DEF ShapeInv, TypeOK
  <2>4. met' \in [Sftps -> SUBSET Contents] /\ calm' \in [Sftps -> BOOLEAN] /\ origin' = origin
    BY <1>4, <2>1 DEF OpensToRead, StartsReading, ShapeInv, TypeOK
  <2>5. stored' \in [Paths -> BOOLEAN] /\ alone' \in [Shells -> BOOLEAN]
    BY <1>4, NamesType DEF OpensToRead
  <2>6. TypeOK'
    BY <1>4, <2>3, <2>4, <2>5 DEF OpensToRead, SftpOpenRead, ShapeInv, TypeOK
  <2>7. \A t \in Shells : CallInv(t)'
    BY <1>4 DEF OpensToRead, SftpOpenRead, ShapeInv, CallInv
  <2>8. \A t \in Sftps : HandleInv(t)'
    BY <2>1, <2>2 DEF ShapeInv, TypeOK, HandleInv
  <2>9. QED BY <2>6, <2>7, <2>8 DEF ShapeInv
<1>5. CASE Extends(s)
  <2> DEFINE f == handle[s].file
             pos == handle[s].pos
  <2>1. handle[s].mode = "write" /\ f \in Files /\ pos \in 0..1
    BY <1>2, <1>5 DEF Extends, SftpWrite, ShapeInv, HandleInv, Handles
  <2>2. Content(s)[pos + 1] \in Blocks
    BY <1>2, <2>1, ContentShape
  <2>3. WriteAt(data[f], pos, Content(s)[pos + 1]) \in Seq(Blocks)
    <3>1. data[f] \in Seq(Blocks) /\ pos \in Nat
      BY <2>1 DEF ShapeInv, TypeOK
    <3>2. QED BY <2>2, <3>1, WriteAtType
  <2>4. data' \in [Files -> Seq(Blocks)]
    BY <1>5, <2>3 DEF Extends, SftpWrite, ShapeInv, TypeOK
  <2>5. handle' \in [Sftps -> Handles] /\ handle'[s] = [handle[s] EXCEPT !.pos = pos + 1]
    <3>1. handle' = [handle EXCEPT ![s] = [handle[s] EXCEPT !.pos = pos + 1]]
      BY <1>5 DEF Extends, SftpWrite
    <3>2. [handle[s] EXCEPT !.pos = pos + 1] \in Handles
      BY <1>2, <2>1 DEF Handles
    <3>3. QED BY <3>1, <3>2 DEF ShapeInv, TypeOK
  <2>6. /\ origin' \in [Files -> SUBSET Contents]
        /\ met' \in [Sftps -> SUBSET Contents] /\ calm' \in [Sftps -> BOOLEAN]
    BY <1>2, <1>5, <2>1, MeetsType DEF Extends
  <2>7. stored' \in [Paths -> BOOLEAN] /\ alone' \in [Shells -> BOOLEAN]
    BY <1>5, NamesType DEF Extends
  <2>8. TypeOK'
    BY <1>5, <2>4, <2>5, <2>6, <2>7 DEF Extends, SftpWrite, ShapeInv, TypeOK
  <2>9. \A t \in Shells : CallInv(t)'
    BY <1>5 DEF Extends, SftpWrite, ShapeInv, CallInv
  <2>10. \A t \in Sftps : HandleInv(t)'
    BY <1>2, <1>5, <2>1, <2>5 DEF Extends, SftpWrite, ShapeInv, TypeOK, HandleInv, Handles
  <2>11. QED BY <2>8, <2>9, <2>10 DEF ShapeInv
<1>6. CASE Gets(s)
  <2> DEFINE f == handle[s].file
             pos == handle[s].pos
             b == data[f][pos + 1]
  <2>1. handle[s].mode = "read" /\ f \in Files /\ pos \in 0..1 /\ pos < Len(data[f]) /\ Len(handle[s].got) = pos
    BY <1>2, <1>6 DEF Gets, SftpRead, AtEnd, ShapeInv, TypeOK, HandleInv, Handles
  <2>2. b \in Blocks
    BY <2>1 DEF ShapeInv, TypeOK
  <2>3. /\ Append(handle[s].got, b) \in Seq(Blocks)
        /\ Len(Append(handle[s].got, b)) = pos + 1
    BY <1>2, <2>1, <2>2 DEF Handles
  <2>4. /\ handle' \in [Sftps -> Handles]
        /\ handle'[s] = [handle[s] EXCEPT !.pos = pos + 1, !.got = Append(handle[s].got, b)]
    BY <1>2, <1>6, <2>1, <2>3 DEF Gets, SftpRead, ShapeInv, TypeOK, Handles
  <2>5. stored' \in [Paths -> BOOLEAN] /\ alone' \in [Shells -> BOOLEAN]
    BY <1>6, NamesType DEF Gets
  <2>6. TypeOK'
    BY <1>6, <2>4, <2>5 DEF Gets, SftpRead, NoWriter, ShapeInv, TypeOK
  <2>7. \A t \in Shells : CallInv(t)'
    BY <1>6 DEF Gets, SftpRead, ShapeInv, CallInv
  <2>8. \A t \in Sftps : HandleInv(t)'
    BY <1>2, <1>6, <2>1, <2>3, <2>4 DEF Gets, SftpRead, ShapeInv, TypeOK, HandleInv, Handles
  <2>9. QED BY <2>6, <2>7, <2>8 DEF ShapeInv
<1>7. CASE Renames(s)
  <2>1. dir' \in BOOLEAN /\ entry' \in [Paths -> Files \cup {None}]
    BY <1>7 DEF Renames, SftpNames, SftpRemove, SftpRename, SftpMkdir, SftpRmdir, ShapeInv, TypeOK
  <2>2. UNCHANGED <<data, put, handle>>
    BY <1>7 DEF Renames, SftpNames, SftpRemove, SftpRename, SftpMkdir, SftpRmdir
  <2>3. stored' \in [Paths -> BOOLEAN] /\ alone' \in [Shells -> BOOLEAN]
    BY <1>7, NamesType DEF Renames
  <2>4. QED BY <1>7, <2>1, <2>2, <2>3 DEF Renames, NoWriter, ShapeInv, TypeOK, CallInv, HandleInv
<1>8. CASE SftpEnds(s)
  <2>1. handle' = [handle EXCEPT ![s] = NoHandle] /\ UNCHANGED <<dir, entry, data, put, origin, alone, stored>>
    BY <1>8 DEF SftpEnds, SftpClose
  <2>2. TypeOK'
    BY <1>1, <1>8, <2>1 DEF SftpEnds, ShapeInv, TypeOK
  <2>3. \A t \in Shells : CallInv(t)'
    BY <2>1 DEF ShapeInv, CallInv
  <2>4. \A t \in Sftps : HandleInv(t)'
    BY <1>1, <2>1 DEF ShapeInv, TypeOK, HandleInv
  <2>5. QED BY <2>2, <2>3, <2>4 DEF ShapeInv
<1>9. QED BY <1>3, <1>4, <1>5, <1>6, <1>7, <1>8

\* So does every step, and one that changes nothing.
LEMMA ShapeStep == ShapeInv /\ [Next]_vars => ShapeInv'
<1> SUFFICES ASSUME ShapeInv, [Next]_vars PROVE ShapeInv'
  OBVIOUS
<1>1. CASE Next
  BY <1>1, Steps, CallShape, HandleShape
<1>2. CASE UNCHANGED vars
  BY <1>2 DEF vars, fileVars, history, ShapeInv, TypeOK, CallInv, HandleInv
<1>3. QED BY <1>1, <1>2

--------------------------------------------------------------------------------
(* What a step does to one file. *)

\* It leaves the file and its readers alone, although an SFTP session may close it.
Untouched(i) ==
    /\ data'[i] = data[i] /\ origin'[i] = origin[i]
    /\ InUse(i)' => InUse(i)
    /\ Writers(i)' \subseteq Writers(i) /\ Writers(i) \cap Uploads \subseteq Writers(i)'
    /\ \A s \in Sftps : Reads(s, i) /\ handle'[s] = handle[s] => met'[s] = met[s] /\ calm'[s] = calm[s]

\* Its readers meet `who`.
Met(i, who) ==
    \A s \in Sftps : Reads(s, i) => met'[s] = met[s] \cup {who} /\ ~calm'[s]

\* `who` opens the file and truncates it, writes its whole content, or a block.
Emptied(i, who) ==
    /\ data'[i] = <<>> /\ origin'[i] = Writers(i) \cup {who}
    /\ Writers(i)' = Writers(i) \cup {who} /\ Met(i, who)
Filled(i, who) ==
    /\ who \in Uploads /\ who \in Writers(i)
    /\ data'[i] = WriteAt(WriteAt(data[i], 0, Content(who)[1]), 1, Content(who)[2])
    /\ origin'[i] = origin[i] \cup {who} /\ Writers(i)' \subseteq Writers(i) /\ Met(i, who)
Extended(i, who) ==
    /\ who \in Sftps /\ who \in Writers(i)
    /\ origin'[i] = origin[i] \cup {who} /\ Writers(i)' \subseteq Writers(i) /\ Met(i, who)

\* One of these.
FileStep(i) ==
    \/ Untouched(i)
    \/ \E who \in Contents : Emptied(i, who) \/ Filled(i, who) \/ Extended(i, who)

\* Who writes a file, before and after a step.
LEMMA WritersAre ==
    ASSUME NEW i, NEW w
    PROVE  /\ w \in Writers(i) <=> \/ \E s \in Shells : put[s].file = i /\ put[s].what = w
                                   \/ w \in Sftps /\ handle[w].mode = "write" /\ handle[w].file = i
           /\ w \in Writers(i)' <=> \/ \E s \in Shells : put'[s].file = i /\ put'[s].what = w
                                    \/ w \in Sftps /\ handle'[w].mode = "write" /\ handle'[w].file = i
  BY DEF Writers

\* The readers of a file that is truncated or written meet the writer, and no others.
LEMMA Meeting ==
    ASSUME ShapeInv, NEW i \in Files, NEW who, Truncates(i, who) \/ Writes(i, who)
    PROVE  /\ Truncates(i, who) => origin'[i] = Writers(i) \cup {who}
           /\ Writes(i, who) => origin'[i] = origin[i] \cup {who}
           /\ Met(i, who)
           /\ \A j \in Files : j # i =>
                origin'[j] = origin[j]
                /\ \A s \in Sftps : Reads(s, j) => met'[s] = met[s] /\ calm'[s] = calm[s]
<1>1. \A j \in Files, s \in Sftps : j # i /\ Reads(s, j) => ~Reads(s, i)
  BY DEF Reads
<1>2. Meets(i, who)
  BY DEF Truncates, Writes
<1>3. Met(i, who)
  BY <1>2 DEF Meets, Met
<1>4. \A s \in Sftps : ~Reads(s, i) => met'[s] = met[s] /\ calm'[s] = calm[s]
  BY <1>2 DEF Meets, ShapeInv, TypeOK
<1>5. /\ Truncates(i, who) => origin'[i] = Writers(i) \cup {who}
      /\ Writes(i, who) => origin'[i] = origin[i] \cup {who}
  BY DEF Truncates, Writes, ShapeInv, TypeOK
<1>6. \A j \in Files : j # i => origin'[j] = origin[j]
  BY DEF Truncates, Writes, ShapeInv, TypeOK
<1>7. QED BY <1>1, <1>3, <1>4, <1>5, <1>6

\* Opening a file for writing brings no other into use.
LEMMA OpeningFile ==
    ASSUME ShapeInv, NEW p \in Paths, NEW i \in Files, OpenForWriting(p, i)
    PROVE  /\ data'[i] = <<>>
           /\ \A j \in Files : j # i =>
                data'[j] = data[j] /\ \A q \in Paths : entry'[q] = j => entry[q] = j
  BY DEF OpenForWriting, ShapeInv, TypeOK

\* A call of put_bytes opens its file, writes it, or touches none.
LEMMA CallFile ==
    ASSUME ShapeInv, NEW s \in Shells, NEW i \in Files,
           \/ \E p \in Paths, c \in Uploads : Starts(s, p, c)
           \/ Opens(s) \/ Fills(s) \/ Fails(s)
    PROVE  FileStep(i)
<1>0. put[s] \in Calls /\ NoPut.file = None /\ i # None
  BY Constants DEF ShapeInv, TypeOK, NoPut
<1>1. ASSUME UNCHANGED <<entry, data, handle>>, NoWriter, put[s].file = None, put'[s].file = None,
             \A t \in Shells : t # s => put'[t] = put[t]
      PROVE  FileStep(i)
  <2>1. \A t \in Shells : put'[t].file = i <=> put[t].file = i
    BY <1>0, <1>1
  <2>2. \A t \in Shells : put'[t].file = i => put'[t].what = put[t].what
    BY <1>0, <1>1
  <2>3. InUse(i)' => InUse(i)
    BY <1>1, <2>1 DEF InUse
  <2>4. \A w : w \in Writers(i)' <=> w \in Writers(i)
    BY <1>1, <2>1, <2>2, WritersAre
  <2>5. QED BY <1>1, <2>3, <2>4 DEF NoWriter, Untouched, FileStep
<1>2. CASE \E p \in Paths, c \in Uploads : Starts(s, p, c)
  BY <1>1, <1>2 DEF Starts, PutStarts, ShapeInv, TypeOK, CallInv
<1>3. CASE Fails(s)
  BY <1>0, <1>1, <1>3 DEF Fails, PutFails, ShapeInv, TypeOK, CallInv
<1>4. CASE Opens(s)
  <2>1. PICK f \in Files : OpenForWriting(put[s].path, f) /\ put' = [put EXCEPT ![s].at = "write", ![s].file = f]
    BY <1>4 DEF Opens, PutOpens
  <2>2. /\ put[s].file = None /\ put[s].path \in Paths /\ put[s].what \in Uploads
        /\ handle' = handle
    BY <1>4 DEF Opens, PutOpens, ShapeInv, CallInv
  <2>3. /\ put'[s].file = f /\ put'[s].what = put[s].what
        /\ \A t \in Shells : t # s => put'[t] = put[t]
    BY <1>0, <2>1 DEF ShapeInv, TypeOK, Calls
  <2>4. Truncates(f, put[s].what)
    BY <1>4, <2>3 DEF Opens
  <2>5. CASE i = f
    <3>1. data'[i] = <<>>
      BY <2>1, <2>2, <2>5, OpeningFile
    <3>2. \A w : w \in Writers(i)' <=> w \in Writers(i) \/ w = put[s].what
      BY <1>0, <2>2, <2>3, <2>5, WritersAre
    <3>3. Writers(i)' = Writers(i) \cup {put[s].what}
      BY <3>2
    <3>4. origin'[i] = Writers(i) \cup {put[s].what} /\ Met(i, put[s].what)
      BY <2>4, <2>5, Meeting
    <3>5. put[s].what \in Contents
      BY <2>2 DEF Contents
    <3>6. QED BY <3>1, <3>3, <3>4, <3>5 DEF Emptied, FileStep
  <2>6. CASE i # f
    <3>1. /\ data'[i] = data[i] /\ origin'[i] = origin[i]
          /\ \A t \in Sftps : Reads(t, i) => met'[t] = met[t] /\ calm'[t] = calm[t]
      <4>1. data'[i] = data[i]
        BY <2>1, <2>2, <2>6, OpeningFile
      <4>2. QED BY <4>1, <2>4, <2>6, Meeting
    <3>2. \A w : w \in Writers(i)' <=> w \in Writers(i)
      BY <1>0, <2>2, <2>3, <2>6, WritersAre
    <3>3. InUse(i)' => InUse(i)
      <4>1. \A q \in Paths : entry'[q] = i => entry[q] = i
        BY <2>1, <2>2, <2>6, OpeningFile
      <4>2. QED BY <4>1, <2>2, <2>3, <2>6 DEF InUse
    <3>4. QED BY <3>1, <3>2, <3>3 DEF Untouched, FileStep
  <2>7. QED BY <2>5, <2>6
<1>5. CASE Fills(s)
  <2> DEFINE f == put[s].file
             c == put[s].what
  <2>1. /\ f \in Files /\ c \in Uploads /\ c \in Contents
        /\ UNCHANGED <<entry, handle>>
        /\ put'[s].file = None /\ \A t \in Shells : t # s => put'[t] = put[t]
    BY <1>0, <1>5 DEF Fills, PutWrites, ShapeInv, TypeOK, CallInv, Calls, Contents
  <2>2. data' = [data EXCEPT ![f] = WriteAt(WriteAt(@, 0, Content(c)[1]), 1, Content(c)[2])]
    BY <1>5 DEF Fills, PutWrites
  <2>3. Writes(f, c)
    BY <1>5 DEF Fills
  <2>4. \A w : w \in Writers(i)' => w \in Writers(i)
    BY <1>0, <2>1, WritersAre
  <2>5. InUse(i)' => InUse(i)
    BY <1>0, <2>1 DEF InUse
  <2>6. CASE i = f
    <3>1. data'[i] = WriteAt(WriteAt(data[i], 0, Content(c)[1]), 1, Content(c)[2])
      BY <2>1, <2>2, <2>6 DEF ShapeInv, TypeOK
    <3>2. c \in Writers(i)
      BY <2>6, WritersAre
    <3>3. origin'[i] = origin[i] \cup {c}
      BY <2>1, <2>3, <2>6, Meeting
    <3>4. Met(i, c)
      BY <2>1, <2>3, <2>6, Meeting
    <3>5. QED BY <2>1, <2>4, <3>1, <3>2, <3>3, <3>4 DEF Filled, FileStep
  <2>7. CASE i # f
    <3>1. data'[i] = data[i]
      BY <2>1, <2>2, <2>7 DEF ShapeInv, TypeOK
    <3>2. /\ origin'[i] = origin[i]
          /\ \A t \in Sftps : Reads(t, i) => met'[t] = met[t] /\ calm'[t] = calm[t]
      BY <2>1, <2>3, <2>7, Meeting
    <3>3. \A w : w \in Writers(i) => w \in Writers(i)'
      BY <1>0, <2>1, <2>7, WritersAre
    <3>4. QED BY <2>4, <2>5, <3>1, <3>2, <3>3 DEF Untouched, FileStep
  <2>8. QED BY <2>6, <2>7
<1>6. QED BY <1>2, <1>3, <1>4, <1>5

\* So does a request of an SFTP session, or its end.
LEMMA HandleFile ==
    ASSUME ShapeInv, NEW s \in Sftps, NEW i \in Files,
           \/ \E p \in Paths : OpensToWrite(s, p) \/ OpensToRead(s, p)
           \/ Extends(s) \/ Gets(s) \/ Renames(s) \/ SftpEnds(s)
    PROVE  FileStep(i)
<1>0. /\ handle[s] \in Handles /\ NoHandle.mode = "no" /\ NoHandle.file = None
      /\ i # None /\ s \in Contents /\ s \notin Uploads
  BY Constants DEF ShapeInv, TypeOK, NoHandle, Contents
<1>1. ASSUME UNCHANGED <<data, put, origin>>, InUse(i)' => InUse(i),
             ~(handle[s].mode = "write" /\ handle'[s].mode = "read"),
             handle'[s].mode = "write" => handle[s].mode = "write" /\ handle'[s].file = handle[s].file,
             \A t \in Sftps : t # s => handle'[t] = handle[t],
             \A t \in Sftps : Reads(t, i) /\ handle'[t] = handle[t] => met'[t] = met[t] /\ calm'[t] = calm[t]
      PROVE  FileStep(i)
  <2>1. \A w : w \in Writers(i)' => w \in Writers(i)
    BY <1>1, WritersAre
  <2>2. \A w \in Uploads : w \in Writers(i) => w \in Writers(i)'
    BY <1>0, <1>1, WritersAre
  <2>3. QED BY <1>1, <2>1, <2>2 DEF Untouched, FileStep
<1>2. ASSUME NEW p \in Paths, OpensToWrite(s, p) PROVE FileStep(i)
  <2>1. PICK f \in Files : /\ OpenForWriting(p, f)
                           /\ handle' = [handle EXCEPT ![s] = [NoHandle EXCEPT !.mode = "write", !.file = f]]
    BY <1>2 DEF OpensToWrite, SftpOpenWrite
  <2>2. /\ handle'[s].mode = "write" /\ handle'[s].file = f /\ handle[s].mode = "no" /\ handle[s].file = None
        /\ \A t \in Sftps : t # s => handle'[t] = handle[t]
        /\ put' = put
    BY <1>2, <2>1 DEF OpensToWrite, SftpOpenWrite, NoHandle, ShapeInv, TypeOK, HandleInv
  <2>3. Truncates(f, s)
    BY <1>2, <2>2 DEF OpensToWrite
  <2>4. CASE i = f
    <3>1. data'[i] = <<>>
      BY <2>1, <2>4, OpeningFile
    <3>2. \A w : w \in Writers(i)' <=> w \in Writers(i) \/ w = s
      BY <2>2, <2>4, WritersAre
    <3>3. Writers(i)' = Writers(i) \cup {s}
      BY <3>2
    <3>4. origin'[i] = Writers(i) \cup {s} /\ Met(i, s)
      BY <2>3, <2>4, Meeting
    <3>5. QED BY <1>0, <3>1, <3>3, <3>4 DEF Emptied, FileStep
  <2>5. CASE i # f
    <3>1. data'[i] = data[i] /\ \A q \in Paths : entry'[q] = i => entry[q] = i
      BY <2>1, <2>5, OpeningFile
    <3>2. /\ origin'[i] = origin[i]
          /\ \A t \in Sftps : Reads(t, i) => met'[t] = met[t] /\ calm'[t] = calm[t]
      BY <2>3, <2>5, Meeting
    <3>3. \A w : w \in Writers(i)' <=> w \in Writers(i)
      BY <2>2, <2>5, WritersAre
    <3>4. InUse(i)' => InUse(i)
      BY <2>2, <2>5, <3>1 DEF InUse
    <3>5. QED BY <3>1, <3>2, <3>3, <3>4 DEF Untouched, FileStep
  <2>6. QED BY <2>4, <2>5
<1>3. ASSUME NEW p \in Paths, OpensToRead(s, p) PROVE FileStep(i)
  <2>1. /\ handle' = [handle EXCEPT ![s] = [NoHandle EXCEPT !.mode = "read", !.file = entry[p]]]
        /\ handle[s].mode = "no" /\ UNCHANGED <<entry, data, put, origin>>
    BY <1>3 DEF OpensToRead, SftpOpenRead, StartsReading
  <2>2. /\ handle'[s].mode = "read" /\ handle'[s].file = entry[p] /\ handle'[s] # handle[s]
        /\ \A t \in Sftps : t # s => handle'[t] = handle[t]
    BY <2>1 DEF NoHandle, ShapeInv, TypeOK
  <2>3. InUse(i)' => InUse(i)
    BY <2>1, <2>2 DEF InUse
  <2>4. \A t \in Sftps : t # s => met'[t] = met[t] /\ calm'[t] = calm[t]
    BY <1>3 DEF OpensToRead, StartsReading, ShapeInv, TypeOK
  <2>5. QED BY <1>1, <2>1, <2>2, <2>3, <2>4
<1>4. CASE Extends(s)
  <2> DEFINE f == handle[s].file
  <2>1. handle[s].mode = "write" /\ f \in Files
    BY <1>0, <1>4 DEF Extends, SftpWrite, ShapeInv, HandleInv, Handles
  <2>2. /\ UNCHANGED <<entry, put>> /\ \A j \in Files : j # f => data'[j] = data[j]
        /\ handle' = [handle EXCEPT ![s] = [handle[s] EXCEPT !.pos = handle[s].pos + 1]]
    BY <1>4 DEF Extends, SftpWrite, ShapeInv, TypeOK
  <2>3. /\ handle'[s].mode = handle[s].mode /\ handle'[s].file = handle[s].file
        /\ \A t \in Sftps : t # s => handle'[t] = handle[t]
    BY <1>0, <2>2 DEF ShapeInv, TypeOK, Handles
  <2>4. Writes(f, s)
    BY <1>4 DEF Extends
  <2>5. \A w : w \in Writers(i)' <=> w \in Writers(i)
    BY <2>2, <2>3, WritersAre
  <2>6. InUse(i)' => InUse(i)
    BY <2>2, <2>3 DEF InUse
  <2>7. CASE i = f
    <3>1. s \in Writers(i)
      BY <2>1, <2>7, WritersAre
    <3>2. origin'[i] = origin[i] \cup {s} /\ Met(i, s)
      BY <2>1, <2>4, <2>7, Meeting
    <3>3. QED BY <1>0, <2>5, <3>1, <3>2 DEF Extended, FileStep
  <2>8. CASE i # f
    <3>1. /\ origin'[i] = origin[i]
          /\ \A t \in Sftps : Reads(t, i) => met'[t] = met[t] /\ calm'[t] = calm[t]
      BY <2>1, <2>4, <2>8, Meeting
    <3>2. QED BY <2>2, <2>5, <2>6, <2>8, <3>1 DEF Untouched, FileStep
  <2>9. QED BY <2>7, <2>8
<1>5. CASE Gets(s)
  <2>1. /\ UNCHANGED <<entry, data, put, origin, met, calm>> /\ handle[s].mode = "read"
        /\ handle'[s].mode = "read" /\ handle'[s].file = handle[s].file
        /\ \A t \in Sftps : t # s => handle'[t] = handle[t]
    BY <1>0, <1>5 DEF Gets, SftpRead, NoWriter, ShapeInv, TypeOK, Handles
  <2>2. InUse(i)' => InUse(i)
    BY <2>1 DEF InUse
  <2>3. QED BY <1>1, <2>1, <2>2
<1>6. CASE Renames(s)
  <2>1. UNCHANGED <<data, put, handle, origin, met, calm>>
    BY <1>6 DEF Renames, NoWriter, SftpNames, SftpRemove, SftpRename, SftpMkdir, SftpRmdir
  <2>2. \A q \in Paths : entry'[q] = i => \E p \in Paths : entry[p] = i
    BY <1>0, <1>6 DEF Renames, SftpNames, SftpRemove, SftpRename, SftpMkdir, SftpRmdir, ShapeInv, TypeOK
  <2>3. InUse(i)' => InUse(i)
    BY <2>1, <2>2 DEF InUse
  <2>4. QED BY <1>1, <2>1, <2>3
<1>7. CASE SftpEnds(s)
  <2>1. /\ UNCHANGED <<entry, data, put, origin>> /\ handle[s].mode # "no"
        /\ handle'[s].mode = "no" /\ handle'[s].file = None /\ handle'[s] # handle[s]
        /\ \A t \in Sftps : t # s => handle'[t] = handle[t] /\ met'[t] = met[t] /\ calm'[t] = calm[t]
    BY <1>0, <1>7 DEF SftpEnds, SftpClose, ShapeInv, TypeOK
  <2>2. InUse(i)' => InUse(i)
    BY <1>0, <2>1 DEF InUse
  <2>3. QED BY <1>1, <2>1, <2>2
<1>8. QED BY <1>2, <1>3, <1>4, <1>5, <1>6, <1>7

\* So does every step.
LEMMA StepOfFile == ASSUME ShapeInv, Next, NEW i \in Files PROVE FileStep(i)
  BY Steps, CallFile, HandleFile

\* A step leaves every file whole, or with somebody who is about to write it.
LEMMA FileInvStep ==
    ASSUME ShapeInv, NEW i \in Files, FileInv(i), Next
    PROVE  FileInv(i)'
<1>1. CASE Untouched(i)
  BY <1>1 DEF Untouched, FileInv
<1>2. ASSUME NEW who \in Contents, Emptied(i, who) PROVE FileInv(i)'
  BY <1>2 DEF Emptied, FileInv
<1>3. ASSUME NEW who \in Contents, Filled(i, who) PROVE FileInv(i)'
  <2>1. origin'[i] = origin[i] /\ who \in origin[i] /\ who \in Uploads
    BY <1>3 DEF Filled, FileInv
  <2>2. ASSUME origin[i] = {who} PROVE data'[i] = Content(who)
    <3>1. data[i] = <<>> \/ data[i] = Content(who)
      BY <2>1, <2>2 DEF FileInv
    <3>2. QED BY <1>3, <3>1, WritesWhole DEF Filled
  <2>3. QED BY <1>3, <2>1, <2>2 DEF Filled, FileInv
<1>4. ASSUME NEW who \in Contents, Extended(i, who) PROVE FileInv(i)'
  <2>1. origin'[i] = origin[i] /\ who \in origin[i] /\ who \notin Uploads
    BY <1>4, Constants DEF Extended, FileInv
  <2>2. QED BY <1>4, <2>1 DEF Extended, FileInv
<1>5. QED BY <1>1, <1>2, <1>3, <1>4, StepOfFile DEF FileStep

--------------------------------------------------------------------------------
(* The reads. *)

\* A read that is not the one that moves stays what it is, although its file may be written.
LEMMA OtherRead ==
    ASSUME ShapeInv, \A i \in Files : FileInv(i), NEW s \in Sftps, ReadInv(s), Next,
           handle'[s] = handle[s]
    PROVE  ReadInv(s)'
<1> SUFFICES ASSUME handle[s].mode = "read" PROVE ReadInv(s)'
  BY DEF ReadInv
<1>1. PICK f \in Files : f = handle[s].file /\ Reads(s, f) /\ InUse(f)
  BY DEF ShapeInv, TypeOK, HandleInv, Handles, Reads, InUse
<1>2. origin[f] # {} /\ Writers(f) \subseteq origin[f] /\ origin[f] \subseteq met[s]
  BY <1>1 DEF FileInv, ReadInv
<1>3. CASE Untouched(f)
  <2>1. origin'[f] = origin[f] /\ met'[s] = met[s] /\ calm'[s] = calm[s] /\ Writers(f)' \subseteq Writers(f)
    BY <1>1, <1>3 DEF Untouched
  <2>2. QED BY <1>1, <2>1 DEF ReadInv
<1>4. ASSUME NEW who \in Contents, Emptied(f, who) \/ Filled(f, who) \/ Extended(f, who) PROVE ReadInv(s)'
  <2>1. origin'[f] \subseteq origin[f] \cup {who} /\ met'[s] = met[s] \cup {who} /\ ~calm'[s]
    BY <1>1, <1>2, <1>4 DEF Emptied, Filled, Extended, Met
  <2>2. \A c \in Uploads : met'[s] = {c} => met[s] = {c}
    BY <1>2, <2>1
  <2>3. QED BY <1>1, <1>2, <2>1, <2>2 DEF ReadInv
<1>5. QED BY <1>1, <1>3, <1>4, StepOfFile DEF FileStep

\* A read starts with nothing, and gets the next block.
LEMMA OwnRead ==
    ASSUME ShapeInv, \A i \in Files : FileInv(i), NEW s \in Sftps, ReadInv(s),
           (\E p \in Paths : OpensToRead(s, p)) \/ Gets(s)
    PROVE  ReadInv(s)'
<1>0. handle[s] \in Handles
  BY DEF ShapeInv, TypeOK
<1>1. ASSUME NEW p \in Paths, OpensToRead(s, p) PROVE ReadInv(s)'
  <2>1. PICK f \in Files : f = entry[p]
    BY <1>1 DEF OpensToRead, SftpOpenRead, ShapeInv, TypeOK
  <2>2. handle'[s].file = f /\ handle'[s].pos = 0
    BY <1>1, <2>1 DEF OpensToRead, SftpOpenRead, NoHandle, ShapeInv, TypeOK
  <2>3. met'[s] = origin[f] /\ calm'[s] = (Writers(f) = {}) /\ origin' = origin
    BY <1>1, <2>1 DEF OpensToRead, StartsReading, ShapeInv, TypeOK
  <2>4. \A w : w \in Writers(f)' => w \in Writers(f)
    <3>1. UNCHANGED put /\ handle'[s].mode = "read" /\ \A t \in Sftps : t # s => handle'[t] = handle[t]
      BY <1>1 DEF OpensToRead, SftpOpenRead, NoHandle, ShapeInv, TypeOK
    <3>2. \A t \in Sftps : handle'[t].mode = "write" => handle'[t] = handle[t]
      BY <3>1
    <3>3. QED BY <3>1, <3>2, WritersAre
  <2>5. origin'[f] \subseteq met'[s] /\ (calm'[s] => Writers(f)' = {})
    BY <2>3, <2>4
  <2>6. QED BY <2>2, <2>5 DEF ReadInv
<1>2. CASE Gets(s)
  <2>0. PICK f \in Files : f = handle[s].file
    BY <1>0, <1>2 DEF Gets, SftpRead, ShapeInv, HandleInv, Handles
  <2> DEFINE pos == handle[s].pos
             got == handle[s].got
  <2>1. /\ handle[s].mode = "read" /\ pos \in 0..1 /\ pos < Len(data[f])
        /\ data[f] \in Seq(Blocks) /\ got \in Seq(Blocks) /\ Len(got) = pos
    BY <1>0, <1>2, <2>0 DEF Gets, SftpRead, AtEnd, ShapeInv, TypeOK, HandleInv, Handles
  <2>2. handle'[s].file = f /\ handle'[s].pos = pos + 1 /\ handle'[s].got = Append(got, data[f][pos + 1])
    BY <1>0, <1>2, <2>0 DEF Gets, SftpRead, ShapeInv, TypeOK, Handles
  <2>3. UNCHANGED <<data, put, origin, met, calm>>
    BY <1>2 DEF Gets, SftpRead, NoWriter
  <2>4. \A w : w \in Writers(f)' => w \in Writers(f)
    <3>1. handle'[s].mode = "read" /\ \A t \in Sftps : t # s => handle'[t] = handle[t]
      BY <1>0, <1>2, <2>1 DEF Gets, SftpRead, ShapeInv, TypeOK, Handles
    <3>2. \A t \in Sftps : handle'[t].mode = "write" => handle'[t] = handle[t]
      BY <3>1
    <3>3. QED BY <2>3, <3>2, WritersAre
  <2>5. origin[f] # {} /\ origin[f] \subseteq met[s] /\ (calm[s] => Writers(f) = {})
    BY <2>0, <2>1 DEF FileInv, ReadInv, InUse
  <2>6. ASSUME NEW c \in Uploads, met[s] = {c}, NEW k \in 1..pos + 1
        PROVE  Append(got, data[f][pos + 1])[k] = Content(c)[k]
    <3>1. origin[f] = {c}
      BY <2>5, <2>6
    <3>2. data[f] = Content(c)
      BY <2>1, <3>1 DEF FileInv
    <3>3. \A j \in 1..pos : got[j] = Content(c)[j]
      BY <2>1, <2>6 DEF ReadInv
    <3>4. QED BY <2>1, <3>2, <3>3
  <2>7. origin'[f] \subseteq met'[s] /\ (calm'[s] => Writers(f)' = {})
    BY <2>3, <2>4, <2>5
  <2>8. \A c \in Uploads : met'[s] = {c} =>
          \A k \in 1..handle'[s].pos : handle'[s].got[k] = Content(c)[k]
    BY <2>2, <2>3, <2>6
  <2>9. QED BY <2>2, <2>7, <2>8 DEF ReadInv
<1>3. QED BY <1>1, <1>2

\* Every other step of the session itself leaves it without a read.
LEMMA ReadInvStep ==
    ASSUME ShapeInv, \A i \in Files : FileInv(i), NEW s \in Sftps, ReadInv(s), Next
    PROVE  ReadInv(s)'
<1>1. ASSUME NEW t \in Shells,
             \/ \E p \in Paths, c \in Uploads : Starts(t, p, c)
             \/ Opens(t) \/ Fills(t) \/ Fails(t)
      PROVE  handle'[s] = handle[s]
  BY <1>1 DEF Starts, PutStarts, Opens, PutOpens, Fills, PutWrites, Fails, PutFails
<1>2. ASSUME NEW t \in Sftps, t # s,
             \/ \E p \in Paths : OpensToWrite(t, p) \/ OpensToRead(t, p)
             \/ Extends(t) \/ Gets(t) \/ SftpEnds(t)
      PROVE  handle'[s] = handle[s]
  BY <1>2 DEF OpensToWrite, SftpOpenWrite, OpensToRead, SftpOpenRead, Extends, SftpWrite, Gets,
     SftpRead, SftpEnds, SftpClose, ShapeInv, TypeOK
<1>3. ASSUME NEW t \in Sftps, Renames(t) PROVE handle'[s] = handle[s]
  BY <1>3 DEF Renames, SftpNames, SftpRemove, SftpRename, SftpMkdir, SftpRmdir
<1>4. ASSUME (\E p \in Paths : OpensToWrite(s, p)) \/ Extends(s) \/ SftpEnds(s)
      PROVE  handle'[s].mode # "read"
  <2>1. CASE Extends(s)
    BY <2>1 DEF Extends, SftpWrite, ShapeInv, TypeOK, Handles
  <2>2. CASE SftpEnds(s)
    BY <2>2 DEF SftpEnds, SftpClose, NoHandle, ShapeInv, TypeOK
  <2>3. ASSUME NEW p \in Paths, OpensToWrite(s, p) PROVE handle'[s].mode # "read"
    BY <2>3 DEF OpensToWrite, SftpOpenWrite, NoHandle, ShapeInv, TypeOK
  <2>4. QED BY <1>4, <2>1, <2>2, <2>3
<1>5. QED BY <1>1, <1>2, <1>3, <1>4, Steps, OtherRead, OwnRead DEF ReadInv

--------------------------------------------------------------------------------
(* The names. *)

\* A step of a shell takes no name away.
LEMMA CallKeepsNames ==
    ASSUME ShapeInv, NEW s \in Shells,
           \/ \E p \in Paths, c \in Uploads : Starts(s, p, c)
           \/ Opens(s) \/ Fills(s) \/ Fails(s)
    PROVE  (dir => dir') /\ \A p \in Paths : entry[p] # None => entry'[p] # None
<1>1. CASE Opens(s)
  <2>1. PICK f \in Files : OpenForWriting(put[s].path, f)
    BY <1>1 DEF Opens, PutOpens
  <2>2. \A p \in Paths : entry'[p] = IF p = put[s].path THEN f ELSE entry[p]
    BY <2>1 DEF OpenForWriting, ShapeInv, TypeOK
  <2>3. QED BY <1>1, <2>2, Constants DEF Opens, PutOpens
<1>2. QED BY <1>1 DEF Starts, PutStarts, Fills, PutWrites, Fails, PutFails

\* A transfer that is alone finds its directory, and its file until it has written it; and the
\* path of one that was answered has a file.
LEMMA NamesStep ==
    ASSUME ShapeInv, \A s \in Shells : AloneInv(s), StoredInv, Next
    PROVE  (\A s \in Shells : AloneInv(s)') /\ StoredInv'
<1>1. ASSUME NEW s \in Shells, NEW p \in Paths, NEW c \in Uploads, Starts(s, p, c)
      PROVE  (\A t \in Shells : AloneInv(t)') /\ StoredInv'
  <2>1. dir' /\ entry' = entry /\ stored' = stored /\ put'[s].at = "open"
        /\ \A t \in Shells : t # s => put'[t] = put[t] /\ alone'[t] = alone[t]
    BY <1>1 DEF Starts, PutStarts, ShapeInv, TypeOK
  <2>2. QED BY <2>1 DEF AloneInv, StoredInv
<1>2. ASSUME NEW s \in Shells, Opens(s) PROVE (\A t \in Shells : AloneInv(t)') /\ StoredInv'
  <2>1. PICK f \in Files : OpenForWriting(put[s].path, f) /\ put' = [put EXCEPT ![s].at = "write", ![s].file = f]
    BY <1>2 DEF Opens, PutOpens
  <2>2. put[s] \in Calls /\ put[s].path \in Paths /\ f # None
    BY <1>2, Constants DEF Opens, PutOpens, ShapeInv, TypeOK, CallInv
  <2>3. /\ put'[s].path = put[s].path /\ \A t \in Shells : t # s => put'[t] = put[t]
        /\ entry'[put[s].path] # None
    BY <2>1, <2>2 DEF OpenForWriting, ShapeInv, TypeOK, Calls
  <2>4. (dir => dir') /\ \A p \in Paths : entry[p] # None => entry'[p] # None
    BY <1>2, CallKeepsNames
  <2>5. dir /\ UNCHANGED <<alone, stored>>
    BY <1>2 DEF Opens, PutOpens
  <2>6. \A t \in Shells : put[t].at # "no" => put[t].path \in Paths
    BY DEF ShapeInv, CallInv
  <2>7. \A t \in Shells : AloneInv(t)'
    BY <2>3, <2>4, <2>5, <2>6 DEF AloneInv
  <2>8. QED BY <2>4, <2>5, <2>7 DEF StoredInv
<1>3. ASSUME NEW s \in Shells, Fills(s) \/ Fails(s) PROVE (\A t \in Shells : AloneInv(t)') /\ StoredInv'
  <2>1. /\ UNCHANGED <<dir, entry>> /\ put'[s].at = "no"
        /\ \A t \in Shells : t # s => put'[t] = put[t] /\ alone'[t] = alone[t]
    BY <1>3 DEF Fills, PutWrites, Fails, PutFails, Answered, NoPut, ShapeInv, TypeOK
  <2>2. put[s].path \in Paths /\ (alone[s] => entry[put[s].path] # None)
    BY <1>3 DEF Fills, PutWrites, Fails, PutFails, AloneInv, ShapeInv, CallInv
  <2>3. \A p \in Paths : stored'[p] => stored[p] \/ (p = put[s].path /\ alone[s])
    BY <1>3, <2>2 DEF Fills, Fails, Answered, ShapeInv, TypeOK
  <2>4. QED BY <2>1, <2>2, <2>3 DEF AloneInv, StoredInv
<1>4. ASSUME Names, put' = put PROVE (\A t \in Shells : AloneInv(t)') /\ StoredInv'
  BY <1>4 DEF Names, AloneInv, StoredInv
<1>5. ASSUME NEW s \in Sftps,
             \/ \E p \in Paths : OpensToWrite(s, p) \/ OpensToRead(s, p)
             \/ Extends(s) \/ Gets(s) \/ Renames(s)
      PROVE  Names /\ put' = put
  BY <1>5 DEF OpensToWrite, SftpOpenWrite, OpensToRead, SftpOpenRead, Extends, SftpWrite, Gets,
     SftpRead, Renames, SftpNames, SftpRemove, SftpRename, SftpMkdir, SftpRmdir
<1>6. ASSUME NEW s \in Sftps, SftpEnds(s) PROVE (\A t \in Shells : AloneInv(t)') /\ StoredInv'
  BY <1>6 DEF SftpEnds, SftpClose, AloneInv, StoredInv
<1>7. QED BY <1>1, <1>2, <1>3, <1>4, <1>5, <1>6, Steps

--------------------------------------------------------------------------------
(* The invariant and the properties. *)

\* Nothing is there at the start.
LEMMA IInvInit == Init => IInv
<1> SUFFICES ASSUME Init PROVE IInv
  OBVIOUS
<1>1. ShapeInv
  BY ShapeInit
<1>2. \A i \in Files : ~InUse(i) /\ Writers(i) = {} /\ origin[i] = {}
  BY Constants DEF Init, FilesInit, HistoryInit, InUse, Writers, NoPut, NoHandle, None
<1>3. \A i \in Files : FileInv(i)
  BY <1>2 DEF FileInv
<1>4. \A s \in Sftps : ReadInv(s)
  BY DEF Init, FilesInit, NoHandle, ReadInv
<1>5. (\A s \in Shells : AloneInv(s)) /\ StoredInv
  BY DEF Init, FilesInit, HistoryInit, NoPut, AloneInv, StoredInv
<1>6. QED BY <1>1, <1>3, <1>4, <1>5 DEF IInv

\* Every step keeps it.
LEMMA IInvStep == IInv /\ [Next]_vars => IInv'
<1> SUFFICES ASSUME IInv, [Next]_vars PROVE IInv'
  OBVIOUS
<1>1. CASE Next
  BY <1>1, ShapeStep, FileInvStep, ReadInvStep, NamesStep DEF IInv
<1>2. CASE UNCHANGED vars
  <2>1. ShapeInv'
    BY <1>2, ShapeStep DEF IInv
  <2>2. \A i \in Files : Writers(i)' = Writers(i) /\ InUse(i)' = InUse(i) /\ FileInv(i)'
    BY <1>2 DEF vars, fileVars, history, IInv, FileInv, InUse, Writers
  <2>3. QED BY <1>2, <2>1, <2>2 DEF vars, fileVars, history, IInv, ReadInv, AloneInv, StoredInv, Writers
<1>3. QED BY <1>1, <1>2

\* The files, handles and transfers keep their types, at every moment of every execution.
THEOREM RepositoryTypes == Spec => []TypeOK
<1>1. IInv => TypeOK
  BY DEF IInv, ShapeInv
<1>2. QED BY <1>1, IInvInit, IInvStep, PTL DEF Spec

\* A path that a transfer was answered for, and that no SFTP session has changed since, names a
\* file; and the file holds the whole content it was given, unless somebody is writing it or two
\* have written it side by side.  Overlapping uploads, and a lock that excludes nobody
\* (sftp_backend.py:45), cannot spoil it.
THEOREM Uploaded == Spec => []UploadedIsThere
<1>1. IInv => UploadedIsThere
  <2> SUFFICES ASSUME IInv, NEW p \in Paths, stored[p]
      PROVE  /\ entry[p] # None
             /\ \A c \in Uploads :
                  Writers(entry[p]) = {} /\ origin[entry[p]] = {c} => data[entry[p]] = Content(c)
    BY DEF UploadedIsThere, Uploads
  <2>1. entry[p] # None /\ entry[p] \in Files
    BY DEF IInv, StoredInv, ShapeInv, TypeOK
  <2>2. FileInv(entry[p])
    BY <2>1 DEF IInv
  <2>3. QED BY <2>1, <2>2 DEF FileInv
<1>2. QED BY <1>1, IInvInit, IInvStep, PTL DEF Spec

\* What an SFTP session gets of a file of one content is a beginning of it, and all of it if it
\* reads to the end and nobody rewrites the file meanwhile: "round-trips byte-for-byte"
\* (sftp_backend.py:8-10).
THEOREM RoundTrips == Spec => []GetRoundTrips
<1>1. IInv => GetRoundTrips
  <2> SUFFICES ASSUME IInv, NEW s \in Sftps, NEW c \in Uploads, handle[s].mode = "read", met[s] = {c}
      PROVE  /\ IsPrefix(handle[s].got, Content(c))
             /\ calm[s] /\ AtEnd(handle[s]) => handle[s].got = Content(c)
    BY DEF GetRoundTrips, Uploads
  <2> DEFINE f == handle[s].file
             got == handle[s].got
             pos == handle[s].pos
  <2>1. f \in Files /\ pos \in 0..2 /\ got \in Seq(Blocks) /\ Len(got) = pos
    BY DEF IInv, ShapeInv, TypeOK, HandleInv, Handles
  <2>2. \A k \in 1..pos : got[k] = Content(c)[k]
    BY DEF IInv, ReadInv
  <2>3. Content(c) \in Seq(Blocks) /\ Len(Content(c)) = 2
    BY ContentShape DEF Contents
  <2>4. IsPrefix(got, Content(c))
    BY <2>1, <2>2, <2>3 DEF IsPrefix
  <2>5. ASSUME calm[s], AtEnd(handle[s]) PROVE got = Content(c)
    <3>1. origin[f] = {c} /\ Writers(f) = {}
      BY <2>1, <2>5 DEF IInv, FileInv, ReadInv, InUse
    <3>2. data[f] = Content(c)
      BY <2>1, <3>1 DEF IInv, FileInv
    <3>3. pos >= 2
      BY <2>3, <2>5, <3>2 DEF AtEnd
    <3>4. Len(got) = 2
      BY <2>1, <3>3
    <3>5. QED BY <2>1, <2>2, <2>3, <3>4
  <2>6. QED BY <2>4, <2>5
<1>2. QED BY <1>1, IInvInit, IInvStep, PTL DEF Spec
================================================================================

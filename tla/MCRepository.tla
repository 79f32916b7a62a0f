------------------------------ MODULE MCRepository ------------------------------
(***************************************************************************)
(* The shells, the SFTP sessions and the paths are interchangeable.  Two   *)
(* states need not be told apart by what a file held that has neither a    *)
(* name nor a handle, as Fresh files are truncated before anything else,   *)
(* nor by blocks of more than one writer, which the properties leave out:  *)
(* what such a file holds, and what such a read got, only has a length.    *)
(***************************************************************************)
EXTENDS Repository, TLC

Symmetric == Permutations(Shells) \cup Permutations(Sftps) \cup Permutations(Paths)

SeenFile(i) ==
    IF ~InUse(i) THEN "unused"
    ELSE IF Cardinality(origin[i]) > 1 THEN Len(data[i])
    ELSE <<data[i], origin[i]>>

SeenRead(s) ==
    IF Cardinality(met[s]) > 1 THEN [handle[s] EXCEPT !.got = <<>>]
    ELSE <<handle[s], met[s], calm[s]>>

Visible ==
    <<dir, entry, put, alone, stored,
      [i \in Files |-> SeenFile(i)], [s \in Sftps |-> SeenRead(s)]>>
================================================================================

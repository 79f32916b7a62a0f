----------------------------- MODULE CommandService -----------------------------
(***************************************************************************)
(* What a shell session promises the workflow that uses it, for commands   *)
(* that end in a prompt and commands that end without one ("silent"): they *)
(* are carried out one at a time, in the order they were issued and at     *)
(* most once.  A call whose command ends in a prompt returns its output.   *)
(* What silent commands have printed may be late: it is kept, line by line,*)
(* and the next call that gets a prompt returns all that is left of it     *)
(* before its own; nothing of it is lost but a last line that a silent     *)
(* call has already shown.                                                 *)
(*                                                                         *)
(* All this ends with the first command the node stalls at: one that       *)
(* sleeps for longer than a call waits, or asks for a password.            *)
(***************************************************************************)
EXTENDS Naturals, Sequences

CONSTANT NCmds

VARIABLES
    issued,     \* commands issued so far
    carriedOut, \* those the node has carried out, in order, and whether silently
    left,       \* the silent commands of earlier calls of whose output there is more to come
    returned,   \* per call that has returned, the commands its output came from
    stalled     \* the node has stalled at a command

vars == <<issued, carriedOut, left, returned, stalled>>

Init == issued = 0 /\ carriedOut = <<>> /\ left = {} /\ returned = <<>> /\ stalled = FALSE

Pending == issued > Len(returned)

Issue == ~Pending /\ issued < NCmds /\ issued' = issued + 1 /\ UNCHANGED <<carriedOut, left, returned>>

\* The node has yet to carry out the pending command.
Due == Pending /\ \A i \in DOMAIN carriedOut : carriedOut[i].n # issued

CarryOut ==
    /\ Due
    /\ \E silent \in BOOLEAN : carriedOut' = Append(carriedOut, [n |-> issued, silent |-> silent])
    /\ UNCHANGED <<issued, left, returned>>

CarriedOut(silent) == \E i \in DOMAIN carriedOut : carriedOut[i] = [n |-> issued, silent |-> silent]

Return ==
    /\ Pending /\ CarriedOut(FALSE)
    /\ returned' = Append(returned, left \cup {issued})
    /\ left' = {}
    /\ UNCHANGED <<issued, carriedOut>>

\* The call comes back without a prompt: the node is silent, or gone.  It shows all there
\* is, and takes one line of it, which is of the oldest.
Oldest(s) == {n \in s : \A m \in s : n <= m}

ReturnSilent ==
    /\ Pending /\ ~CarriedOut(FALSE)
    /\ \E own \in SUBSET {issued} :
        /\ own # {} => CarriedOut(TRUE)
        /\ returned' = Append(returned, left \cup own)
        /\ left' \in {left \cup own, (left \cup own) \ Oldest(left \cup own)}
    /\ UNCHANGED <<issued, carriedOut>>

\* The call fails before anything is sent.
Refuse ==
    /\ ~Pending /\ issued < NCmds
    /\ issued' = issued + 1 /\ returned' = Append(returned, {})
    /\ UNCHANGED <<carriedOut, left>>

Serve == ~stalled /\ UNCHANGED stalled /\ (Issue \/ CarryOut \/ Return \/ ReturnSilent \/ Refuse)

\* The node stalls at the pending command, and from then on nothing is promised.
Stall == Due /\ stalled' = TRUE /\ UNCHANGED <<issued, returned>>
Afterwards == stalled /\ stalled' = TRUE

Next == Serve \/ Stall \/ Afterwards

Spec == Init /\ [][Next]_vars
================================================================================

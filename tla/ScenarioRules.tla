------------------------------ MODULE ScenarioRules ------------------------------
(***************************************************************************)
(* Scenario.match of command_engine.py, and the checksum it decides: the   *)
(* ordered rules of a scenario, shared by the engines of all connections.  *)
(*                                                                         *)
(* A rule counts the commands it matched and may apply to some of these    *)
(* occurrences only.  The count is read, written and read again without a  *)
(* lock, so a call is cut there.  A command line is a member of a set; of  *)
(* what a rule prints only the checksum is kept, right or wrong.           *)
(***************************************************************************)
EXTENDS Naturals, Sequences

CONSTANTS
    Sessions,        \* threads serving a connection
    Profile,         \* session -> profile name
    Commands,
    Checksums,       \* the commands that are sha256sum calls
    Rules,           \* scenario.rules, as [profile, sends, occurrences, corrupt] records
    ForceMismatch    \* the commands whose logical key is in checksum.force_mismatch

Profiles == {"sbc", "repo"}

RuleIds == 1..Len(Rules)

VARIABLES
    counts,     \* self._counts: rule -> matches
    pc, cmd,    \* session -> where its call is, and its command
    at,         \* session -> the rule it is at, or tries next
    seen,       \* session -> the count it read
    answer,     \* session -> [rule, digest] of its last finished call
    reached,    \* history: rule -> commands that got to it
    turn,       \* history: session -> which of these commands its own is
    applied,    \* history: rule -> the ones it applied to
    digests     \* history: command -> the checksums a node was given for it, in order

ruleVars == <<counts, pc, cmd, at, seen, answer, reached, turn, applied, digests>>

RulesInit ==
    /\ counts = [r \in RuleIds |-> 0]
    /\ pc = [s \in Sessions |-> "idle"]
    /\ cmd = [s \in Sessions |-> CHOOSE c \in Commands : TRUE]
    /\ at = [s \in Sessions |-> 1]
    /\ seen = [s \in Sessions |-> 0]
    /\ answer = [s \in Sessions |-> [rule |-> 0, digest |-> "none"]]
    /\ reached = [r \in RuleIds |-> 0]
    /\ turn = [s \in Sessions |-> 0]
    /\ applied = [r \in RuleIds |-> {}]
    /\ digests = [c \in Commands |-> <<>>]

--------------------------------------------------------------------------------
Idle == \A s \in Sessions : pc[s] = "idle"

\* The profile filter and the pattern of a rule.
Matches(r, s, c) == Rules[r].profile \in {"any", Profile[s]} /\ c \in Rules[r].sends

NextRule(s) == {r \in RuleIds : r >= at[s] /\ Matches(r, s, cmd[s])}

\* _sha256: corrupted by the rule, or by force_mismatch on the node side.
Digest(s, r) ==
    IF cmd[s] \notin Checksums THEN "none"
    ELSE IF (r # 0 /\ Rules[r].corrupt) \/ (cmd[s] \in ForceMismatch /\ Profile[s] = "sbc")
         THEN "wrong" ELSE "right"

\* match returned rule r (0: None) and the engine answers.
Finish(s, r) ==
    /\ pc' = [pc EXCEPT ![s] = "idle"]
    /\ answer' = [answer EXCEPT ![s] = [rule |-> r, digest |-> Digest(s, r)]]
    /\ digests' = IF Profile[s] = "sbc" THEN [digests EXCEPT ![cmd[s]] = Append(@, Digest(s, r))]
                                        ELSE digests

--------------------------------------------------------------------------------
\* engine.handle calls match with the command line.
Enter(s, c) ==
    /\ pc[s] = "idle"
    /\ pc' = [pc EXCEPT ![s] = "try"]
    /\ cmd' = [cmd EXCEPT ![s] = c]
    /\ at' = [at EXCEPT ![s] = 1]
    /\ UNCHANGED <<counts, seen, answer, reached, turn, applied, digests>>

\* Mutant: the last rule that matches wins.
ReachLast(s) ==
    /\ pc[s] = "try"
    /\ \E r \in NextRule(s) :
        /\ \A q \in NextRule(s) : r >= q
        /\ at' = [at EXCEPT ![s] = r]
        /\ seen' = [seen EXCEPT ![s] = counts[r]]
        /\ reached' = [reached EXCEPT ![r] = @ + 1]
        /\ turn' = [turn EXCEPT ![s] = reached[r] + 1]
    /\ pc' = [pc EXCEPT ![s] = "store"]
    /\ UNCHANGED <<counts, cmd, answer, applied, digests>>

\* The next rule that matches: _counts.get(...)
Reach(s) ==
    /\ pc[s] = "try"
    /\ \E r \in NextRule(s) :
        /\ \A q \in NextRule(s) : r <= q
        /\ at' = [at EXCEPT ![s] = r]
        /\ seen' = [seen EXCEPT ![s] = counts[r]]
        /\ reached' = [reached EXCEPT ![r] = @ + 1]
        /\ turn' = [turn EXCEPT ![s] = reached[r] + 1]
    /\ pc' = [pc EXCEPT ![s] = "store"]
    /\ UNCHANGED <<counts, cmd, answer, applied, digests>>

\* _counts[key] = ... + 1; a rule without occurrences applies at once.
Store(s) ==
    /\ pc[s] = "store"
    /\ counts' = [counts EXCEPT ![at[s]] = seen[s] + 1]
    /\ IF Rules[at[s]].occurrences = {}
       THEN applied' = [applied EXCEPT ![at[s]] = @ \cup {turn[s]}] /\ Finish(s, at[s])
       ELSE pc' = [pc EXCEPT ![s] = "check"] /\ UNCHANGED <<applied, answer, digests>>
    /\ UNCHANGED <<cmd, at, seen, reached, turn>>

\* Mutant: occurrences are counted from 0.
CheckFromZero(s) ==
    /\ pc[s] = "check"
    /\ IF counts[at[s]] - 1 \in Rules[at[s]].occurrences
       THEN /\ applied' = [applied EXCEPT ![at[s]] = @ \cup {turn[s]}]
            /\ Finish(s, at[s]) /\ UNCHANGED at
       ELSE /\ pc' = [pc EXCEPT ![s] = "try"]
            /\ at' = [at EXCEPT ![s] = @ + 1]
            /\ UNCHANGED <<applied, answer, digests>>
    /\ UNCHANGED <<counts, cmd, seen, reached, turn>>

\* The count, read again, is in the list, or the next rules are tried.
Check(s) ==
    /\ pc[s] = "check"
    /\ IF counts[at[s]] \in Rules[at[s]].occurrences
       THEN /\ applied' = [applied EXCEPT ![at[s]] = @ \cup {turn[s]}]
            /\ Finish(s, at[s]) /\ UNCHANGED at
       ELSE /\ pc' = [pc EXCEPT ![s] = "try"]
            /\ at' = [at EXCEPT ![s] = @ + 1]
            /\ UNCHANGED <<applied, answer, digests>>
    /\ UNCHANGED <<counts, cmd, seen, reached, turn>>

NoRule(s) ==
    /\ pc[s] = "try" /\ NextRule(s) = {}
    /\ Finish(s, 0)
    /\ UNCHANGED <<counts, cmd, at, seen, reached, turn, applied>>

RuleStep(s) == Reach(s) \/ Store(s) \/ Check(s) \/ NoRule(s)

--------------------------------------------------------------------------------
\* A rule applies to exactly the occurrences it lists, counted over the commands
\* that got to it: "list of 1-based match counts the rule applies to (default =
\* every time)", _REFERENCE_annotated.yaml:136-137, "apply ONLY the 1st time this
\* matches", :115.
OccurrencesExact ==
    Idle => \A r \in RuleIds : \A n \in 1..reached[r] :
        n \in applied[r] <=> Rules[r].occurrences = {} \/ n \in Rules[r].occurrences

\* The first match wins, whatever the other connections do: a command that a rule
\* without occurrences matches is never answered by a later rule, nor by none.
FirstMatch(s) ==
    pc[s] # "idle" /\ pc'[s] = "idle" =>
        \A r \in RuleIds : Matches(r, s, cmd[s]) /\ Rules[r].occurrences = {} =>
            answer'[s].rule \in 1..r

\* No count runs ahead of the commands that got to the rule, so that a rule is at
\* most late, never early, however the calls overlap.
CountsNeverAhead == \A r \in RuleIds : counts[r] <= reached[r]

\* "2nd+ matches fall through to the correct checksum, so the retry succeeds"
\* (_REFERENCE_annotated.yaml:117); and of force_mismatch, "mismatch only on the
\* FIRST occurrence so the checksum-retry loop succeeds on retry"
\* (command_engine.py:260-261): a node's second request for a checksum is right.
RetryIsRight ==
    \A c \in Checksums : \A i \in 2..Len(digests[c]) : digests[c][i] = "right"
================================================================================

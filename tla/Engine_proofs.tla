------------------------------ MODULE Engine_proofs ------------------------------
(***************************************************************************)
(* Proofs of the safety properties of Engine, for any workflow, any list   *)
(* of rules, any number of connections and of commands, handled one after  *)
(* the other or at once.                                                   *)
(***************************************************************************)
EXTENDS Engine, TLAPS

(* The inductive invariant. *)

\* What the answer to a checksum may carry.
Digests == {"none", "right", "wrong"}

\* The types of the variables of Scenario.match and of _sha256, and of the histories.
RuleTypes ==
    /\ counts \in [Sc!RuleIds -> Nat]
    /\ rpc \in [Sessions -> {"idle", "try", "store", "check"}]
    /\ rule \in [Sessions -> Nat \ {0}]
    /\ count \in [Sessions -> Nat]
    /\ result \in [Sessions -> [rule : Sc!RuleIds \cup {0}, digest : Digests]]
    /\ reached \in [Sc!RuleIds -> Nat]
    /\ turn \in [Sessions -> Nat]
    /\ applied \in [Sc!RuleIds -> SUBSET Nat]
    /\ digests \in [Commands -> Seq(Digests)]

\* The type invariant of the engine.
TypeOK == StateTypeOK /\ RuleTypes /\ loaded \in BOOLEAN /\ overlapped \in BOOLEAN

\* A session that is past the scan has found a step, and the cursor is only short of it until
\* the step is stored.
CursorInv ==
    /\ cursor # 0 => hits[cursor] > 0
    /\ \A s \in Sessions : pc[s] \in {"test", "advance", "count", "store"} => hits[at[s]] > 0
    /\ \A s \in Sessions : pc[s] \in {"count", "store"} => cursor # 0
    /\ (\E i \in 1..N : hits[i] > 0) => cursor # 0 \/ \E s \in Sessions : pc[s] \in {"test", "advance"}

\* A session is at a rule its command matches, has tried the rules before it, and has got to
\* the rule more often than it has counted.
RuleInv(s) ==
    /\ rpc[s] \in {"store", "check"} => rule[s] \in Sc!RuleIds /\ Sc!Matches(rule[s], s, cmd[s])
    /\ rpc[s] = "store" => count[s] < reached[rule[s]]
    /\ rpc[s] = "check" => Rules[rule[s]].occurrences # {}
    /\ rpc[s] # "idle" =>
         \A r \in Sc!RuleIds : Sc!Matches(r, s, cmd[s]) /\ Rules[r].occurrences = {} => rule[s] <= r

\* One command is handled at a time.
Alone == \A s, t \in Sessions : Busy(s) /\ Busy(t) => s = t

\* Rule r applies to its n-th occurrence.
Listed(r, n) == Rules[r].occurrences = {} \/ n \in Rules[r].occurrences
\* Session s is at rule r, in one of the given places.
At(s, r, pcs) == rpc[s] \in pcs /\ rule[s] = r

\* While commands are not handled at once, the commands that got to a rule are counted, but for
\* the one that is being counted, and the rule has applied to those it is for, but for the one
\* that is being decided.
CountInv(r) ==
    /\ (\A s \in Sessions : ~At(s, r, {"store"})) => counts[r] = reached[r]
    /\ \A s \in Sessions : At(s, r, {"store"}) => counts[r] = count[s] /\ reached[r] = count[s] + 1
    /\ \A s \in Sessions : At(s, r, {"store", "check"}) =>
         reached[r] > 0 /\ turn[s] = reached[r] /\ turn[s] \notin applied[r]
    /\ applied[r] \subseteq 1..reached[r]
    /\ \A n \in 1..reached[r] :
         (\A s \in Sessions : At(s, r, {"store", "check"}) => n # turn[s])
           => (n \in applied[r] <=> Listed(r, n))

\* Rule r corrupts checksum c of a node.
Faulty(r, c) ==
    Rules[r].corrupt /\ Rules[r].profile \in {"any", "sbc"} /\ c \in Rules[r].sends \cap Checksums

\* The checksum of session s has got to rule r, if it is at the rule or past it, and is the first
\* to be answered if it is the rule's first.
Passed(s, r) ==
    /\ rule[s] > r => reached[r] > 0
    /\ rpc[s] \in {"store", "check"} => rule[s] >= r /\ reached[r] > 0
    /\ At(s, r, {"store", "check"}) /\ turn[s] = 1 => digests[cmd[s]] = <<>>

\* A rule has seen every checksum it may corrupt, once it is answered: the next one is not the
\* rule's first.
FaultInv ==
    /\ \A c \in Commands, r \in Sc!RuleIds : Faulty(r, c) /\ digests[c] # <<>> => reached[r] > 0
    /\ \A s \in Sessions, r \in Sc!RuleIds :
         rpc[s] # "idle" /\ Profile[s] = "sbc" /\ Faulty(r, cmd[s]) => Passed(s, r)

--------------------------------------------------------------------------------
(* The types. *)

\* The lists are sequences.
LEMMA Lists ==
    /\ N \in Nat /\ 1..N \subseteq Nat \ {0}
    /\ Len(Rules) \in Nat /\ Sc!RuleIds = 1..Len(Rules) /\ 0 \notin Sc!RuleIds
    /\ \A r \in Sc!RuleIds : /\ Rules[r].profile \in Sc!Profiles \cup {"any"}
                             /\ Rules[r].occurrences \subseteq Nat /\ Rules[r].corrupt \in BOOLEAN
<1> DEFINE R == [profile : Sc!Profiles \cup {"any"}, sends : SUBSET Commands,
                 occurrences : SUBSET Nat, corrupt : BOOLEAN]
<1>1. N \in Nat /\ Len(Rules) \in Nat
  BY StepsAssumption, RulesAssumption DEF N
<1>2. \A r \in Sc!RuleIds : Rules[r] \in R
  <2>1. Rules \in Seq(R)
    BY RulesAssumption
  <2> HIDE DEF R
  <2>2. QED BY <2>1 DEF Sc!RuleIds
<1>3. QED BY <1>1, <1>2 DEF Sc!RuleIds

\* The initial values have their types.
LEMMA TypeInit == Init => TypeOK
<1> SUFFICES ASSUME Init PROVE TypeOK
  OBVIOUS
<1>1. (CHOOSE c \in Commands : TRUE) \in Commands
  BY CommandsAssumption
<1>2. StateTypeOK
  <2>1. /\ 0 \in 0..N /\ 1 \in 1..(N + 1) /\ 0 \in Nat
        /\ None \in [step : 0..N, fail : BOOLEAN]
    BY Lists DEF None
  <2>2. QED BY <1>1, <2>1 DEF Init, StateInit, StateTypeOK
<1>3. RuleTypes
  BY DEF Init, Sc!RulesInit, RuleTypes, Digests
<1>4. QED BY <1>2, <1>3, LoadedAssumption DEF Init, TypeOK

\* A call of match keeps the types of its variables.
LEMMA MatchTypes ==
    ASSUME TypeOK, NEW s \in Sessions, MatchStep(s)
    PROVE  StateTypeOK'
<1> USE Lists DEF TypeOK, StateTypeOK, shared, history
<1>1. CASE ReadStart(s)
  BY <1>1 DEF ReadStart, Begin
<1>2. CASE Find(s)
  <2>1. PICK i \in 1..N : at' = [at EXCEPT ![s] = i] /\ hits' = [hits EXCEPT ![i] = @ + 1]
    BY <1>2 DEF Find
  <2>2. at' \in [Sessions -> 0..N] /\ hits' \in [1..N -> Nat]
    BY <2>1
  <2>3. QED BY <1>2, <2>1, <2>2 DEF Find
<1>3. CASE Miss(s)
  BY <1>3 DEF Miss, None
<1>4. CASE Test(s)
  BY <1>4 DEF Test
<1>5. CASE Advance(s)
  BY <1>5 DEF Advance
<1>6. CASE ReadCount(s)
  <2>1. at[s] \in 1..N
    BY <1>6 DEF ReadCount
  <2>2. QED BY <1>6, <2>1 DEF ReadCount
<1>7. CASE StoreCount(s)
  <2>1. at[s] \in 1..N
    BY <1>7 DEF StoreCount
  <2>2. match_counts' \in [1..N -> Nat]
    BY <1>7, <2>1 DEF StoreCount
  <2>3. answer' \in [Sessions -> [step : 0..N, fail : BOOLEAN]]
    BY <1>7, <2>1 DEF StoreCount
  <2>4. QED BY <1>7, <2>2, <2>3 DEF StoreCount
<1>8. QED BY <1>1, <1>2, <1>3, <1>4, <1>5, <1>6, <1>7 DEF MatchStep

\* A checksum is right or wrong.
LEMMA DigestTypes == \A s, r : Sc!Digest(s, r) \in Digests
BY DEF Sc!Digest, Digests

\* match returns a rule or None, and the engine answers.
LEMMA FinishTypes ==
    ASSUME TypeOK, NEW s \in Sessions, NEW r \in Sc!RuleIds \cup {0}, Sc!Finish(s, r)
    PROVE  /\ rpc' = [rpc EXCEPT ![s] = "idle"]
           /\ result' \in [Sessions -> [rule : Sc!RuleIds \cup {0}, digest : Digests]]
           /\ result'[s].rule = r
           /\ digests' \in [Commands -> Seq(Digests)]
<1> USE DEF TypeOK, RuleTypes, StateTypeOK
<1> DEFINE d == Sc!Digest(s, r)
<1>1. d \in Digests
  BY DigestTypes
<1>2. /\ result' = [result EXCEPT ![s] = [rule |-> r, digest |-> d]]
      /\ digests' = IF Profile[s] = "sbc" THEN [digests EXCEPT ![cmd[s]] = Append(@, d)] ELSE digests
      /\ rpc' = [rpc EXCEPT ![s] = "idle"]
  BY DEF Sc!Finish
<1> HIDE DEF d
<1>3. result' \in [Sessions -> [rule : Sc!RuleIds \cup {0}, digest : Digests]] /\ result'[s].rule = r
  BY <1>1, <1>2
<1>4. digests' \in [Commands -> Seq(Digests)]
  <2>1. cmd[s] \in Commands /\ digests[cmd[s]] \in Seq(Digests)
    OBVIOUS
  <2>2. Append(digests[cmd[s]], d) \in Seq(Digests)
    BY <1>1, <2>1
  <2>3. QED BY <1>2, <2>1, <2>2
<1>5. QED BY <1>2, <1>3, <1>4

\* A session that has matched a rule is at one of the list.
AtRule(s) == rpc[s] \in {"store", "check"} => rule[s] \in Sc!RuleIds

\* So does Scenario.match.
LEMMA RuleTypeStep ==
    ASSUME TypeOK, NEW s \in Sessions, Sc!RuleStep(s), AtRule(s)
    PROVE  RuleTypes' /\ cmd' = cmd
<1> USE DEF TypeOK, RuleTypes
<1>1. CASE Sc!Reach(s)
  <2>1. PICK r \in Sc!RuleIds : /\ rule' = [rule EXCEPT ![s] = r]
                                /\ count' = [count EXCEPT ![s] = counts[r]]
                                /\ reached' = [reached EXCEPT ![r] = @ + 1]
                                /\ turn' = [turn EXCEPT ![s] = reached[r] + 1]
    BY <1>1 DEF Sc!Reach, Sc!NextRule
  <2>2. /\ rule' \in [Sessions -> Nat \ {0}] /\ count' \in [Sessions -> Nat]
        /\ reached' \in [Sc!RuleIds -> Nat] /\ turn' \in [Sessions -> Nat]
    BY <2>1, Lists
  <2>3. rpc' \in [Sessions -> {"idle", "try", "store", "check"}]
    BY <1>1 DEF Sc!Reach
  <2>4. QED BY <1>1, <2>2, <2>3 DEF Sc!Reach
<1>2. CASE Sc!Store(s)
  <2>1. rule[s] \in Sc!RuleIds /\ UNCHANGED <<cmd, rule, count, reached, turn>>
    BY <1>2 DEF Sc!Store, AtRule
  <2>2. counts' \in [Sc!RuleIds -> Nat]
    BY <1>2, <2>1 DEF Sc!Store
  <2>3. CASE Rules[rule[s]].occurrences = {}
    <3>1. Sc!Finish(s, rule[s]) /\ applied' = [applied EXCEPT ![rule[s]] = @ \cup {turn[s]}]
      BY <1>2, <2>3 DEF Sc!Store
    <3>2. applied[rule[s]] \cup {turn[s]} \in SUBSET Nat
      BY <2>1
    <3>3. applied' \in [Sc!RuleIds -> SUBSET Nat]
      BY <2>1, <3>1, <3>2
    <3>4. /\ rpc' = [rpc EXCEPT ![s] = "idle"]
          /\ result' \in [Sessions -> [rule : Sc!RuleIds \cup {0}, digest : Digests]]
          /\ digests' \in [Commands -> Seq(Digests)]
      BY <2>1, <3>1, FinishTypes
    <3>5. QED BY <2>1, <2>2, <3>3, <3>4
  <2>4. CASE Rules[rule[s]].occurrences # {}
    BY <1>2, <2>1, <2>2, <2>4 DEF Sc!Store
  <2>5. QED BY <2>3, <2>4
<1>3. CASE Sc!Check(s)
  <2>1. rule[s] \in Sc!RuleIds /\ UNCHANGED <<counts, cmd, count, reached, turn>>
    BY <1>3 DEF Sc!Check, AtRule
  <2>2. CASE counts[rule[s]] \in Rules[rule[s]].occurrences
    <3>1. /\ Sc!Finish(s, rule[s]) /\ UNCHANGED rule
          /\ applied' = [applied EXCEPT ![rule[s]] = @ \cup {turn[s]}]
      BY <1>3, <2>2 DEF Sc!Check
    <3>2. applied[rule[s]] \cup {turn[s]} \in SUBSET Nat
      BY <2>1
    <3>3. applied' \in [Sc!RuleIds -> SUBSET Nat]
      BY <2>1, <3>1, <3>2
    <3>4. /\ rpc' = [rpc EXCEPT ![s] = "idle"]
          /\ result' \in [Sessions -> [rule : Sc!RuleIds \cup {0}, digest : Digests]]
          /\ digests' \in [Commands -> Seq(Digests)]
      BY <2>1, <3>1, FinishTypes
    <3>5. QED BY <2>1, <3>1, <3>3, <3>4
  <2>3. CASE counts[rule[s]] \notin Rules[rule[s]].occurrences
    <3>1. /\ rule' = [rule EXCEPT ![s] = @ + 1] /\ UNCHANGED <<applied, result, digests>>
          /\ rpc' = [rpc EXCEPT ![s] = "try"]
      BY <1>3, <2>3 DEF Sc!Check
    <3>2. rule' \in [Sessions -> Nat \ {0}]
      BY <3>1
    <3>3. QED BY <2>1, <3>1, <3>2
  <2>4. QED BY <2>2, <2>3
<1>4. CASE Sc!NoRule(s)
  <2>1. /\ rpc' = [rpc EXCEPT ![s] = "idle"]
        /\ result' \in [Sessions -> [rule : Sc!RuleIds \cup {0}, digest : Digests]]
        /\ digests' \in [Commands -> Seq(Digests)]
    BY <1>4, FinishTypes DEF Sc!NoRule
  <2>2. QED BY <1>4, <2>1 DEF Sc!NoRule
<1>5. QED BY <1>1, <1>2, <1>3, <1>4 DEF Sc!RuleStep

\* The variables keep their types, if every session at a rule is at one of the list.
LEMMA TypeStep ==
    ASSUME TypeOK, \A s \in Sessions : AtRule(s), [Next]_vars
    PROVE  TypeOK'
<1>1. CASE UNCHANGED vars
  BY <1>1 DEF TypeOK, StateTypeOK, RuleTypes, vars, stateVars, scVars, shared, local, history
<1>2. ASSUME NEW s \in Sessions, NEW c \in Commands, Handle(s, c) PROVE TypeOK'
  <2>1. loaded' = loaded /\ overlapped' \in BOOLEAN
    BY <1>2 DEF Handle, TypeOK
  <2>2. CASE Enter(s, c) /\ UNCHANGED scVars
    <3>1. StateTypeOK'
      BY <2>2 DEF Enter, TypeOK, StateTypeOK, shared, history
    <3>2. RuleTypes'
      BY <2>2 DEF TypeOK, RuleTypes, scVars
    <3>3. QED BY <2>1, <3>1, <3>2 DEF TypeOK
  <2>3. CASE Sc!Enter(s, c) /\ UNCHANGED <<shared, pc, start, at, seen, history>>
    <3>1. StateTypeOK'
      BY <2>3 DEF Sc!Enter, TypeOK, StateTypeOK, shared, history
    <3>2. RuleTypes'
      BY <2>3 DEF Sc!Enter, TypeOK, RuleTypes
    <3>3. QED BY <2>1, <3>1, <3>2 DEF TypeOK
  <2>4. QED BY <1>2, <2>2, <2>3 DEF Handle
<1>3. ASSUME NEW s \in Sessions, Match(s) PROVE TypeOK'
  <2>1. StateTypeOK'
    BY <1>3, MatchTypes DEF Match, MatchStep
  <2>2. QED BY <1>3, <2>1 DEF Match, TypeOK, RuleTypes, scVars
<1>4. ASSUME NEW s \in Sessions, FallThrough(s) PROVE TypeOK'
  <2>1. StateTypeOK'
    BY <1>4, MatchTypes DEF FallThrough, MatchStep
  <2>2. RuleTypes'
    BY <1>4 DEF FallThrough, Sc!Enter, TypeOK, RuleTypes
  <2>3. QED BY <1>4, <2>1, <2>2 DEF FallThrough, TypeOK
<1>5. ASSUME NEW s \in Sessions, TryRules(s) PROVE TypeOK'
  <2>1. RuleTypes' /\ cmd' = cmd
    BY <1>5, RuleTypeStep DEF TryRules
  <2>2. StateTypeOK'
    BY <1>5, <2>1 DEF TryRules, TypeOK, StateTypeOK, shared, history
  <2>3. QED BY <1>5, <2>1, <2>2 DEF TryRules, TypeOK
<1>6. QED BY <1>1, <1>2, <1>3, <1>4, <1>5 DEF Next

--------------------------------------------------------------------------------
(* What a step does to the sessions. *)

\* The rules see the same of a session as before.
Still(t) == /\ cmd'[t] = cmd[t] /\ rpc'[t] = rpc[t] /\ rule'[t] = rule[t] /\ count'[t] = count[t]
            /\ turn'[t] = turn[t]

\* What a call of Scenario.match does to its session, and that it changes no other one.
LEMMA RuleMoves ==
    ASSUME TypeOK, NEW s \in Sessions, Sc!RuleStep(s)
    PROVE  /\ \A t \in Sessions : t # s => Still(t)
           /\ cmd' = cmd /\ rpc[s] # "idle"
           /\ \A r \in Sc!RuleIds : reached[r] <= reached'[r]
<1> USE DEF TypeOK, RuleTypes, Still
<1>1. CASE Sc!Reach(s)
  <2>1. PICK r \in Sc!RuleIds : reached' = [reached EXCEPT ![r] = @ + 1]
    BY <1>1 DEF Sc!Reach, Sc!NextRule
  <2>2. \A q \in Sc!RuleIds : reached[q] <= reached'[q]
    BY <2>1
  <2>3. QED BY <1>1, <2>2 DEF Sc!Reach
<1>2. CASE Sc!Store(s) BY <1>2 DEF Sc!Store, Sc!Finish
<1>3. CASE Sc!Check(s) BY <1>3 DEF Sc!Check, Sc!Finish
<1>4. CASE Sc!NoRule(s) BY <1>4 DEF Sc!NoRule, Sc!Finish
<1>5. QED BY <1>1, <1>2, <1>3, <1>4 DEF Sc!RuleStep

\* A session that has done with the workflow starts with the first rule.
LEMMA Starts ==
    ASSUME TypeOK, NEW s \in Sessions, NEW c, Sc!Enter(s, c)
    PROVE  /\ \A t \in Sessions : t # s => Still(t)
           /\ rpc[s] = "idle" /\ rpc'[s] = "try" /\ rule'[s] = 1 /\ cmd'[s] = c
           /\ UNCHANGED <<counts, count, result, reached, turn, applied, digests>>
BY DEF Sc!Enter, TypeOK, RuleTypes, StateTypeOK, Still

--------------------------------------------------------------------------------
(* FirstMatchWins, and the first part of OccurrencesExact. *)

\* The rules are tried in their order, and the counter that is read is not ahead.
LEMMA RuleInvStep ==
    ASSUME TypeOK, Sc!CountsNeverAhead, [Next]_vars, NEW t \in Sessions, RuleInv(t)
    PROVE  RuleInv(t)'
<1>0. /\ \A r \in Sc!RuleIds : /\ counts[r] \in Nat /\ reached[r] \in Nat /\ counts[r] <= reached[r]
                             /\ r \in Nat \ {0}
      /\ count[t] \in Nat /\ rule[t] \in Nat \ {0}
  BY Lists DEF TypeOK, RuleTypes, Sc!CountsNeverAhead
<1>a. ASSUME Still(t), \A r \in Sc!RuleIds : reached[r] <= reached'[r] /\ reached'[r] \in Nat
      PROVE  RuleInv(t)'
  <2>1. rpc'[t] = "store" => count'[t] < reached'[rule'[t]]
    BY <1>0, <1>a DEF Still, RuleInv
  <2>2. QED BY <1>a, <2>1 DEF Still, RuleInv
<1>b. ASSUME rpc'[t] = "try", rule'[t] = 1 PROVE RuleInv(t)'
  BY <1>0, <1>b DEF RuleInv
<1>1. CASE UNCHANGED vars
  BY <1>0, <1>1, <1>a DEF vars, stateVars, scVars, shared, local, history, Still
<1>2. ASSUME NEW s \in Sessions, NEW c \in Commands, Handle(s, c) PROVE RuleInv(t)'
  <2>1. CASE Enter(s, c) /\ UNCHANGED scVars
    <3>1. CASE t = s
      BY <1>2, <2>1, <3>1 DEF Handle, Busy, scVars, RuleInv
    <3>2. CASE t # s
      BY <1>0, <1>a, <2>1, <3>2 DEF Enter, scVars, Still, TypeOK, StateTypeOK
    <3>3. QED BY <3>1, <3>2
  <2>2. CASE Sc!Enter(s, c)
    BY <1>0, <1>a, <1>b, <2>2, Starts
  <2>3. QED BY <1>2, <2>1, <2>2 DEF Handle
<1>3. ASSUME NEW s \in Sessions, Match(s) PROVE RuleInv(t)'
  <2>1. UNCHANGED scVars /\ cmd' = cmd
    BY <1>3 DEF Match, ReadStart, Find, Test, Advance, ReadCount, StoreCount
  <2>2. QED BY <1>0, <1>a, <2>1 DEF scVars, Still
<1>4. ASSUME NEW s \in Sessions, FallThrough(s) PROVE RuleInv(t)'
  BY <1>0, <1>4, <1>a, <1>b, Starts DEF FallThrough
<1>5. ASSUME NEW s \in Sessions, TryRules(s) PROVE RuleInv(t)'
  <2>0. Sc!RuleStep(s)
    BY <1>5 DEF TryRules
  <2>1. CASE t # s
    <3>1. \A r \in Sc!RuleIds : reached'[r] \in Nat
      BY <1>0, <2>0 DEF Sc!RuleStep, Sc!Reach, Sc!NextRule, Sc!Store, Sc!Check, Sc!NoRule, TypeOK, RuleTypes
    <3>2. QED BY <1>a, <2>0, <2>1, <3>1, RuleMoves
  <2>2. CASE t = s
    <3> USE <2>2 DEF TypeOK, RuleTypes
    <3>1. CASE Sc!Reach(s)
      <4>1. PICK r \in Sc!NextRule(s) : /\ \A q \in Sc!NextRule(s) : r <= q
                                        /\ rule' = [rule EXCEPT ![s] = r]
                                        /\ count' = [count EXCEPT ![s] = counts[r]]
                                        /\ reached' = [reached EXCEPT ![r] = @ + 1]
        BY <3>1 DEF Sc!Reach
      <4>2. r \in Sc!RuleIds /\ Sc!Matches(r, s, cmd[s])
        BY DEF Sc!NextRule
      <4>3. rpc[s] = "try" /\ rpc'[s] = "store" /\ cmd' = cmd
        BY <3>1 DEF Sc!Reach
      <4>4. rule'[s] = r /\ count'[s] < reached'[r]
        BY <1>0, <4>1, <4>2
      <4>5. ASSUME NEW q \in Sc!RuleIds, Sc!Matches(q, s, cmd[s]), Rules[q].occurrences = {}
            PROVE  r <= q
        <5>1. q \in Sc!NextRule(s)
          BY <1>0, <4>3, <4>5 DEF RuleInv, Sc!NextRule
        <5>2. QED BY <4>1, <5>1
      <4>6. QED BY <4>2, <4>3, <4>4, <4>5 DEF RuleInv
    <3>2. CASE Sc!Store(s)
      <4>1. /\ rpc[s] = "store" /\ UNCHANGED <<cmd, rule>>
            /\ rpc'[s] \in {"idle", "check"}
            /\ rpc'[s] = "check" => Rules[rule[s]].occurrences # {}
        BY <3>2 DEF Sc!Store, Sc!Finish
      <4>2. QED BY <4>1 DEF RuleInv
    <3>3. CASE Sc!Check(s)
      <4>1. rpc[s] = "check" /\ cmd' = cmd
        BY <3>3 DEF Sc!Check
      <4>2. rpc'[s] = "idle" \/ (rpc'[s] = "try" /\ rule'[s] = rule[s] + 1)
        BY <3>3 DEF Sc!Check, Sc!Finish
      <4>3. ASSUME NEW q \in Sc!RuleIds, Sc!Matches(q, s, cmd[s]), Rules[q].occurrences = {}
            PROVE  rule[s] + 1 <= q
        <5>1. rule[s] <= q /\ q # rule[s]
          BY <4>1, <4>3 DEF RuleInv
        <5>2. QED BY <1>0, <5>1
      <4>4. QED BY <4>1, <4>2, <4>3 DEF RuleInv
    <3>4. CASE Sc!NoRule(s)
      BY <3>4 DEF Sc!NoRule, Sc!Finish, RuleInv
    <3>5. QED BY <2>0, <3>1, <3>2, <3>3, <3>4 DEF Sc!RuleStep
  <2>3. QED BY <2>1, <2>2
<1>6. QED BY <1>1, <1>2, <1>3, <1>4, <1>5 DEF Next

\* A counter is set to one more than a value it had when fewer commands had got to the rule.
LEMMA NeverAheadStep ==
    ASSUME TypeOK, Sc!CountsNeverAhead, \A s \in Sessions : RuleInv(s), [Next]_vars
    PROVE  Sc!CountsNeverAhead'
<1>0. \A r \in Sc!RuleIds : counts[r] \in Nat /\ reached[r] \in Nat /\ counts[r] <= reached[r]
  BY DEF TypeOK, RuleTypes, Sc!CountsNeverAhead
<1>a. ASSUME UNCHANGED <<counts, reached>> PROVE Sc!CountsNeverAhead'
  BY <1>0, <1>a DEF Sc!CountsNeverAhead
<1>1. CASE UNCHANGED vars
  BY <1>1, <1>a DEF vars, scVars
<1>2. ASSUME NEW s \in Sessions, NEW c \in Commands, Handle(s, c) PROVE Sc!CountsNeverAhead'
  BY <1>2, <1>a, Starts DEF Handle, scVars
<1>3. ASSUME NEW s \in Sessions, Match(s) PROVE Sc!CountsNeverAhead'
  BY <1>3, <1>a DEF Match, scVars
<1>4. ASSUME NEW s \in Sessions, FallThrough(s) PROVE Sc!CountsNeverAhead'
  BY <1>4, <1>a, Starts DEF FallThrough
<1>5. ASSUME NEW s \in Sessions, TryRules(s) PROVE Sc!CountsNeverAhead'
  <2>0. Sc!RuleStep(s)
    BY <1>5 DEF TryRules
  <2>1. CASE Sc!Reach(s)
    <3>1. PICK r \in Sc!RuleIds : reached' = [reached EXCEPT ![r] = @ + 1]
      BY <2>1 DEF Sc!Reach, Sc!NextRule
    <3>2. counts' = counts /\ \A q \in Sc!RuleIds : counts[q] <= reached'[q]
      BY <1>0, <2>1, <3>1 DEF Sc!Reach, TypeOK, RuleTypes
    <3>3. QED BY <3>2 DEF Sc!CountsNeverAhead
  <2>2. CASE Sc!Store(s)
    <3>1. rule[s] \in Sc!RuleIds /\ count[s] < reached[rule[s]] /\ count[s] \in Nat
      BY <2>2 DEF Sc!Store, RuleInv, TypeOK, RuleTypes
    <3>2. counts' = [counts EXCEPT ![rule[s]] = count[s] + 1] /\ reached' = reached
      BY <2>2 DEF Sc!Store
    <3>3. \A q \in Sc!RuleIds : counts'[q] <= reached[q]
      BY <1>0, <3>1, <3>2 DEF TypeOK, RuleTypes
    <3>4. QED BY <3>2, <3>3 DEF Sc!CountsNeverAhead
  <2>3. CASE Sc!Check(s) \/ Sc!NoRule(s)
    BY <1>a, <2>3 DEF Sc!Check, Sc!NoRule
  <2>4. QED BY <2>0, <2>1, <2>2, <2>3 DEF Sc!RuleStep
<1>6. QED BY <1>1, <1>2, <1>3, <1>4, <1>5 DEF Next

\* The part of the invariant that all the proofs rest on.
BaseInv == TypeOK /\ Sc!CountsNeverAhead /\ \A s \in Sessions : RuleInv(s)

\* It holds at the start ...
LEMMA BaseInit == Init => BaseInv
BY TypeInit DEF BaseInv, Sc!CountsNeverAhead, RuleInv, Init, Sc!RulesInit

\* ... and after every step.
LEMMA BaseStep == BaseInv /\ [Next]_vars => BaseInv'
<1> SUFFICES ASSUME BaseInv, [Next]_vars PROVE BaseInv'
  OBVIOUS
<1>1. \A s \in Sessions : AtRule(s)
  BY DEF BaseInv, RuleInv, AtRule
<1>2. TypeOK'
  BY <1>1, TypeStep DEF BaseInv
<1>3. \A t \in Sessions : RuleInv(t)'
  BY RuleInvStep DEF BaseInv
<1>4. Sc!CountsNeverAhead'
  BY NeverAheadStep DEF BaseInv
<1>5. QED BY <1>2, <1>3, <1>4 DEF BaseInv

\* The variables have their types, for every workflow and list of rules.
THEOREM EngineTypes == Spec => []TypeOK
<1>1. BaseInv => TypeOK
  BY DEF BaseInv
<1>2. QED BY <1>1, BaseInit, BaseStep, PTL DEF Spec

\* A call that ends answers with the rule it was at, or with none behind the last one.
LEMMA FirstMatchStep ==
    ASSUME BaseInv, [Next]_vars, NEW s \in Sessions
    PROVE  Sc!FirstMatch(s)
<1> SUFFICES ASSUME rpc[s] # "idle", rpc'[s] = "idle",
                    NEW r \in Sc!RuleIds, Sc!Matches(r, s, cmd[s]), Rules[r].occurrences = {}
             PROVE  result'[s].rule \in 1..r
  BY DEF Sc!FirstMatch
<1>0. rule[s] <= r /\ rule[s] \in Nat \ {0} /\ r \in Nat
  <2>1. rule[s] <= r
    BY DEF BaseInv, RuleInv
  <2>2. rule[s] \in Nat \ {0} /\ r \in Nat
    BY Lists DEF BaseInv, TypeOK, RuleTypes
  <2>3. QED BY <2>1, <2>2
<1>1. CASE UNCHANGED vars
  BY <1>1 DEF vars, scVars
<1>2. ASSUME NEW t \in Sessions, NEW c \in Commands, Handle(t, c) PROVE FALSE
  BY <1>2, Starts DEF Handle, scVars, BaseInv, Still
<1>3. ASSUME NEW t \in Sessions, Match(t) PROVE FALSE
  BY <1>3 DEF Match, scVars
<1>4. ASSUME NEW t \in Sessions, FallThrough(t) PROVE FALSE
  BY <1>4, Starts DEF FallThrough, BaseInv, Still
<1>5. ASSUME NEW t \in Sessions, TryRules(t) PROVE result'[s].rule \in 1..r
  <2>0. Sc!RuleStep(t) /\ t = s
    BY <1>5, RuleMoves DEF TryRules, BaseInv, Still
  <2>1. CASE Sc!Reach(s)
    BY <2>1 DEF Sc!Reach, BaseInv, TypeOK, RuleTypes
  <2>2. CASE Sc!Store(s) \/ Sc!Check(s)
    <3>1. Sc!Finish(s, rule[s]) /\ rule[s] \in Sc!RuleIds
      <4>1. rpc[s] \in {"store", "check"}
        BY <2>2 DEF Sc!Store, Sc!Check
      <4>2. rule[s] \in Sc!RuleIds
        BY <4>1 DEF BaseInv, RuleInv
      <4>3. Sc!Finish(s, rule[s])
        BY <2>2 DEF Sc!Store, Sc!Check, BaseInv, TypeOK, RuleTypes
      <4>4. QED BY <4>2, <4>3
    <3>2. result'[s].rule = rule[s]
      BY <3>1, FinishTypes DEF BaseInv
    <3>3. QED BY <1>0, <3>2
  <2>3. CASE Sc!NoRule(s)
    <3>1. r \in Sc!NextRule(s)
      BY <1>0 DEF Sc!NextRule
    <3>2. QED BY <2>3, <3>1 DEF Sc!NoRule
  <2>4. QED BY <2>0, <2>1, <2>2, <2>3 DEF Sc!RuleStep
<1>6. QED BY <1>1, <1>2, <1>3, <1>4, <1>5 DEF Next

\* No rule behind the first one that takes every command it matches ever answers, however the
\* calls of the connections overlap.
THEOREM FirstMatches == Spec => FirstMatchWins
<1>1. BaseInv /\ [Next]_vars => [\A s \in Sessions : Sc!FirstMatch(s)]_vars
  BY FirstMatchStep
<1>2. QED BY <1>1, BaseInit, BaseStep, PTL DEF Spec, FirstMatchWins

--------------------------------------------------------------------------------
(* CursorWasFound. *)

\* The cursor is set to steps that were found, and hits only grow.
LEMMA CursorStep == TypeOK /\ CursorInv /\ [Next]_vars => CursorInv'
<1> SUFFICES ASSUME TypeOK, CursorInv, [Next]_vars PROVE CursorInv'
  OBVIOUS
<1>0. /\ N \in Nat /\ cursor \in 0..N /\ \A i \in 1..N : hits[i] \in Nat
      /\ \A s \in Sessions : at[s] \in 0..N
      /\ \A s \in Sessions : pc[s] \in {"test", "advance", "count", "store"} => at[s] \in 1..N
  BY Lists DEF TypeOK, StateTypeOK
<1>a. ASSUME UNCHANGED <<cursor, at, hits>>,
             \A s \in Sessions : /\ pc'[s] \in {"test", "advance", "count", "store"} => pc'[s] = pc[s]
                                 /\ pc[s] \in {"test", "advance"} => pc'[s] = pc[s]
      PROVE  CursorInv'
  BY <1>a DEF CursorInv
<1>1. CASE UNCHANGED vars
  BY <1>1, <1>a DEF vars, stateVars, shared, local, history
<1>2. ASSUME NEW s \in Sessions, NEW c \in Commands, Handle(s, c) PROVE CursorInv'
  <2>1. CASE Enter(s, c)
    BY <1>a, <2>1 DEF Enter, shared, history, TypeOK, StateTypeOK
  <2>2. CASE UNCHANGED <<shared, pc, start, at, seen, history>>
    BY <1>a, <2>2 DEF shared, history
  <2>3. QED BY <1>2, <2>1, <2>2 DEF Handle
<1>3. ASSUME NEW s \in Sessions, Match(s) PROVE CursorInv'
  <2>1. CASE ReadStart(s)
    BY <1>a, <2>1 DEF ReadStart, shared, history, TypeOK, StateTypeOK
  <2>2. CASE Find(s)
    <3>1. PICK i \in 1..N : at' = [at EXCEPT ![s] = i] /\ hits' = [hits EXCEPT ![i] = @ + 1]
      BY <2>2 DEF Find
    <3>2. pc[s] = "scan" /\ cursor' = cursor /\ pc' = [pc EXCEPT ![s] = "test"]
      BY <2>2 DEF Find, shared
    <3>3. /\ at'[s] = i /\ pc'[s] = "test" /\ hits'[i] > 0
          /\ \A t \in Sessions : t # s => at'[t] = at[t] /\ pc'[t] = pc[t]
      BY <1>0, <3>1, <3>2 DEF TypeOK, StateTypeOK
    <3>4. \A j \in 1..N : hits[j] > 0 => hits'[j] > 0
      BY <1>0, <3>1 DEF TypeOK, StateTypeOK
    <3>5. (cursor # 0 => hits[cursor] > 0)'
      BY <1>0, <3>2, <3>4 DEF CursorInv
    <3>6. \A t \in Sessions : pc'[t] \in {"test", "advance", "count", "store"} => hits'[at'[t]] > 0
      BY <1>0, <3>3, <3>4 DEF CursorInv
    <3>7. \A t \in Sessions : pc'[t] \in {"count", "store"} => cursor' # 0
      BY <3>2, <3>3 DEF CursorInv
    <3>8. QED BY <3>3, <3>5, <3>6, <3>7 DEF CursorInv
  <2>3. CASE Test(s)
    <3>1. /\ pc[s] = "test" /\ UNCHANGED <<cursor, at, hits>>
          /\ pc' = [pc EXCEPT ![s] = IF at[s] > cursor THEN "advance" ELSE "count"]
      BY <2>3 DEF Test, shared, history
    <3>2. \A t \in Sessions : t # s => pc'[t] = pc[t]
      BY <3>1 DEF TypeOK, StateTypeOK
    <3>3. pc'[s] = "advance" \/ (pc'[s] = "count" /\ cursor # 0)
      BY <1>0, <3>1 DEF TypeOK, StateTypeOK
    <3>4. QED BY <3>1, <3>2, <3>3 DEF CursorInv
  <2>4. CASE Advance(s)
    <3>1. /\ pc[s] = "advance" /\ cursor' = at[s] /\ UNCHANGED <<at, hits>>
          /\ pc' = [pc EXCEPT ![s] = "count"]
      BY <2>4 DEF Advance, history
    <3>2. \A t \in Sessions : t # s => pc'[t] = pc[t]
      BY <3>1 DEF TypeOK, StateTypeOK
    <3>3. pc'[s] = "count" /\ cursor' # 0 /\ hits[at[s]] > 0
      BY <1>0, <3>1 DEF TypeOK, StateTypeOK, CursorInv
    <3>4. QED BY <3>1, <3>2, <3>3 DEF CursorInv
  <2>5. CASE ReadCount(s) \/ StoreCount(s)
    <3>1. /\ pc[s] \in {"count", "store"} /\ pc'[s] \in {"store", "idle"} /\ UNCHANGED <<cursor, at, hits>>
          /\ \A t \in Sessions : t # s => pc'[t] = pc[t]
      BY <2>5 DEF ReadCount, StoreCount, shared, history, TypeOK, StateTypeOK
    <3>2. cursor # 0
      BY <3>1 DEF CursorInv
    <3>3. QED BY <3>1, <3>2 DEF CursorInv
  <2>6. QED BY <1>3, <2>1, <2>2, <2>3, <2>4, <2>5 DEF Match
<1>4. ASSUME NEW s \in Sessions, FallThrough(s) PROVE CursorInv'
  BY <1>4, <1>a DEF FallThrough, Miss, shared, TypeOK, StateTypeOK
<1>5. ASSUME NEW s \in Sessions, TryRules(s) PROVE CursorInv'
  BY <1>5, <1>a DEF TryRules, shared, history
<1>6. QED BY <1>1, <1>2, <1>3, <1>4, <1>5 DEF Next

\* The cursor names a step that some call found, and is not left at 0 by one that found a step.
THEOREM Cursors == Spec => []CursorWasFound
<1>1. Init => CursorInv
  BY DEF Init, StateInit, CursorInv
<1>2. CursorInv => CursorWasFound
  BY DEF CursorInv, CursorWasFound, Idle
<1>3. BaseInv => TypeOK
  BY DEF BaseInv
<1>4. QED BY <1>1, <1>2, <1>3, BaseInit, BaseStep, CursorStep, PTL DEF Spec

--------------------------------------------------------------------------------
(* OccurrencesExact. *)

\* A command only arrives while no other is handled, unless commands overlap.
LEMMA AloneStep ==
    ASSUME TypeOK, [Next]_vars, ~overlapped', Alone
    PROVE  Alone'
<1>0. \A s \in Sessions : Busy(s) <=> pc[s] # "idle" \/ rpc[s] # "idle"
  BY DEF Busy
<1>1. CASE UNCHANGED vars
  BY <1>1 DEF vars, stateVars, scVars, local, Alone, Busy
<1>2. ASSUME NEW s \in Sessions, NEW c \in Commands, Handle(s, c) PROVE Alone'
  <2>1. \A t \in Sessions : ~Busy(t)
    BY <1>2 DEF Handle
  <2>2. \A t \in Sessions : t # s => pc'[t] = pc[t] /\ rpc'[t] = rpc[t]
    BY <1>2 DEF Handle, Enter, Sc!Enter, scVars, TypeOK, StateTypeOK, RuleTypes
  <2>3. QED BY <2>1, <2>2 DEF Alone, Busy
<1>3. ASSUME NEW s \in Sessions, Match(s) \/ FallThrough(s) PROVE Alone'
  <2>1. pc[s] # "idle"
    BY <1>3 DEF Match, FallThrough, ReadStart, Find, Test, Advance, ReadCount, StoreCount, Miss
  <2>2. \A t \in Sessions : t # s => pc'[t] = pc[t]
    BY <1>3 DEF Match, FallThrough, ReadStart, Find, Test, Advance, ReadCount, StoreCount, Miss, TypeOK, StateTypeOK
  <2>3. \A t \in Sessions : t # s => rpc'[t] = rpc[t]
    BY <1>3, Starts DEF Match, FallThrough, scVars, Still
  <2>4. QED BY <2>1, <2>2, <2>3 DEF Alone, Busy
<1>4. ASSUME NEW s \in Sessions, TryRules(s) PROVE Alone'
  <2>1. rpc[s] # "idle" /\ pc' = pc /\ \A t \in Sessions : t # s => rpc'[t] = rpc[t]
    BY <1>4, RuleMoves DEF TryRules, Still
  <2>2. QED BY <2>1 DEF Alone, Busy
<1>5. QED BY <1>1, <1>2, <1>3, <1>4 DEF Next

\* The counts are those of the commands, and each rule has applied to those it lists.
LEMMA CountStep ==
    ASSUME BaseInv, [Next]_vars, ~overlapped', Alone, NEW r \in Sc!RuleIds, CountInv(r)
    PROVE  CountInv(r)'
<1>0. /\ counts[r] \in Nat /\ reached[r] \in Nat /\ applied[r] \subseteq Nat
      /\ \A s \in Sessions : count[s] \in Nat /\ turn[s] \in Nat
  BY DEF BaseInv, TypeOK, RuleTypes
<1>a. ASSUME UNCHANGED <<counts, reached, applied>>,
             \A s \in Sessions : \/ At(s, r, {"store", "check"}) /\ Still(s)
                                 \/ ~At(s, r, {"store", "check"}) /\ ~At(s, r, {"store", "check"})'
      PROVE  CountInv(r)'
  <2>1. \A s \in Sessions : /\ At(s, r, {"store"}) <=> At(s, r, {"store"})'
                            /\ At(s, r, {"store", "check"}) <=> At(s, r, {"store", "check"})'
                            /\ At(s, r, {"store", "check"}) => count'[s] = count[s] /\ turn'[s] = turn[s]
    BY <1>a DEF At, Still
  <2>2. \A s \in Sessions : At(s, r, {"store"}) => At(s, r, {"store", "check"})
    BY DEF At
  <2>3. QED BY <1>a, <2>1, <2>2 DEF CountInv, Listed
<1>1. CASE UNCHANGED vars
  BY <1>1, <1>a DEF vars, stateVars, scVars, local, At, Still
<1>2. ASSUME NEW s \in Sessions, NEW c \in Commands, Handle(s, c) PROVE CountInv(r)'
  <2>1. CASE UNCHANGED scVars
    <3>1. \A t \in Sessions : ~Busy(t)
      BY <1>2 DEF Handle
    <3>2. QED BY <1>a, <2>1, <3>1 DEF scVars, At, Busy
  <2>2. CASE Sc!Enter(s, c)
    BY <1>a, <2>2, Starts DEF BaseInv, At, Still
  <2>3. QED BY <1>2, <2>1, <2>2 DEF Handle
<1>3. ASSUME NEW s \in Sessions, Match(s) PROVE CountInv(r)'
  <2>1. UNCHANGED scVars /\ cmd' = cmd
    BY <1>3 DEF Match, ReadStart, Find, Test, Advance, ReadCount, StoreCount
  <2>2. QED BY <1>a, <2>1 DEF scVars, At, Still
<1>4. ASSUME NEW s \in Sessions, FallThrough(s) PROVE CountInv(r)'
  BY <1>4, <1>a, Starts DEF FallThrough, BaseInv, At, Still
<1>5. ASSUME NEW s \in Sessions, TryRules(s) PROVE CountInv(r)'
  <2>0. Sc!RuleStep(s) /\ rpc[s] # "idle" /\ \A t \in Sessions : t # s => Still(t)
    BY <1>5, RuleMoves DEF TryRules, BaseInv
  <2>1. \A t \in Sessions : t # s => rpc[t] = "idle" /\ rpc'[t] = "idle"
    BY <2>0 DEF Alone, Busy, Still
  <2> USE DEF TypeOK, RuleTypes, BaseInv
  <2>a. \A t \in Sessions : t # s => ~At(t, r, {"store", "check"}) /\ ~At(t, r, {"store", "check"})'
    BY <2>1 DEF At
  <2>2. CASE Sc!Reach(s)
    <3>1. PICK q \in Sc!RuleIds : /\ rule' = [rule EXCEPT ![s] = q]
                                  /\ count' = [count EXCEPT ![s] = counts[q]]
                                  /\ reached' = [reached EXCEPT ![q] = @ + 1]
                                  /\ turn' = [turn EXCEPT ![s] = reached[q] + 1]
      BY <2>2 DEF Sc!Reach, Sc!NextRule
    <3>2. rpc[s] = "try" /\ rpc'[s] = "store" /\ UNCHANGED <<counts, applied>> /\ rule'[s] = q
      BY <2>2, <3>1 DEF Sc!Reach
    <3>3. CASE q # r
      <4>1. reached'[r] = reached[r]
        BY <3>1, <3>3
      <4>2. \A t \in Sessions : ~At(t, r, {"store", "check"}) /\ ~At(t, r, {"store", "check"})'
        BY <2>a, <3>2, <3>3 DEF At
      <4>3. \A t \in Sessions : ~At(t, r, {"store"}) /\ ~At(t, r, {"store"})'
        BY <4>2 DEF At
      <4>4. QED BY <3>2, <4>1, <4>2, <4>3 DEF CountInv, Listed
    <3>4. CASE q = r
      <4>1. reached'[r] = reached[r] + 1 /\ count'[s] = counts[r] /\ turn'[s] = reached[r] + 1
        BY <3>1, <3>4
      <4>2. \A t \in Sessions : ~At(t, r, {"store", "check"}) /\ ~At(t, r, {"store"})
        BY <2>a, <3>2 DEF At
      <4>3. counts[r] = reached[r] /\ applied[r] \subseteq 1..reached[r]
            /\ \A n \in 1..reached[r] : n \in applied[r] <=> Listed(r, n)
        BY <4>2 DEF CountInv
      <4>4. At(s, r, {"store"})' /\ At(s, r, {"store", "check"})'
        BY <3>2, <3>4 DEF At
      <4>5. (\A t \in Sessions : At(t, r, {"store"}) => counts[r] = count[t] /\ reached[r] = count[t] + 1)'
        <5>1. \A t \in Sessions : At(t, r, {"store"})' => t = s
          BY <2>a DEF At
        <5>2. QED BY <3>2, <4>1, <4>3, <5>1
      <4>6. (\A t \in Sessions : At(t, r, {"store", "check"}) =>
               reached[r] > 0 /\ turn[t] = reached[r] /\ turn[t] \notin applied[r])'
        BY <1>0, <2>a, <3>2, <4>1, <4>3
      <4>7. (applied[r] \subseteq 1..reached[r])'
        BY <1>0, <3>2, <4>1, <4>3
      <4>8. ASSUME NEW n \in 1..reached'[r], n # turn'[s]
            PROVE  n \in applied'[r] <=> Listed(r, n)
        BY <1>0, <3>2, <4>1, <4>3, <4>8
      <4>9. QED BY <4>4, <4>5, <4>6, <4>7, <4>8 DEF CountInv, Listed
    <3>5. QED BY <3>3, <3>4
  <2>3. CASE Sc!Store(s)
    <3>1. /\ rpc[s] = "store" /\ rule[s] \in Sc!RuleIds /\ UNCHANGED <<rule, count, reached, turn>>
          /\ counts' = [counts EXCEPT ![rule[s]] = count[s] + 1]
      BY <2>3 DEF Sc!Store, RuleInv
    <3>2. \/ /\ Rules[rule[s]].occurrences = {} /\ rpc'[s] = "idle"
             /\ applied' = [applied EXCEPT ![rule[s]] = @ \cup {turn[s]}]
          \/ rpc'[s] = "check" /\ applied' = applied
      BY <2>3 DEF Sc!Store, Sc!Finish
    <3>3. CASE rule[s] # r
      <4>1. counts'[r] = counts[r] /\ applied'[r] = applied[r]
        BY <3>1, <3>2, <3>3
      <4>2. \A t \in Sessions : ~At(t, r, {"store", "check"}) /\ ~At(t, r, {"store", "check"})'
        BY <2>a, <3>1, <3>3 DEF At
      <4>3. \A t \in Sessions : ~At(t, r, {"store"}) /\ ~At(t, r, {"store"})'
        BY <4>2 DEF At
      <4>4. QED BY <3>1, <4>1, <4>2, <4>3 DEF CountInv, Listed
    <3>4. CASE rule[s] = r
      <4>1. At(s, r, {"store"}) /\ At(s, r, {"store", "check"})
        BY <3>1, <3>4 DEF At
      <4>2. /\ reached[r] = count[s] + 1 /\ reached[r] > 0 /\ turn[s] = reached[r] /\ turn[s] \notin applied[r]
            /\ applied[r] \subseteq 1..reached[r]
            /\ \A n \in 1..reached[r] : n # turn[s] => (n \in applied[r] <=> Listed(r, n))
        BY <2>a, <4>1 DEF CountInv
      <4>3. counts'[r] = reached'[r] /\ reached'[r] = reached[r] /\ turn'[s] = turn[s]
        BY <3>1, <3>4, <4>2
      <4>4. \A t \in Sessions : ~At(t, r, {"store"})'
        BY <2>a, <3>2 DEF At
      <4>5. CASE Rules[r].occurrences = {} /\ rpc'[s] = "idle" /\ applied' = [applied EXCEPT ![r] = @ \cup {turn[s]}]
        <5>1. applied'[r] = applied[r] \cup {turn[s]} /\ turn[s] \in 1..reached[r]
          BY <1>0, <4>2, <4>5
        <5>2. \A t \in Sessions : ~At(t, r, {"store", "check"})'
          BY <2>a, <4>5 DEF At
        <5>3. \A n \in 1..reached[r] : n \in applied'[r] <=> Listed(r, n)
          BY <4>2, <4>5, <5>1 DEF Listed
        <5>4. applied'[r] \subseteq 1..reached[r]
          BY <4>2, <5>1
        <5>5. QED BY <4>3, <4>4, <5>2, <5>3, <5>4 DEF CountInv, Listed
      <4>6. CASE rpc'[s] = "check" /\ applied' = applied
        <5>1. At(s, r, {"store", "check"})'
          BY <3>1, <3>4, <4>6 DEF At
        <5>2. \A t \in Sessions : At(t, r, {"store", "check"})' => t = s
          BY <2>a
        <5>3. QED BY <4>2, <4>3, <4>4, <4>6, <5>1, <5>2 DEF CountInv, Listed
      <4>7. QED BY <3>2, <3>4, <4>5, <4>6
    <3>5. QED BY <3>3, <3>4
  <2>4. CASE Sc!Check(s)
    <3>1. /\ rpc[s] = "check" /\ rule[s] \in Sc!RuleIds /\ UNCHANGED <<counts, count, reached, turn>>
          /\ Rules[rule[s]].occurrences # {} /\ rule[s] \in Nat
      BY <2>4, Lists DEF Sc!Check, RuleInv
    <3>2. \/ /\ counts[rule[s]] \in Rules[rule[s]].occurrences /\ rpc'[s] = "idle"
             /\ applied' = [applied EXCEPT ![rule[s]] = @ \cup {turn[s]}]
          \/ /\ counts[rule[s]] \notin Rules[rule[s]].occurrences /\ rpc'[s] = "try"
             /\ applied' = applied
      BY <2>4 DEF Sc!Check, Sc!Finish
    <3>3. \A t \in Sessions : ~At(t, r, {"store", "check"})'
      BY <2>a, <3>2 DEF At
    <3>4. \A t \in Sessions : ~At(t, r, {"store"})' /\ ~At(t, r, {"store"})
      BY <2>a, <3>1, <3>3 DEF At
    <3>5. CASE rule[s] # r
      <4>1. applied'[r] = applied[r]
        BY <3>1, <3>2, <3>5
      <4>2. \A t \in Sessions : ~At(t, r, {"store", "check"})
        BY <2>a, <3>5 DEF At
      <4>3. QED BY <3>1, <3>3, <3>4, <4>1, <4>2 DEF CountInv, Listed
    <3>6. CASE rule[s] = r
      <4>1. At(s, r, {"store", "check"})
        BY <3>1, <3>6 DEF At
      <4>2. /\ counts[r] = reached[r] /\ reached[r] > 0 /\ turn[s] = reached[r] /\ turn[s] \notin applied[r]
            /\ applied[r] \subseteq 1..reached[r]
            /\ \A n \in 1..reached[r] : n # turn[s] => (n \in applied[r] <=> Listed(r, n))
        BY <2>a, <3>4, <4>1 DEF CountInv
      <4>3. Listed(r, turn[s]) <=> counts[r] \in Rules[r].occurrences
        BY <3>1, <3>6, <4>2 DEF Listed
      <4>4. \A n \in 1..reached[r] : n \in applied'[r] <=> Listed(r, n)
        <5>1. applied'[r] = IF Listed(r, turn[s]) THEN applied[r] \cup {turn[s]} ELSE applied[r]
          BY <3>2, <3>6, <4>3
        <5>2. QED BY <4>2, <5>1
      <4>5. applied'[r] \subseteq 1..reached[r]
        <5>1. CASE applied'[r] = applied[r]
          BY <4>2, <5>1
        <5>2. CASE applied'[r] = applied[r] \cup {turn[s]}
          BY <1>0, <4>2, <5>2
        <5>3. QED BY <3>2, <3>6, <5>1, <5>2
      <4>6. QED BY <3>1, <3>3, <3>4, <4>2, <4>4, <4>5 DEF CountInv, Listed
    <3>7. QED BY <3>5, <3>6
  <2>5. CASE Sc!NoRule(s)
    <3>1. /\ UNCHANGED <<counts, reached, applied>>
          /\ ~At(s, r, {"store", "check"}) /\ ~At(s, r, {"store", "check"})'
      BY <2>5 DEF Sc!NoRule, Sc!Finish, At
    <3>2. QED BY <1>a, <2>a, <3>1
  <2>6. QED BY <2>0, <2>2, <2>3, <2>4, <2>5 DEF Sc!RuleStep
<1>6. QED BY <1>1, <1>2, <1>3, <1>4, <1>5 DEF Next

\* The inductive invariant of OccurrencesExact.
ExactInv == BaseInv /\ (~overlapped => Alone /\ \A r \in Sc!RuleIds : CountInv(r))

\* Every step keeps it.
LEMMA ExactStep == ExactInv /\ [Next]_vars => ExactInv'
<1> SUFFICES ASSUME ExactInv, [Next]_vars PROVE ExactInv'
  OBVIOUS
<1>1. BaseInv'
  BY BaseStep DEF ExactInv
<1>2. ASSUME ~overlapped' PROVE Alone' /\ \A r \in Sc!RuleIds : CountInv(r)'
  <2>1. ~overlapped
    BY <1>2 DEF Next, vars, Handle, Match, FallThrough, TryRules
  <2>2. Alone'
    BY <1>2, <2>1, AloneStep DEF ExactInv, BaseInv
  <2>3. \A r \in Sc!RuleIds : CountInv(r)'
    BY <1>2, <2>1, CountStep DEF ExactInv
  <2>4. QED BY <2>2, <2>3
<1>3. QED BY <1>1, <1>2 DEF ExactInv

\* It holds at the start.
LEMMA ExactInit == Init => ExactInv
<1> SUFFICES ASSUME Init PROVE ExactInv
  OBVIOUS
<1>1. Alone
  BY DEF Alone, Busy, Init, StateInit, Sc!RulesInit
<1>2. ASSUME NEW r \in Sc!RuleIds PROVE CountInv(r)
  <2>1. counts[r] = 0 /\ reached[r] = 0 /\ applied[r] = {} /\ \A s \in Sessions : rpc[s] = "idle"
    BY DEF Init, Sc!RulesInit
  <2>2. QED BY <2>1 DEF CountInv, At
<1>3. QED BY <1>1, <1>2, BaseInit DEF ExactInv

\* While commands are not handled at once a rule applies to the occurrences it lists, and it
\* is never ahead of them.
THEOREM Occurrences == Spec => []OccurrencesExact
<1>1. ASSUME ExactInv PROVE OccurrencesExact
  <2>1. ASSUME ~overlapped, Sc!Idle, NEW r \in Sc!RuleIds, NEW n \in 1..reached[r]
        PROVE  n \in applied[r] <=> Rules[r].occurrences = {} \/ n \in Rules[r].occurrences
    <3>1. \A s \in Sessions : ~At(s, r, {"store", "check"})
      BY <2>1 DEF Sc!Idle, At
    <3>2. QED BY <1>1, <2>1, <3>1 DEF ExactInv, CountInv, Listed
  <2>2. Sc!CountsNeverAhead
    BY <1>1 DEF ExactInv, BaseInv
  <2>3. QED BY <2>1, <2>2 DEF OccurrencesExact, Sc!OccurrencesExact
<1>2. QED BY <1>1, ExactInit, ExactStep, PTL DEF Spec

--------------------------------------------------------------------------------
(* RetryIsRight. *)

\* A faulty rule is the first one that matches a node's command.
LEMMA FaultyFirst ==
    ASSUME OnlyFirstFaults, NEW s \in Sessions, Profile[s] = "sbc", NEW c,
           NEW r \in Sc!RuleIds, Faulty(r, c)
    PROVE  /\ Sc!Matches(r, s, c) /\ Rules[r].occurrences = {1}
           /\ \A q \in Sc!RuleIds : Sc!Matches(q, s, c) => r <= q
<1>1. Sc!Matches(r, s, c) /\ Rules[r].occurrences = {1}
  BY DEF Faulty, Sc!Matches, OnlyFirstFaults
<1>2. ASSUME NEW q \in Sc!RuleIds, Sc!Matches(q, s, c), ~(r <= q) PROVE FALSE
  <2>1. q \in 1..(r - 1)
    BY <1>2, Lists
  <2>2. Rules[q].profile \in {"any", "sbc"} /\ c \in Rules[q].sends
    BY <1>2 DEF Sc!Matches
  <2>3. Rules[q].sends \cap Rules[r].sends \cap Checksums = {}
    BY <2>1, <2>2 DEF OnlyFirstFaults, Faulty
  <2>4. QED BY <2>2, <2>3 DEF Faulty
<1>3. QED BY <1>1, <1>2

\* An answer makes no second wrong checksum, if a faulty rule only answers the first request.
LEMMA FinishRight ==
    ASSUME TypeOK, OnlyFirstFaults, Sc!RetryIsRight, NEW s \in Sessions,
           NEW q \in Sc!RuleIds \cup {0}, Sc!Finish(s, q),
           q # 0 /\ Rules[q].corrupt /\ Profile[s] = "sbc" /\ cmd[s] \in Checksums => digests[cmd[s]] = <<>>
    PROVE  /\ Sc!RetryIsRight'
           /\ \A c \in Commands : digests'[c] # <<>> =>
                digests[c] # <<>> \/ (c = cmd[s] /\ Profile[s] = "sbc")
<1> DEFINE d == Sc!Digest(s, q)
<1>1. digests' = IF Profile[s] = "sbc" THEN [digests EXCEPT ![cmd[s]] = Append(@, d)] ELSE digests
  BY DEF Sc!Finish
<1>2. cmd[s] \in Commands /\ digests \in [Commands -> Seq(Digests)] /\ Checksums \subseteq Commands
  BY FaultAssumption DEF TypeOK, StateTypeOK, RuleTypes
<1>3. d \in Digests
  BY DigestTypes
<1>4. cmd[s] \in Checksums => d = "right" \/ (q # 0 /\ Rules[q].corrupt)
  BY DEF Sc!Digest, OnlyFirstFaults
<1> HIDE DEF d
<1>5. \A c \in Commands : c # cmd[s] \/ Profile[s] # "sbc" => digests'[c] = digests[c]
  BY <1>1, <1>2
<1>6. ASSUME NEW c \in Checksums, NEW i \in 2..Len(digests'[c]) PROVE digests'[c][i] = "right"
  <2>1. CASE c # cmd[s] \/ Profile[s] # "sbc"
    <3>1. digests'[c] = digests[c]
      BY <1>2, <1>5, <2>1
    <3>2. QED BY <1>6, <3>1 DEF Sc!RetryIsRight
  <2>2. CASE c = cmd[s] /\ Profile[s] = "sbc"
    <3>1. digests'[c] = Append(digests[c], d) /\ digests[c] \in Seq(Digests)
      BY <1>1, <1>2, <2>2
    <3>2. Len(digests'[c]) = Len(digests[c]) + 1 /\ Len(digests[c]) \in Nat
      BY <1>3, <3>1
    <3>3. CASE i = Len(digests[c]) + 1
      <4>1. digests'[c][i] = d
        BY <1>3, <3>1, <3>3
      <4>2. Len(digests[c]) # 0
        BY <1>6, <3>2, <3>3
      <4>3. digests[c] # <<>>
        BY <4>2
      <4>4. QED BY <1>4, <2>2, <4>1, <4>3
    <3>4. CASE i # Len(digests[c]) + 1
      <4>1. i \in 2..Len(digests[c])
        BY <1>6, <3>2, <3>4
      <4>2. digests'[c][i] = digests[c][i]
        BY <1>3, <3>1, <4>1
      <4>3. QED BY <4>1, <4>2 DEF Sc!RetryIsRight
    <3>5. QED BY <3>3, <3>4
  <2>3. QED BY <2>1, <2>2
<1>7. \A c \in Commands : digests'[c] # <<>> => digests[c] # <<>> \/ (c = cmd[s] /\ Profile[s] = "sbc")
  BY <1>5
<1>8. QED BY <1>6, <1>7 DEF Sc!RetryIsRight

\* A faulty rule sees every request of a node for the checksum, so that the first one is its
\* first occurrence.
LEMMA FaultStep ==
    ASSUME ExactInv, ~overlapped, OnlyFirstFaults, FaultInv, Sc!RetryIsRight, [Next]_vars
    PROVE  FaultInv' /\ Sc!RetryIsRight'
<1>0. /\ \A r \in Sc!RuleIds : r \in Nat \ {0} /\ reached[r] \in Nat /\ counts[r] \in Nat
      /\ \A t \in Sessions : rule[t] \in Nat \ {0} /\ cmd[t] \in Commands
  <2>1. \A r \in Sc!RuleIds : r \in Nat \ {0}
    BY Lists
  <2>2. \A r \in Sc!RuleIds : reached[r] \in Nat /\ counts[r] \in Nat
    BY DEF ExactInv, BaseInv, TypeOK, RuleTypes
  <2>3. \A t \in Sessions : rule[t] \in Nat \ {0} /\ cmd[t] \in Commands
    BY DEF ExactInv, BaseInv, TypeOK, RuleTypes, StateTypeOK
  <2>4. QED BY <2>1, <2>2, <2>3
<1>a. ASSUME UNCHANGED <<reached, digests>>, \A t \in Sessions : Still(t) \/ rpc'[t] = "idle" \/ (rpc'[t] = "try" /\ rule'[t] = 1)
      PROVE  FaultInv' /\ Sc!RetryIsRight'
  <2>1. ASSUME NEW t \in Sessions, NEW r \in Sc!RuleIds,
               rpc'[t] # "idle", Profile[t] = "sbc", Faulty(r, cmd'[t])
        PROVE  Passed(t, r)'
    <3>1. CASE Still(t)
      <4>1. Passed(t, r)
        BY <2>1, <3>1 DEF FaultInv, Still
      <4>2. QED BY <1>a, <3>1, <4>1 DEF Passed, At, Still
    <3>2. CASE rpc'[t] = "try" /\ rule'[t] = 1
      BY <1>0, <3>2 DEF Passed, At
    <3>3. QED BY <1>a, <2>1, <3>1, <3>2
  <2>2. QED BY <1>a, <2>1 DEF FaultInv, Sc!RetryIsRight
<1>1. CASE UNCHANGED vars
  BY <1>1, <1>a DEF vars, stateVars, scVars, local, Still
<1>2. ASSUME NEW s \in Sessions, NEW c \in Commands, Handle(s, c) PROVE FaultInv' /\ Sc!RetryIsRight'
  <2>1. CASE Enter(s, c) /\ UNCHANGED scVars
    <3>1. \A t \in Sessions : t # s => Still(t)
      BY <2>1 DEF Enter, scVars, Still, ExactInv, BaseInv, TypeOK, StateTypeOK
    <3>2. rpc'[s] = "idle"
      BY <1>2, <2>1 DEF Handle, Busy, scVars
    <3>3. QED BY <1>a, <2>1, <3>1, <3>2 DEF scVars
  <2>2. CASE Sc!Enter(s, c)
    BY <1>a, <2>2, Starts DEF ExactInv, BaseInv
  <2>3. QED BY <1>2, <2>1, <2>2 DEF Handle
<1>3. ASSUME NEW s \in Sessions, Match(s) PROVE FaultInv' /\ Sc!RetryIsRight'
  <2>1. UNCHANGED scVars /\ cmd' = cmd
    BY <1>3 DEF Match, ReadStart, Find, Test, Advance, ReadCount, StoreCount
  <2>2. QED BY <1>a, <2>1 DEF scVars, Still
<1>4. ASSUME NEW s \in Sessions, FallThrough(s) PROVE FaultInv' /\ Sc!RetryIsRight'
  BY <1>4, <1>a, Starts DEF FallThrough, ExactInv, BaseInv
<1>5. ASSUME NEW s \in Sessions, TryRules(s) PROVE FaultInv' /\ Sc!RetryIsRight'
  <2>0. /\ Sc!RuleStep(s) /\ rpc[s] # "idle" /\ cmd' = cmd /\ \A t \in Sessions : t # s => Still(t)
        /\ \A r \in Sc!RuleIds : reached[r] <= reached'[r]
    BY <1>5, RuleMoves DEF TryRules, ExactInv, BaseInv
  <2>1. \A t \in Sessions : t # s => rpc'[t] = "idle"
    BY <2>0 DEF ExactInv, Alone, Busy, Still
  <2>a. \A r \in Sc!RuleIds : Profile[s] = "sbc" /\ Faulty(r, cmd[s]) => Passed(s, r)
    BY <2>0 DEF FaultInv
  <2>b. RuleInv(s) /\ \A r \in Sc!RuleIds : CountInv(r)
    BY DEF ExactInv, BaseInv
  <2> USE DEF TypeOK, RuleTypes
  <2>2. CASE Sc!Reach(s)
    <3>1. PICK q \in Sc!NextRule(s) : /\ \A p \in Sc!NextRule(s) : q <= p
                                      /\ rule' = [rule EXCEPT ![s] = q]
                                      /\ reached' = [reached EXCEPT ![q] = @ + 1]
                                      /\ turn' = [turn EXCEPT ![s] = reached[q] + 1]
      BY <2>2 DEF Sc!Reach
    <3>2. rpc[s] = "try" /\ rpc'[s] = "store" /\ digests' = digests
      BY <2>2 DEF Sc!Reach, ExactInv, BaseInv
    <3>3. q \in Sc!RuleIds /\ Sc!Matches(q, s, cmd[s])
      BY DEF Sc!NextRule
    <3>4. rule'[s] = q /\ reached'[q] = reached[q] + 1 /\ turn'[s] = reached[q] + 1
      BY <3>1, <3>3 DEF ExactInv, BaseInv
    <3>5. ASSUME NEW r \in Sc!RuleIds, Profile[s] = "sbc", Faulty(r, cmd[s])
          PROVE  Passed(s, r)'
      <4>1. Sc!Matches(r, s, cmd[s]) /\ r <= q
        BY <3>3, <3>5, FaultyFirst
      <4>2. r < q => reached[r] > 0
        <5>1. r < q => r \notin Sc!NextRule(s)
          BY <1>0, <3>1, <3>3
        <5>2. r < q => rule[s] > r
          BY <1>0, <4>1, <5>1 DEF Sc!NextRule
        <5>3. QED BY <2>a, <3>5, <5>2 DEF Passed
      <4>3. reached'[r] > 0
        <5>1. CASE r = q
          BY <1>0, <3>4, <5>1
        <5>2. CASE r # q
          <6>1. reached'[r] = reached[r] /\ r < q
            BY <1>0, <3>1, <3>3, <4>1, <5>2 DEF ExactInv, BaseInv
          <6>2. QED BY <4>2, <6>1
        <5>3. QED BY <5>1, <5>2
      <4>4. At(s, r, {"store", "check"})' /\ turn'[s] = 1 => digests[cmd[s]] = <<>>
        <5>1. At(s, r, {"store", "check"})' /\ turn'[s] = 1 => ~(reached[r] > 0)
          BY <1>0, <3>3, <3>4 DEF At
        <5>2. QED BY <1>0, <3>5, <5>1 DEF FaultInv
      <4>5. QED BY <1>0, <2>0, <3>2, <3>3, <3>4, <4>1, <4>3, <4>4 DEF Passed
    <3>6. \A c \in Commands, r \in Sc!RuleIds : Faulty(r, c) /\ digests'[c] # <<>> => reached'[r] > 0
      <4>1. \A r \in Sc!RuleIds : reached[r] > 0 => reached'[r] > 0
        BY <1>0, <3>1, <3>3, <3>4 DEF ExactInv, BaseInv
      <4>2. QED BY <3>2, <4>1 DEF FaultInv
    <3>7. FaultInv'
      BY <2>0, <2>1, <3>5, <3>6 DEF FaultInv
    <3>8. QED BY <3>2, <3>7 DEF Sc!RetryIsRight
  <2>b1. ASSUME NEW q \in Sc!RuleIds \cup {0}, Sc!Finish(s, q), reached' = reached,
                q # 0 /\ Rules[q].corrupt /\ Profile[s] = "sbc" /\ cmd[s] \in Checksums => digests[cmd[s]] = <<>>,
                \A r \in Sc!RuleIds : Profile[s] = "sbc" /\ Faulty(r, cmd[s]) => reached[r] > 0
         PROVE  FaultInv' /\ Sc!RetryIsRight'
    <3>1. /\ Sc!RetryIsRight'
          /\ \A c \in Commands : digests'[c] # <<>> =>
               digests[c] # <<>> \/ (c = cmd[s] /\ Profile[s] = "sbc")
      BY <2>b1, FinishRight DEF ExactInv, BaseInv
    <3>2. rpc'[s] = "idle"
      BY <2>b1 DEF Sc!Finish, ExactInv, BaseInv
    <3>3. \A c \in Commands, r \in Sc!RuleIds : Faulty(r, c) /\ digests'[c] # <<>> => reached'[r] > 0
      BY <2>b1, <3>1 DEF FaultInv
    <3>4. FaultInv'
      BY <2>1, <3>2, <3>3 DEF FaultInv
    <3>5. QED BY <3>1, <3>4
  <2>b2. ASSUME UNCHANGED <<reached, turn, digests>>, rpc[s] \in {"store", "check"},
                \/ rpc'[s] = "check" /\ rule'[s] = rule[s]
                \/ rpc'[s] = "try" /\ rule'[s] = rule[s] + 1
         PROVE  FaultInv' /\ Sc!RetryIsRight'
    <3>1. ASSUME NEW r \in Sc!RuleIds, Profile[s] = "sbc", Faulty(r, cmd[s]) PROVE Passed(s, r)'
      <4>1. Passed(s, r)
        BY <2>a, <3>1
      <4>2. QED BY <1>0, <2>0, <2>b2, <4>1 DEF Passed, At
    <3>2. FaultInv'
      BY <2>0, <2>1, <2>b2, <3>1 DEF FaultInv
    <3>3. QED BY <2>b2, <3>2 DEF Sc!RetryIsRight
  <2>3. CASE Sc!Store(s)
    <3>1. rpc[s] = "store" /\ rule[s] \in Sc!RuleIds /\ UNCHANGED <<rule, reached, turn>>
          /\ Sc!Matches(rule[s], s, cmd[s])
      BY <2>3, <2>b DEF Sc!Store, RuleInv
    <3>2. CASE Rules[rule[s]].occurrences = {}
      <4>1. Sc!Finish(s, rule[s])
        BY <2>3, <3>2 DEF Sc!Store
      <4>2. ~Rules[rule[s]].corrupt
        BY <3>1, <3>2 DEF OnlyFirstFaults
      <4>3. \A r \in Sc!RuleIds : Profile[s] = "sbc" /\ Faulty(r, cmd[s]) => reached[r] > 0
        BY <2>a, <3>1 DEF Passed
      <4>4. QED BY <2>b1, <3>1, <4>1, <4>2, <4>3
    <3>3. CASE Rules[rule[s]].occurrences # {}
      <4>1. rpc'[s] = "check" /\ digests' = digests
        BY <2>3, <3>3 DEF Sc!Store, ExactInv, BaseInv
      <4>2. QED BY <2>b2, <3>1, <4>1
    <3>4. QED BY <3>2, <3>3
  <2>4. CASE Sc!Check(s)
    <3>1. rpc[s] = "check" /\ rule[s] \in Sc!RuleIds /\ UNCHANGED <<reached, turn>>
          /\ Sc!Matches(rule[s], s, cmd[s])
      BY <2>4, <2>b DEF Sc!Check, RuleInv
    <3>2. CASE counts[rule[s]] \in Rules[rule[s]].occurrences
      <4>1. Sc!Finish(s, rule[s])
        BY <2>4, <3>2 DEF Sc!Check
      <4>2. ASSUME Rules[rule[s]].corrupt, Profile[s] = "sbc", cmd[s] \in Checksums
            PROVE  digests[cmd[s]] = <<>>
        <5>1. Faulty(rule[s], cmd[s]) /\ counts[rule[s]] = 1
          BY <3>1, <3>2, <4>2 DEF Faulty, Sc!Matches, OnlyFirstFaults
        <5>2. At(s, rule[s], {"store", "check"}) /\ \A t \in Sessions : ~At(t, rule[s], {"store"})
          BY <2>0, <2>1, <3>1 DEF At, Still
        <5>3. turn[s] = 1
          BY <2>b, <3>1, <5>1, <5>2 DEF CountInv
        <5>4. QED BY <2>a, <3>1, <4>2, <5>1, <5>2, <5>3 DEF Passed
      <4>3. \A r \in Sc!RuleIds : Profile[s] = "sbc" /\ Faulty(r, cmd[s]) => reached[r] > 0
        BY <2>a, <3>1 DEF Passed
      <4>4. QED BY <2>b1, <3>1, <4>1, <4>2, <4>3
    <3>3. CASE counts[rule[s]] \notin Rules[rule[s]].occurrences
      <4>1. rpc'[s] = "try" /\ rule'[s] = rule[s] + 1 /\ digests' = digests
        BY <2>4, <3>3 DEF Sc!Check, ExactInv, BaseInv
      <4>2. QED BY <2>b2, <3>1, <4>1
    <3>4. QED BY <3>2, <3>3
  <2>5. CASE Sc!NoRule(s)
    <3>1. rpc[s] = "try" /\ Sc!NextRule(s) = {} /\ Sc!Finish(s, 0) /\ reached' = reached
      BY <2>5 DEF Sc!NoRule
    <3>2. ASSUME NEW r \in Sc!RuleIds, Profile[s] = "sbc", Faulty(r, cmd[s]) PROVE reached[r] > 0
      <4>1. Sc!Matches(r, s, cmd[s])
        BY <3>2, FaultyFirst
      <4>2. rule[s] > r
        BY <1>0, <3>1, <4>1 DEF Sc!NextRule
      <4>3. QED BY <2>a, <3>2, <4>2 DEF Passed
    <3>3. QED BY <2>b1, <3>1, <3>2
  <2>6. QED BY <2>0, <2>2, <2>3, <2>4, <2>5 DEF Sc!RuleStep
<1>6. QED BY <1>1, <1>2, <1>3, <1>4, <1>5 DEF Next

\* A retry is answered with the right checksum, while commands are not handled at once and
\* the only faults are rules for the first occurrence that see every request.
THEOREM Retries == Spec => []RetryIsRight
<1> DEFINE Inv == ExactInv /\ (OnlyFirstFaults /\ ~overlapped => FaultInv /\ Sc!RetryIsRight)
<1>1. Init => Inv
  <2> SUFFICES ASSUME Init PROVE Inv
    OBVIOUS
  <2>1. \A c \in Commands : digests[c] = <<>>
    BY DEF Init, Sc!RulesInit
  <2>2. FaultInv
    BY <2>1 DEF FaultInv, Init, Sc!RulesInit
  <2>3. Sc!RetryIsRight
    BY <2>1, FaultAssumption DEF Sc!RetryIsRight
  <2>4. QED BY <2>2, <2>3, ExactInit
<1>2. Inv /\ [Next]_vars => Inv'
  <2> SUFFICES ASSUME Inv, [Next]_vars PROVE Inv'
    OBVIOUS
  <2>1. ExactInv'
    BY ExactStep
  <2>2. OnlyFirstFaults' <=> OnlyFirstFaults
    BY DEF OnlyFirstFaults
  <2>3. ~overlapped' => ~overlapped
    BY DEF Next, vars, Handle, Match, FallThrough, TryRules
  <2>4. OnlyFirstFaults /\ ~overlapped' => FaultInv' /\ Sc!RetryIsRight'
    BY <2>3, FaultStep
  <2>5. QED BY <2>1, <2>2, <2>4
<1>3. Inv => RetryIsRight
  BY DEF RetryIsRight
<1>4. QED BY <1>1, <1>2, <1>3, PTL DEF Spec
================================================================================

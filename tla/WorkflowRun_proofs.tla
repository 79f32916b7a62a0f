---------------------------- MODULE WorkflowRun_proofs ----------------------------
(***************************************************************************)
(* Proofs about WorkflowRun, for every workflow, look-ahead and number of  *)
(* sessions: while no two steps in reach of one look-ahead can be confused *)
(* and no loop has two sub-steps, the simulator stays in step with the     *)
(* engine.                                                                 *)
(***************************************************************************)
EXTENDS WorkflowRun, TLAPS

\* The length of the workflow is a number.
LEMMA StepsAreSteps == N \in Nat
BY StepsAssumption DEF N

\* The first step that accepts the command of the step played is that step.
LEMMA FoundIsPlayed ==
    ASSUME RunInv, Unambiguous, pc[who] = "scan",
           NEW i \in 1..N, IsFirst(i, cursor, start[who], cmd[who])
    PROVE  i = playing
<1> DEFINE c == cmd[who]
<1>1. /\ Accepts(playing, c) /\ start[who] = Begin(cursor)
      /\ playing = cursor \/ (cursor < playing /\ playing \in Window(Begin(cursor)))
    BY DEF RunInv, Searching
<1>2. cursor \in 0..N /\ playing \in 0..N /\ c \in Commands /\ N \in Nat /\ ScanAhead \in Nat
    BY StepsAreSteps, ScanAheadAssumption DEF RunInv, TypeOK, StateTypeOK
<1>3. CASE playing = cursor
    BY <1>1, <1>3 DEF IsFirst
<1>4. CASE cursor < playing /\ playing \in Window(Begin(cursor))
    <2>1. CASE i = cursor /\ Accepts(i, c)
        <3>1. i < playing /\ playing <= i + ScanAhead
            BY <1>2, <1>4, <2>1 DEF Window, Begin
        <3>2. playing \in 1..N
            BY <1>4 DEF Window
        <3> QED BY <1>1, <1>2, <2>1, <3>1, <3>2 DEF Unambiguous
    <2>2. CASE i \in Window(start[who]) /\ Accepts(i, c) /\ \A j \in Window(start[who]) : Accepts(j, c) => i <= j
        <3>1. i <= playing
            BY <1>1, <1>4, <2>2
        <3>2. playing <= i + ScanAhead /\ playing \in 1..N
            BY <1>1, <1>2, <1>4, <2>2 DEF Window, Begin
        <3>3. ~(i < playing)
            BY <1>1, <1>2, <2>2, <3>2 DEF Unambiguous
        <3> QED BY <1>2, <3>1, <3>3
    <2> QED BY <2>1, <2>2 DEF IsFirst
<1> QED BY <1>1, <1>3, <1>4

\* So match never misses while the engine plays the workflow.
LEMMA NeverMissed ==
    ASSUME RunInv, pc[who] = "scan"
    PROVE  ~NoneAccepts(cursor, start[who], cmd[who])
BY DEF RunInv, Searching, NoneAccepts

\* The invariant holds at the start.
LEMMA RunInvInit == Init => RunInv
<1> SUFFICES ASSUME Init PROVE RunInv
    OBVIOUS
<1>1. N \in Nat
    BY StepsAreSteps
<1>2. (CHOOSE c \in Commands : TRUE) \in Commands
    BY CommandsAssumption
<1>3. StateTypeOK
    <2>1. /\ cursor \in 0..N /\ match_counts \in [1..N -> Nat] /\ hits \in [1..N -> Nat]
          /\ start \in [Sessions -> 1..(N + 1)]
        BY <1>1 DEF Init, StateInit
    <2>4. cmd \in [Sessions -> Commands]
        BY <1>2, Zenon DEF Init, StateInit
    <2>2. /\ at \in [Sessions -> 0..N] /\ seen \in [Sessions -> Nat]
          /\ answer \in [Sessions -> [step : 0..N, fail : BOOLEAN]]
        BY <1>1 DEF Init, StateInit, None
    <2>3. \A s \in Sessions : pc[s] = "idle"
        BY DEF Init, StateInit
    <2> QED BY <2>1, <2>2, <2>3, <2>4 DEF Init, StateInit, StateTypeOK
<1> QED BY <1>1, <1>3 DEF Init, StateInit, RunInv, TypeOK, OwnStep, AtRest, Searching, Found, Idle

--------------------------------------------------------------------------------
\* Each step of a call of match keeps the types.
LEMMA MatchStepType ==
    ASSUME TypeOK, NEW s \in Sessions, MatchStep(s), UNCHANGED <<playing, who, calls>>
    PROVE  TypeOK'
<1> USE StepsAreSteps DEF TypeOK, StateTypeOK, shared, history
<1>1. CASE ReadStart(s)
    <2>1. Begin(cursor) \in 1..(N + 1)
        BY DEF Begin
    <2> QED BY <1>1, <2>1 DEF ReadStart
<1>2. CASE Find(s)
    <2>1. PICK i \in 1..N : /\ at' = [at EXCEPT ![s] = i]
                            /\ hits' = [hits EXCEPT ![i] = @ + 1]
        BY <1>2 DEF Find
    <2>a. at' \in [Sessions -> 0..N] /\ at'[s] # 0
        BY <2>1
    <2>b. hits' \in [1..N -> Nat]
        <3>1. hits \in [1..N -> Nat] /\ i \in 1..N
            BY <2>1
        <3>2. hits[i] + 1 \in Nat
            BY <3>1
        <3> QED BY ONLY <2>1, <3>1, <3>2
    <2>2. at' \in [Sessions -> 0..N] /\ hits' \in [1..N -> Nat] /\ at'[s] # 0
        BY <2>a, <2>b
    <2>3. pc' \in [Sessions -> {"idle", "start", "scan", "test", "advance", "count", "store"}]
        BY <1>2 DEF Find
    <2>4. \A t \in Sessions : t # s => pc'[t] = pc[t] /\ at'[t] = at[t]
        BY <1>2, <2>1 DEF Find
    <2>5. pc[s] # "idle"
        BY <1>2 DEF Find
    <2> QED BY <1>2, <2>2, <2>3, <2>4, <2>5 DEF Find
<1>3. CASE Miss(s)
    <2>1. answer' \in [Sessions -> [step : 0..N, fail : BOOLEAN]]
        BY <1>3 DEF Miss, None
    <2>2. pc' = [pc EXCEPT ![s] = "idle"]
        BY <1>3 DEF Miss
    <2> QED BY <1>3, <2>1, <2>2 DEF Miss
<1>4. CASE Test(s)
    BY <1>4 DEF Test
<1>5. CASE Advance(s)
    BY <1>5 DEF Advance
<1>6. CASE ReadCount(s)
    <2>1. at[s] \in 1..N
        BY <1>6 DEF ReadCount
    <2> QED BY <1>6, <2>1 DEF ReadCount
<1>7. CASE StoreCount(s)
    <2>1. at[s] \in 1..N /\ (at[s] \in FailAt) \in BOOLEAN
        BY <1>7 DEF StoreCount
    <2>2. answer' \in [Sessions -> [step : 0..N, fail : BOOLEAN]]
        BY <1>7, <2>1 DEF StoreCount
    <2>3. match_counts' \in [1..N -> Nat]
        BY <1>7, <2>1 DEF StoreCount
    <2>4. pc' = [pc EXCEPT ![s] = "idle"]
        BY <1>7 DEF StoreCount
    <2> QED BY <1>7, <2>2, <2>3, <2>4 DEF StoreCount
<1> QED BY <1>1, <1>2, <1>3, <1>4, <1>5, <1>6, <1>7 DEF MatchStep

\* Sending the next command keeps the types.
LEMMA PlayType ==
    ASSUME TypeOK, NEW s \in Sessions, NEW k \in 1..N, NEW c \in Commands, Play(s, k, c)
    PROVE  TypeOK'
<1>1. pc' = [pc EXCEPT ![s] = "start"] /\ cmd' = [cmd EXCEPT ![s] = c]
    BY DEF Play, Enter
<1>2. UNCHANGED <<cursor, match_counts, start, at, seen, answer, hits>>
    BY DEF Play, Enter, shared, history
<1>3. playing' \in 0..N /\ who' = s /\ calls' \in Nat
    BY StepsAreSteps DEF TypeOK, Play
<1>4. \A t \in Sessions : pc[t] = "idle"
    BY DEF Play, Idle
<1>5. StateTypeOK'
    BY <1>1, <1>2 DEF TypeOK, StateTypeOK
<1>6. \A t \in Sessions : pc'[t] # "idle" => t = who'
    BY <1>1, <1>3, <1>4 DEF TypeOK, StateTypeOK
<1> QED BY <1>3, <1>5, <1>6 DEF TypeOK

--------------------------------------------------------------------------------
\* The engine's choice of the next step is one that match can find.
LEMMA PlayKeeps ==
    ASSUME RunInv, OneStepLoops,
           NEW s \in Sessions, NEW k \in 1..N, NEW c \in Commands, Play(s, k, c)
    PROVE  RunInv'
<1>1. TypeOK'
    BY PlayType DEF RunInv
<1>2. /\ pc' = [pc EXCEPT ![s] = "start"] /\ cmd' = [cmd EXCEPT ![s] = c]
      /\ UNCHANGED <<cursor, match_counts, hits>>
      /\ playing' = k /\ who' = s /\ Accepts(k, c)
    BY DEF Play, Enter, shared, history
<1>3. cursor = playing /\ match_counts = hits
    BY DEF RunInv, AtRest, Play
<1>4. k = cursor \/ (cursor < k /\ k \in Window(Begin(cursor)))
    <2>1. CASE playing < k /\ k \in Window(Begin(playing))
        BY <1>3, <2>1
    <2>2. CASE \E l \in Loops : playing \in l /\ k \in l
        <3>1. playing # 0
            BY <2>2, LoopsAssumption, StepsAreSteps
        <3>2. PICK d \in Commands : Accepts(playing, d)
            BY <3>1 DEF RunInv
        <3> QED BY <1>2, <1>3, <2>2, <3>2 DEF OneStepLoops
    <2> QED BY <2>1, <2>2 DEF Play, Following
<1>5. pc' \in [Sessions -> {"idle", "start", "scan", "test", "advance", "count", "store"}] /\ pc'[s] = "start" /\ cmd'[s] = c
    BY <1>2 DEF RunInv, TypeOK, StateTypeOK
<1>6. ~Idle'
    BY <1>5 DEF Idle
<1>7. Searching'
    BY <1>2, <1>3, <1>4, <1>5 DEF Searching, Window, Accepts, Begin
<1>8. Found'
    BY <1>2, <1>5 DEF Found
<1>9. playing' # 0 /\ Accepts(playing, c)'
    BY <1>2, StepsAreSteps DEF Accepts
<1> QED BY <1>1, <1>6, <1>7, <1>8, <1>9 DEF RunInv, OwnStep, AtRest

\* Each step of the one call in flight keeps it, and moves the cursor forward only.
LEMMA MatchStepKeeps ==
    ASSUME RunInv, Unambiguous,
           NEW s \in Sessions, MatchStep(s), UNCHANGED <<playing, who, calls>>
    PROVE  RunInv' /\ cursor' >= cursor /\ cursor' <= cursor + ScanAhead + 1
<1>1. TypeOK'
    BY MatchStepType DEF RunInv
<1>2. s = who /\ pc[who] # "idle" /\ ~Idle
    BY DEF RunInv, TypeOK, MatchStep, ReadStart, Find, Miss, Test, Advance, ReadCount, StoreCount, Idle
<1>3. playing # 0 /\ playing \in 1..N
    BY <1>2, StepsAreSteps DEF RunInv, TypeOK
<1>4. /\ cursor \in 0..N /\ match_counts \in [1..N -> Nat] /\ hits \in [1..N -> Nat]
      /\ pc \in [Sessions -> {"idle", "start", "scan", "test", "advance", "count", "store"}]
      /\ at \in [Sessions -> 0..N] /\ start \in [Sessions -> 1..(N + 1)]
      /\ seen \in [Sessions -> Nat] /\ answer \in [Sessions -> [step : 0..N, fail : BOOLEAN]]
      /\ N \in Nat /\ ScanAhead \in Nat
      /\ \A t \in Sessions : t # s => pc[t] = "idle"
    BY <1>2, StepsAreSteps, ScanAheadAssumption DEF RunInv, TypeOK, StateTypeOK
<1>5. \E c \in Commands : Accepts(playing, c)
    BY <1>3 DEF RunInv
<1>6. (\E c \in Commands : Accepts(playing, c))'
    <2>1. playing' = playing
        OBVIOUS
    <2> QED BY <1>5, <2>1 DEF Accepts
<1>7. CASE ReadStart(s)
    <2>1. pc' = [pc EXCEPT ![s] = "scan"] /\ start' = [start EXCEPT ![s] = Begin(cursor)]
          /\ UNCHANGED <<cursor, match_counts, cmd, hits>>
        BY <1>7 DEF ReadStart, shared, history
    <2>2. pc'[who'] = "scan" /\ start'[who'] = Begin(cursor)
        BY <1>2, <1>4, <2>1
    <2>3. Searching'
        BY <1>2, <1>7, <2>1, <2>2 DEF RunInv, Searching, ReadStart, Accepts, Window, Begin
    <2>4. Found' /\ ~Idle'
        BY <1>2, <2>2 DEF Found, Idle
    <2> QED BY <1>1, <1>3, <1>4, <1>6, <2>1, <2>3, <2>4 DEF RunInv, OwnStep, AtRest
<1>8. CASE Find(s)
    <2>1. PICK i \in 1..N : /\ IsFirst(i, cursor, start[s], cmd[s])
                            /\ at' = [at EXCEPT ![s] = i]
                            /\ hits' = [hits EXCEPT ![i] = @ + 1]
        BY <1>8 DEF Find
    <2>2. pc' = [pc EXCEPT ![s] = "test"] /\ UNCHANGED <<cursor, match_counts>> /\ pc[who] = "scan"
        BY <1>2, <1>8 DEF Find, shared
    <2>3. i = playing
        BY <1>2, <2>1, <2>2, FoundIsPlayed
    <2>4. Ahead /\ match_counts = hits
        BY <1>3, <1>4, <2>2 DEF RunInv, Searching, Ahead, Window, Begin
    <2>5. pc'[who'] = "test" /\ at'[who'] = playing'
        BY <1>2, <1>4, <2>1, <2>2, <2>3
    <2>6. Ahead' /\ Counted'
        BY <2>1, <2>2, <2>3, <2>4 DEF Ahead, Counted
    <2>7. Found' /\ Searching' /\ ~Idle'
        BY <1>2, <2>5, <2>6 DEF Found, Searching, Idle
    <2> QED BY <1>1, <1>3, <1>4, <1>6, <2>2, <2>7 DEF RunInv, OwnStep, AtRest
<1>9. CASE Miss(s)
    BY <1>2, <1>9, NeverMissed DEF Miss
<1>10. CASE Test(s)
    <2>1. pc[who] = "test" /\ pc' = [pc EXCEPT ![s] = IF at[s] > cursor THEN "advance" ELSE "count"]
          /\ UNCHANGED <<cursor, match_counts, cmd, start, at, seen, hits>>
        BY <1>2, <1>10 DEF Test, shared, history
    <2>2. at[who] = playing /\ Ahead /\ Counted
        BY <2>1 DEF RunInv, Found
    <2>3. pc'[who'] = "advance" \/ (pc'[who'] = "count" /\ cursor = playing)
        BY <1>2, <1>3, <1>4, <2>1, <2>2 DEF Ahead
    <2>4. Ahead' /\ Counted' /\ at'[who'] = playing'
        BY <2>1, <2>2 DEF Ahead, Counted
    <2>5. Found' /\ Searching' /\ ~Idle'
        BY <1>2, <2>1, <2>3, <2>4 DEF Found, Searching, Idle
    <2> QED BY <1>1, <1>3, <1>4, <1>6, <2>1, <2>5 DEF RunInv, OwnStep, AtRest
<1>11. CASE Advance(s)
    <2>1. pc[who] = "advance" /\ pc' = [pc EXCEPT ![s] = "count"] /\ cursor' = at[s]
          /\ UNCHANGED <<match_counts, cmd, start, at, seen, hits>>
        BY <1>2, <1>11 DEF Advance, history
    <2>2. at[who] = playing /\ Ahead /\ Counted
        BY <2>1 DEF RunInv, Found
    <2>3. pc'[who'] = "count" /\ cursor' = playing' /\ Counted' /\ at'[who'] = playing'
        BY <1>2, <1>4, <2>1, <2>2 DEF Counted
    <2>4. Found' /\ Searching' /\ ~Idle'
        BY <1>2, <2>3 DEF Found, Searching, Idle
    <2>5. cursor' >= cursor /\ cursor' <= cursor + ScanAhead + 1
        BY <1>2, <1>3, <1>4, <2>1, <2>2 DEF Ahead
    <2> QED BY <1>1, <1>3, <1>6, <2>4, <2>5 DEF RunInv, OwnStep, AtRest
<1>12. CASE ReadCount(s)
    <2>1. pc[who] = "count" /\ pc' = [pc EXCEPT ![s] = "store"] /\ seen' = [seen EXCEPT ![s] = match_counts[at[s]]]
          /\ UNCHANGED <<cursor, match_counts, cmd, start, at, hits>>
        BY <1>2, <1>12 DEF ReadCount, shared, history
    <2>2. at[who] = playing /\ cursor = playing /\ Counted
        BY <2>1 DEF RunInv, Found
    <2>3. pc'[who'] = "store" /\ cursor' = playing' /\ Counted' /\ at'[who'] = playing'
          /\ seen'[who'] = match_counts'[playing']
        BY <1>2, <1>4, <2>1, <2>2 DEF Counted
    <2>4. Found' /\ Searching' /\ ~Idle'
        BY <1>2, <2>3 DEF Found, Searching, Idle
    <2> QED BY <1>1, <1>3, <1>4, <1>6, <2>1, <2>4 DEF RunInv, OwnStep, AtRest
<1>13. CASE StoreCount(s)
    <2>1. pc[who] = "store" /\ pc' = [pc EXCEPT ![s] = "idle"]
          /\ match_counts' = [match_counts EXCEPT ![at[s]] = seen[s] + 1]
          /\ answer' = [answer EXCEPT ![s] = [step |-> at[s], fail |-> at[s] \in FailAt]]
          /\ UNCHANGED <<cursor, hits>>
        BY <1>2, <1>13 DEF StoreCount
    <2>2. at[who] = playing /\ cursor = playing /\ Counted /\ seen[who] = match_counts[playing]
        BY <2>1 DEF RunInv, Found
    <2>3. match_counts' = hits'
        BY <1>2, <2>1, <2>2 DEF Counted
    <2>4. answer'[who'] = [step |-> playing', fail |-> playing' \in FailAt]
        BY <1>2, <1>4, <2>1, <2>2
    <2>5. pc'[who'] = "idle"
        BY <1>2, <1>4, <2>1
    <2>6. Found' /\ Searching'
        BY <2>5 DEF Found, Searching
    <2>7. OwnStep' /\ AtRest'
        BY <2>1, <2>2, <2>3, <2>4 DEF OwnStep, AtRest
    <2> QED BY <1>1, <1>3, <1>4, <1>6, <2>1, <2>6, <2>7 DEF RunInv
<1> QED BY <1>7, <1>8, <1>9, <1>10, <1>11, <1>12, <1>13 DEF MatchStep

\* Every step of the run keeps the invariant and moves the cursor forward only.
LEMMA RunInvNext ==
    ASSUME Unambiguous, OneStepLoops, RunInv, [Next]_vars
    PROVE  RunInv' /\ (cursor' >= cursor /\ cursor' <= cursor + ScanAhead + 1)
<1>1. cursor \in Nat /\ ScanAhead \in Nat
    BY StepsAreSteps, ScanAheadAssumption DEF RunInv, TypeOK, StateTypeOK
<1>2. ASSUME NEW s \in Sessions, NEW k \in 1..N, NEW c \in Commands, Play(s, k, c)
      PROVE  RunInv' /\ (cursor' >= cursor /\ cursor' <= cursor + ScanAhead + 1)
    <2>1. cursor' = cursor
        BY <1>2 DEF Play, Enter, shared
    <2> QED BY <1>1, <1>2, <2>1, PlayKeeps
<1>3. ASSUME NEW s \in Sessions, MatchStep(s), UNCHANGED <<playing, who, calls>>
      PROVE  RunInv' /\ (cursor' >= cursor /\ cursor' <= cursor + ScanAhead + 1)
    BY <1>3, MatchStepKeeps
<1>4. CASE UNCHANGED vars
    BY <1>1, <1>4 DEF vars, stateVars, shared, local, history, RunInv, TypeOK, StateTypeOK, OwnStep, AtRest,
                      Searching, Found, Ahead, Counted, Idle
<1> QED BY <1>2, <1>3, <1>4 DEF Next

\* OwnStep: while the templates in reach of one look-ahead are distinct and no loop has
\* two sub-steps, every command is answered as the step that was played, whatever the
\* workflow, the look-ahead, the number of sessions and of commands.
THEOREM InStep ==
    ASSUME Unambiguous, OneStepLoops
    PROVE  Spec => []OwnStep
<1>1. RunInv /\ [Next]_vars => RunInv'
    BY RunInvNext
<1>2. RunInv => OwnStep
    BY DEF RunInv
<1> QED BY RunInvInit, <1>1, <1>2, PTL DEF Spec

\* CountsAreExact: under the same assumptions no counter is lost.
THEOREM CountsExact ==
    ASSUME Unambiguous, OneStepLoops
    PROVE  Spec => []CountsAreExact
<1>1. RunInv /\ [Next]_vars => RunInv'
    BY RunInvNext
<1>2. RunInv => CountsAreExact
    BY DEF RunInv, AtRest, CountsAreExact
<1> QED BY RunInvInit, <1>1, <1>2, PTL DEF Spec

\* MovesForward: under the same assumptions the cursor never rewinds and never jumps
\* over more than the look-ahead.
THEOREM CursorMovesForward ==
    ASSUME Unambiguous, OneStepLoops
    PROVE  Spec => MovesForward
<1>1. RunInv /\ [Next]_vars => RunInv'
    BY RunInvNext
<1>2. RunInv /\ [Next]_vars => [cursor' >= cursor /\ cursor' <= cursor + ScanAhead + 1]_vars
    BY RunInvNext
<1> QED BY RunInvInit, <1>1, <1>2, PTL DEF Spec, MovesForward
================================================================================

-------------------------- MODULE ScriptRun_proofs --------------------------
(***************************************************************************)
(* Proofs about ScriptGeneration and ScriptRun for every number of         *)
(* workers, every timeout, and any news, games, answers and outages.       *)
(*                                                                         *)
(* Nothing is assumed of how long runs outlive their claims.  The write-   *)
(* back of a script does not name the attempt, so the properties of its    *)
(* row hold until a late run has written to a row that is not its own:     *)
(* the history variable says when.  Those of the facts hold after it, too. *)
(***************************************************************************)
EXTENDS ScriptRun, Generation_proofs, FiniteSetTheorems, TLAPS

(* The columns of a flushed row come from two rows. *)
LEMMA FlushedType ==
    ASSUME NEW row \in Rows, NEW seen \in Rows, NEW new \in Rows
    PROVE  Flushed(row, seen, new) \in Rows
BY DEF Flushed, Rows, Statuses, Instants

(* The domain object that the manager computes is a row. *)
LEMMA SettledType ==
    ASSUME TypeOK, NEW w \in Workers
    PROVE  Settled(w) \in Rows
<1>1. gen \in Rows /\ now \in Nat /\ worker[w].mine \in Nat
  BY DEF TypeOK, Runs
<1>2. QED BY <1>1, RowTypes DEF Settled

(* Every step keeps the types. *)
LEMMA StepTypes == TypeOK /\ [Next]_vars => TypeOK'
<1> SUFFICES ASSUME TypeOK, [Next]_vars PROVE TypeOK'
  OBVIOUS
<1>1. Idle \in Runs
  BY PendingType DEF Idle, Runs, Steps, Intents
<1>2. CASE Tick \/ UNCHANGED vars
  BY <1>2 DEF Tick, vars, TypeOK
<1>3. ASSUME NEW w \in Workers, NEW s \in Scores, Claim(w, s) PROVE TypeOK'
  <2>1. gen \in Rows /\ now \in Nat /\ gen.attempt + 1 \in Nat
    BY DEF TypeOK, Rows
  <2>2. [Idle EXCEPT !.pc = "network", !.mine = gen.attempt + 1,
                     !.began = now] \in Runs
    BY <1>1, <2>1 DEF Runs, Steps
  <2>3. gen' \in Rows
    BY <1>3, <2>1, RowTypes DEF Claim
  <2>4. QED BY <1>3, <2>2, <2>3 DEF Claim, TypeOK
<1>4. ASSUME NEW w \in Workers, NEW o \in {"generated", "failed"}, Generate(w, o)
      PROVE  TypeOK'
  BY <1>4, ZenonT(60) DEF Generate, TypeOK, Runs, Steps, Intents
<1>5. ASSUME NEW w \in Workers, Settle(w) PROVE TypeOK'
  <2>1. [worker[w] EXCEPT !.pc = "update", !.next = Settled(w)] \in Runs
    BY SettledType DEF TypeOK, Runs, Steps
  <2>2. QED BY <1>5, <2>1 DEF Settle, TypeOK
<1>6. ASSUME NEW w \in Workers, Crash(w) PROVE TypeOK'
  BY <1>1, <1>6 DEF Crash, End, TypeOK
<1>7. ASSUME NEW w \in Workers, ReadRecord(w) PROVE TypeOK'
  <2>1. [worker[w] EXCEPT !.pc = "flush", !.seen = gen] \in Runs
    BY DEF TypeOK, Runs, Steps
  <2>2. QED BY <1>7, <2>1 DEF ReadRecord, TypeOK
<1>8. ASSUME NEW w \in Workers, Flush(w) PROVE TypeOK'
  <2>1. gen' \in Rows
    BY <1>8, FlushedType DEF Flush, TypeOK, Runs
  <2>2. QED BY <1>1, <1>8, <2>1 DEF Flush, End, TypeOK
<1>9. QED BY <1>2, <1>3, <1>4, <1>5, <1>6, <1>7, <1>8 DEF Next

(* process_news_script only writes columns and run states of their types.  *)
THEOREM TypeCorrect == Spec => []TypeOK
<1>1. ASSUME Init PROVE TypeOK
  BY <1>1, PendingType DEF Init, TypeOK, Idle, Runs, Steps, Intents
<1>2. QED BY <1>1, StepTypes, PTL DEF Spec

(* A job with another ranking score than the stored one changes nothing,   *)
(* late runs included.                                                     *)
THEOREM ScoreFixed == Spec => RankingScoreIsFixed
<1>1. [Next]_vars => [score # NoScore => score' = score]_vars
  BY DEF Next, vars, Tick, Claim, Prepared, Generate, Settle,
         ReadRecord, Flush, Crash
<1>2. QED BY <1>1, PTL DEF Spec, RankingScoreIsFixed

-----------------------------------------------------------------------------
(***************************************************************************)
(* The inductive invariant, as long as no run has written to a row not its *)
(* own.  The run whose attempt the row reports has found the row as it is  *)
(* since its claim, so the object it computed is an end of its attempt,    *)
(* and the record it has read is still the row; and a run in time is that  *)
(* run.  Only what a run prepares depends on its being the owner, not on   *)
(* its being in time.                                                      *)
(***************************************************************************)
EndOfAttempt(row) ==
    /\ WellFormed(row)
    /\ row.attempt = gen.attempt
    /\ row.status \in {"GENERATED", "FAILED"}
    /\ row.status = "GENERATED" => row.output = row.attempt

Prepares(w) ==
    /\ gen.started = worker[w].began
    /\ worker[w].pc \in {"update", "flush"} => EndOfAttempt(worker[w].next)
    /\ worker[w].pc = "flush" => worker[w].seen = gen

Numbered ==
    /\ \A w \in Workers : Busy(w) => /\ worker[w].mine \in 1..gen.attempt
                                     /\ worker[w].began <= now
    /\ \A u, w \in Workers :
         u # w /\ Busy(u) /\ Busy(w) => worker[u].mine # worker[w].mine

Sound ==
    /\ WellFormed(gen)
    /\ gen.status = "GENERATED" => gen.output = gen.attempt
    /\ Numbered
    /\ \A w \in Workers : InTime(w) => Owner(w)
    /\ \A w \in Workers : Busy(w) /\ Owner(w) => Prepares(w)

Inv == TypeOK /\ (Sound \/ overwritten)

(* The initial states satisfy it. *)
LEMMA InitInv == Init => Inv
<1> SUFFICES ASSUME Init PROVE Inv
  OBVIOUS
<1>1. TypeOK
  BY PendingType DEF Init, TypeOK, Idle, Runs, Steps, Intents
<1>2. \A w \in Workers : ~Busy(w)
  BY DEF Init, Busy, Idle
<1>3. WellFormed(gen) /\ gen.status # "GENERATED"
  BY PendingType DEF Init, PendingRow
<1>4. QED BY <1>1, <1>2, <1>3 DEF Inv, Sound, Numbered, InTime

(* A step that leaves the row alone, starts no run and shortens no run's   *)
(* age keeps it sound if the owner still prepares what it should.          *)
LEMMA RowUntouched ==
    ASSUME TypeOK, Sound, TypeOK', gen' = gen, now <= now',
           \A w \in Workers :
              Busy(w)' =>
                /\ Busy(w) /\ worker'[w].mine = worker[w].mine
                /\ worker'[w].began = worker[w].began
                /\ Owner(w) => Prepares(w)'
    PROVE  Sound'
<1>1. now \in Nat /\ now' \in Nat /\ \A w \in Workers : worker[w].began \in Nat
  BY DEF TypeOK, Runs
<1>2. Numbered'
  BY <1>1 DEF Sound, Numbered
<1>3. ASSUME NEW w \in Workers, InTime(w)' PROVE Owner(w)'
  <2>1. StaleAfter \in Nat
    BY ScriptAssumption
  <2>2. InTime(w)
    BY <1>1, <1>3, <2>1 DEF InTime
  <2>3. Owner(w)
    BY <2>2 DEF Sound
  <2>4. QED BY <1>3, <2>3 DEF Owner, InTime
<1>4. ASSUME NEW w \in Workers, Busy(w)', Owner(w)' PROVE Prepares(w)'
  <2>1. Owner(w)
    BY <1>4 DEF Owner
  <2>2. QED BY <1>4, <2>1
<1>5. WellFormed(gen)' /\ (gen.status = "GENERATED" => gen.output = gen.attempt)'
  BY DEF Sound, WellFormed
<1>6. QED BY <1>2, <1>3, <1>4, <1>5 DEF Sound

(* A claim finds no run in time: the row is waiting or stale. *)
LEMMA ClaimSound ==
    ASSUME TypeOK, Sound, TypeOK', NEW w \in Workers, NEW s \in Scores,
           Claim(w, s)
    PROVE  Sound'
<1>1. /\ gen \in Rows /\ now \in Nat /\ gen.attempt \in Nat
      /\ StaleAfter \in Nat \ {0}
  BY ScriptAssumption DEF TypeOK, Rows
<1>2. /\ worker'[w].pc = "network" /\ worker'[w].mine = gen.attempt + 1
      /\ worker'[w].began = now
      /\ \A u \in Workers : u # w => worker'[u] = worker[u]
  BY DEF Claim, TypeOK, Idle
<1>3. /\ gen'.status = "GENERATING" /\ gen'.attempt = gen.attempt + 1
      /\ gen'.started = now
  BY <1>1 DEF Claim, Claimed, Rows
<1>4. ASSUME NEW u \in Workers PROVE ~InTime(u)
  <2>1. SUFFICES ASSUME InTime(u) PROVE FALSE
    OBVIOUS
  <2>2. Owner(u) /\ Busy(u)
    BY <2>1 DEF Sound, InTime
  <2>3. gen.status = "GENERATING" /\ gen.started = worker[u].began
    BY <2>2 DEF Owner, Sound, Prepares
  <2>4. worker[u].began <= now - StaleAfter
    BY <2>3 DEF Claim, Claimable, IsStale
  <2>5. worker[u].began \in Nat
    BY DEF TypeOK, Runs
  <2>6. QED BY <1>1, <2>1, <2>4, <2>5 DEF InTime
<1>5. ASSUME NEW u \in Workers, u # w, Busy(u)'
      PROVE  /\ Busy(u) /\ ~InTime(u)'
             /\ worker'[u].mine \in 1..gen.attempt /\ ~Owner(u)'
  <2>1. worker'[u] = worker[u] /\ Busy(u) /\ ~InTime(u)'
    BY <1>2, <1>4, <1>5 DEF InTime, Busy, Claim
  <2>2. worker'[u].mine \in 1..gen.attempt
    BY <2>1 DEF Sound, Numbered
  <2>3. QED BY <1>1, <1>3, <2>1, <2>2 DEF Owner
<1>6. Owner(w)' /\ Prepares(w)'
  BY <1>2, <1>3 DEF Owner, Prepares
<1>7. Numbered'
  <2>1. ASSUME NEW u \in Workers, Busy(u)'
        PROVE  worker'[u].mine \in 1..gen'.attempt /\ worker'[u].began <= now'
    BY <1>1, <1>2, <1>3, <1>5, <2>1 DEF Sound, Numbered, Claim
  <2>2. ASSUME NEW u \in Workers, NEW v \in Workers, u # v, Busy(u)', Busy(v)'
        PROVE  worker'[u].mine # worker'[v].mine
    <3>1. CASE u = w
      BY <1>1, <1>2, <1>5, <2>2, <3>1
    <3>2. CASE v = w
      BY <1>1, <1>2, <1>5, <2>2, <3>2
    <3>3. CASE u # w /\ v # w
      BY <1>2, <1>5, <2>2, <3>3 DEF Sound, Numbered
    <3>4. QED BY <3>1, <3>2, <3>3
  <2>3. QED BY <2>1, <2>2 DEF Numbered
<1>8. WellFormed(gen)' /\ gen'.status # "GENERATED"
  <2>1. WellFormed(Claimed(gen, now))
    BY <1>1, ClaimedWellFormed
  <2>2. QED BY <1>3, <2>1 DEF Claim, WellFormed
<1>9. ASSUME NEW u \in Workers, InTime(u)' PROVE Owner(u)'
  BY <1>5, <1>6, <1>9 DEF InTime
<1>10. ASSUME NEW u \in Workers, Busy(u)', Owner(u)' PROVE Prepares(u)'
  BY <1>5, <1>6, <1>10
<1>11. QED BY <1>7, <1>8, <1>9, <1>10 DEF Sound

(* What the manager computes for the owner ends the owner's own attempt,   *)
(* late or not.                                                            *)
LEMMA SettleSound ==
    ASSUME TypeOK, Sound, TypeOK', NEW w \in Workers, Settle(w)
    PROVE  Sound'
<1>1. /\ gen \in Rows /\ now \in Nat /\ worker[w] \in Runs
      /\ worker[w].mine \in Nat /\ worker[w].began \in Nat
  BY DEF TypeOK, Runs
<1>2. Busy(w)
  BY DEF Settle, At, Busy
<1>3. worker[w].mine \in 1..gen.attempt /\ worker[w].began <= now
  BY <1>2 DEF Sound, Numbered
<1>4. ASSUME Owner(w)
      PROVE  EndOfAttempt(Settled(w)) /\ gen.started = worker[w].began
  <2>1. /\ WellFormed(gen) /\ gen.status = "GENERATING"
        /\ gen.started = worker[w].began /\ gen.started <= now
        /\ gen.attempt = worker[w].mine
    BY <1>2, <1>3, <1>4 DEF Sound, Prepares, Settle, Owner
  <2>2. CASE worker[w].intent = "generated"
    <3>1. WellFormed(Succeeded(gen, worker[w].mine, now))
      BY <1>1, <1>3, <2>1, EndedWellFormed DEF NoOutput
    <3>2. QED BY <1>1, <2>1, <2>2, <3>1 DEF Settled, EndOfAttempt, Succeeded, Rows
  <2>3. CASE worker[w].intent # "generated"
    <3>1. WellFormed(FailedRow(gen, now))
      BY <1>1, <2>1, EndedWellFormed DEF NoOutput
    <3>2. QED BY <1>1, <2>1, <2>3, <3>1 DEF Settled, EndOfAttempt, FailedRow, Rows
  <2>4. QED BY <2>1, <2>2, <2>3
<1>5. /\ worker'[w] = [worker[w] EXCEPT !.pc = "update", !.next = Settled(w)]
      /\ \A u \in Workers : u # w => worker'[u] = worker[u]
      /\ gen' = gen /\ now' = now
  BY DEF Settle, TypeOK
<1>6. /\ worker'[w].pc = "update" /\ worker'[w].mine = worker[w].mine
      /\ worker'[w].began = worker[w].began
      /\ worker'[w].next = Settled(w)
  BY <1>1, <1>5 DEF Runs
<1>7. Owner(w) => Prepares(w)'
  BY <1>4, <1>5, <1>6 DEF Prepares, EndOfAttempt
<1>8. ASSUME NEW u \in Workers, Busy(u)'
      PROVE  /\ Busy(u) /\ worker'[u].mine = worker[u].mine
             /\ worker'[u].began = worker[u].began
             /\ Owner(u) => Prepares(u)'
  <2>1. CASE u = w
    BY <1>2, <1>6, <1>7, <2>1
  <2>2. CASE u # w
    <3>1. worker'[u] = worker[u] /\ Busy(u)
      BY <1>5, <1>8, <2>2 DEF Busy
    <3>2. Owner(u) => Prepares(u)
      BY <3>1 DEF Sound
    <3>3. QED BY <1>5, <3>1, <3>2 DEF Prepares, EndOfAttempt
  <2>3. QED BY <2>1, <2>2
<1>9. now <= now'
  BY <1>1, <1>5
<1>10. QED BY <1>5, <1>8, <1>9, RowUntouched

(* The repository of the owner reads the row as it is. *)
LEMMA ReadSound ==
    ASSUME TypeOK, Sound, TypeOK', NEW w \in Workers, ReadRecord(w)
    PROVE  Sound'
<1>1. now \in Nat /\ worker[w] \in Runs /\ worker[w].pc = "update" /\ Busy(w)
  BY DEF TypeOK, ReadRecord, At, Busy
<1>2. /\ worker'[w] = [worker[w] EXCEPT !.pc = "flush", !.seen = gen]
      /\ \A u \in Workers : u # w => worker'[u] = worker[u]
      /\ gen' = gen /\ now' = now
  BY DEF ReadRecord, TypeOK
<1>3. /\ worker'[w].pc = "flush" /\ worker'[w].mine = worker[w].mine
      /\ worker'[w].began = worker[w].began
      /\ worker'[w].next = worker[w].next /\ worker'[w].seen = gen
  BY <1>1, <1>2 DEF Runs
<1>4. ASSUME NEW u \in Workers, Busy(u)'
      PROVE  /\ Busy(u) /\ worker'[u].mine = worker[u].mine
             /\ worker'[u].began = worker[u].began
             /\ Owner(u) => Prepares(u)'
  <2>1. Busy(u) /\ Owner(u) => Prepares(u)
    BY DEF Sound
  <2>2. CASE u = w
    BY <1>1, <1>2, <1>3, <2>1, <2>2 DEF Prepares, EndOfAttempt
  <2>3. CASE u # w
    <3>1. worker'[u] = worker[u] /\ Busy(u)
      BY <1>2, <1>4, <2>3 DEF Busy
    <3>2. QED BY <1>2, <2>1, <3>1 DEF Prepares, EndOfAttempt
  <2>4. QED BY <2>2, <2>3
<1>5. now <= now'
  BY <1>1, <1>2
<1>6. QED BY <1>2, <1>4, <1>5, RowUntouched

(* The flush of the owner stores the object it computed; a flush by        *)
(* another run is what the history variable records.                       *)
LEMMA FlushSound ==
    ASSUME TypeOK, Sound, TypeOK', NEW w \in Workers, Flush(w), ~overwritten'
    PROVE  /\ Sound' /\ Owner(w)
           /\ EndOfAttempt(worker[w].next) /\ gen' = worker[w].next
<1>1. gen \in Rows /\ worker[w] \in Runs /\ worker[w].next \in Rows
  BY DEF TypeOK, Runs
<1>2. Owner(w) /\ Busy(w) /\ worker[w].pc = "flush"
  BY DEF Flush, At, Busy
<1>3. EndOfAttempt(worker[w].next) /\ worker[w].seen = gen
  BY <1>2 DEF Sound, Prepares
<1>4. gen' = worker[w].next
  BY <1>1, <1>3, UndisturbedFlush DEF Flush
<1>5. /\ gen'.attempt = gen.attempt /\ gen'.status # "GENERATING"
      /\ WellFormed(gen)' /\ (gen.status = "GENERATED" => gen.output = gen.attempt)'
  BY <1>3, <1>4 DEF EndOfAttempt, WellFormed
<1>6. ASSUME NEW u \in Workers, Busy(u)'
      PROVE  u # w /\ Busy(u) /\ worker'[u] = worker[u] /\ ~InTime(u)
  <2>1. u # w /\ Busy(u) /\ worker'[u] = worker[u]
    BY <1>6 DEF Flush, End, Busy, Idle, TypeOK
  <2>2. worker[u].mine # worker[w].mine
    BY <1>2, <2>1 DEF Sound, Numbered
  <2>3. QED BY <1>2, <2>1, <2>2 DEF Sound, Owner
<1>7. Numbered'
  BY <1>5, <1>6 DEF Sound, Numbered, Flush
<1>8. ASSUME NEW u \in Workers PROVE ~InTime(u)' /\ ~Owner(u)'
  BY <1>5, <1>6 DEF InTime, Flush, Owner
<1>9. QED BY <1>2, <1>3, <1>4, <1>5, <1>7, <1>8 DEF Sound

(* What has happened has happened. *)
LEMMA HistoryStays == overwritten /\ [Next]_vars => overwritten'
BY DEF Next, vars, Tick, Claim, Generate, Settle, ReadRecord, Flush, Crash

(* Every step keeps the invariant. *)
LEMMA StepInv == Inv /\ [Next]_vars => Inv'
<1> SUFFICES ASSUME Inv, [Next]_vars, ~overwritten' PROVE Inv'
  BY StepTypes DEF Inv
<1>1. TypeOK /\ TypeOK' /\ Sound
  BY StepTypes, HistoryStays DEF Inv
<1>2. now \in Nat
  BY <1>1 DEF TypeOK
<1>3. CASE Tick \/ UNCHANGED vars
  <2>1. UNCHANGED <<gen, worker>> /\ now <= now'
    BY <1>2, <1>3 DEF Tick, vars
  <2>2. ASSUME NEW u \in Workers, Busy(u)'
        PROVE  Busy(u) /\ (Owner(u) => Prepares(u)')
    BY <1>1, <2>1, <2>2 DEF Busy, Sound, Prepares, EndOfAttempt
  <2>3. QED BY <1>1, <2>1, <2>2, RowUntouched DEF Inv
<1>4. ASSUME NEW w \in Workers, NEW s \in Scores, Claim(w, s) PROVE Inv'
  BY <1>1, <1>4, ClaimSound DEF Inv
<1>5. ASSUME NEW w \in Workers, NEW o \in {"generated", "failed"}, Generate(w, o)
      PROVE  Inv'
  <2>1. /\ worker[w] \in Runs /\ worker[w].pc = "network"
        /\ gen' = gen /\ now' = now
    BY <1>1, <1>5 DEF Generate, At, TypeOK
  <2>2. /\ worker'[w].pc = "settle" /\ worker'[w].mine = worker[w].mine
        /\ worker'[w].began = worker[w].began
        /\ \A u \in Workers : u # w => worker'[u] = worker[u]
    BY <1>1, <1>5, <2>1 DEF Generate, TypeOK, Runs
  <2>3. ASSUME NEW u \in Workers, Busy(u)'
        PROVE  /\ Busy(u) /\ worker'[u].mine = worker[u].mine
               /\ worker'[u].began = worker[u].began
               /\ Owner(u) => Prepares(u)'
    BY <1>1, <2>1, <2>2, <2>3 DEF Busy, Sound, Prepares, EndOfAttempt
  <2>4. now <= now'
    BY <1>2, <2>1
  <2>5. QED BY <1>1, <2>1, <2>3, <2>4, RowUntouched DEF Inv
<1>6. ASSUME NEW w \in Workers, Settle(w) PROVE Inv'
  BY <1>1, <1>6, SettleSound DEF Inv
<1>7. ASSUME NEW w \in Workers, Crash(w) PROVE Inv'
  <2>1. gen' = gen /\ now' = now /\ End(w)
    BY <1>7 DEF Crash
  <2>2. ASSUME NEW u \in Workers, Busy(u)'
        PROVE  Busy(u) /\ worker'[u] = worker[u]
    BY <1>1, <2>1, <2>2 DEF End, Busy, Idle, TypeOK
  <2>3. ASSUME NEW u \in Workers, Busy(u)', Owner(u) PROVE Prepares(u)'
    BY <1>1, <2>1, <2>2, <2>3 DEF Sound, Prepares, EndOfAttempt
  <2>4. now <= now'
    BY <1>2, <2>1
  <2>5. QED BY <1>1, <2>1, <2>2, <2>3, <2>4, RowUntouched DEF Inv
<1>8. ASSUME NEW w \in Workers, ReadRecord(w) PROVE Inv'
  BY <1>1, <1>8, ReadSound DEF Inv
<1>9. ASSUME NEW w \in Workers, Flush(w) PROVE Inv'
  BY <1>1, <1>9, FlushSound DEF Inv
<1>10. CASE Next
  BY <1>3, <1>4, <1>5, <1>6, <1>7, <1>8, <1>9, <1>10 DEF Next
<1>11. QED BY <1>3, <1>10

(* For any number of workers, any timeout and however late runs are.       *)
THEOREM Invariance == Spec => []Inv
BY InitInv, StepInv, PTL DEF Spec

(* No flush leaves a script row that to_domain rejects, but that of a late *)
(* run into an attempt which is not its own.                               *)
THEOREM RowLoadable == Spec => []RowStaysLoadable
<1>1. Inv => RowStaysLoadable
  BY DEF Inv, Sound, RowStaysLoadable
<1>2. QED BY <1>1, Invariance, PTL

(* Until then a run in time owns the row's current attempt, which          *)
(* record_generated and mark_failed rely on without checking it.           *)
THEOREM LiveRunsOwn == Spec => []LiveRunOwnsAttempt
<1>1. Inv => LiveRunOwnsAttempt
  BY DEF Inv, Sound, LiveRunOwnsAttempt
<1>2. QED BY <1>1, Invariance, PTL

(* Until then the stored script is the work of the attempt that the row    *)
(* reports.                                                                *)
THEOREM ScriptOwnsAttempt == Spec => []ScriptOfItsAttempt
<1>1. Inv => ScriptOfItsAttempt
  BY DEF Inv, Sound, ScriptOfItsAttempt
<1>2. QED BY <1>1, Invariance, PTL

(* A generated script is never failed, reclaimed or replaced by a run that *)
(* owns it, by a claim or by a failure: only a late run can do that.       *)
THEOREM GeneratedIsFinal == Spec => GeneratedScriptIsFinal
<1>1. [Next]_vars => [gen.status = "GENERATED" => gen' = gen \/ overwritten']_vars
  <2> SUFFICES ASSUME Next, gen.status = "GENERATED"
               PROVE  gen' = gen \/ overwritten'
    BY DEF vars
  <2>1. ASSUME NEW w \in Workers, NEW s \in Scores PROVE ~Claim(w, s)
    BY DEF Claim, Claimable, IsStale
  <2>2. ASSUME NEW w \in Workers, Flush(w) PROVE overwritten'
    BY <2>2 DEF Flush, Owner
  <2>3. QED
    BY <2>1, <2>2 DEF Next, Tick, Generate, Settle, ReadRecord, Crash
<1>2. QED BY <1>1, PTL DEF Spec, GeneratedScriptIsFinal

-----------------------------------------------------------------------------
(* The phase of the ledger is the status of the row. *)
LEMMA PhaseOfStatus ==
    ASSUME TypeOK
    PROVE  /\ gen.status \in {"PENDING", "FAILED"} <=> Phase = "waiting"
           /\ gen.status = "GENERATING" <=> Phase = "open"
           /\ gen.status = "GENERATED" <=> Phase = "done"
<1>1. gen.status \in {"PENDING", "GENERATING", "GENERATED", "FAILED"}
  BY DEF TypeOK, Rows, Statuses
<1>2. QED BY <1>1 DEF Phase

(* A claim opens the next attempt. *)
LEMMA ClaimOpens ==
    ASSUME TypeOK, Sound, TypeOK', NEW w \in Workers, NEW s \in Scores,
           Claim(w, s)
    PROVE  Ledger!Open(w)
<1>1. gen \in Rows /\ gen.attempt \in Nat
  BY DEF TypeOK, Rows
<1>2. /\ worker'[w].pc = "network" /\ worker'[w].mine = gen.attempt + 1
      /\ \A u \in Workers : u # w => worker'[u] = worker[u]
  BY DEF Claim, TypeOK, Idle
<1>3. /\ gen'.status = "GENERATING" /\ gen'.attempt = gen.attempt + 1
      /\ gen'.output = NoOutput
  BY <1>1 DEF Claim, Claimed, Rows
<1>4. gen.status # "GENERATED"
  BY DEF Claim, Claimable, IsStale
<1>5. gen.output = NoOutput
  BY <1>1, <1>4 DEF Sound, WellFormed, Rows, Statuses
<1>6. Phase # "done" /\ Phase' = "open"
  <2>1. Phase' = "open"
    BY <1>3 DEF Phase
  <2>2. QED BY <1>4, <2>1, PhaseOfStatus
<1>7. Leases[w] = 0
  BY DEF Leases, Busy, Claim
<1>8. Leases' = [Leases EXCEPT ![w] = gen.attempt + 1]
  BY <1>2 DEF Leases, Busy
<1>9. QED BY <1>3, <1>5, <1>6, <1>7, <1>8 DEF Ledger!Open

(* The end of a run gives its number back. *)
LEMMA EndReturns ==
    ASSUME TypeOK, Sound, NEW w \in Workers, Busy(w), End(w)
    PROVE  Leases[w] # 0 /\ Ledger!GiveBack(w)
<1>1. worker'[w] = Idle /\ \A u \in Workers : u # w => worker'[u] = worker[u]
  BY DEF End, TypeOK
<1>2. Leases' = [Leases EXCEPT ![w] = 0]
  <2>1. ~ Busy(w)' /\ \A u \in Workers : u # w => (Busy(u)' <=> Busy(u))
    BY <1>1 DEF Busy, Idle
  <2>2. QED BY <1>1, <2>1 DEF Leases
<1>3. Leases[w] # 0
  BY DEF Leases, Sound, Numbered
<1>4. QED BY <1>2, <1>3 DEF Ledger!GiveBack

(* The owner's flush ends the latest attempt, by its holder. *)
LEMMA FlushEnds ==
    ASSUME TypeOK, Sound, TypeOK', NEW w \in Workers, Flush(w), ~overwritten'
    PROVE  Ledger!Succeed(w) \/ Ledger!Fail(w)
<1>1. /\ Owner(w) /\ Busy(w) /\ EndOfAttempt(worker[w].next)
      /\ gen' = worker[w].next
  BY FlushSound DEF Flush, At, Busy
<1>2. Ledger!Latest(w)
  <2>1. Phase = "open" /\ Leases[w] = gen.attempt
    BY <1>1, PhaseOfStatus DEF Owner, Leases
  <2>2. QED BY <2>1 DEF Ledger!Latest
<1>3. Ledger!GiveBack(w)
  BY <1>1, EndReturns DEF Flush
<1>4. /\ gen'.attempt = gen.attempt /\ gen'.status \in {"GENERATED", "FAILED"}
      /\ gen'.status = "GENERATED" => gen'.output = gen'.attempt
      /\ gen'.status = "FAILED" => gen'.output = NoOutput
  BY <1>1 DEF EndOfAttempt, WellFormed
<1>5. gen.output = NoOutput
  BY <1>1 DEF Owner, Sound, WellFormed
<1>6. CASE gen'.status = "GENERATED"
  <2>1. Phase' = "done"
    BY <1>6 DEF Phase
  <2>2. QED BY <1>2, <1>3, <1>4, <1>6, <2>1 DEF Ledger!Succeed
<1>7. CASE gen'.status = "FAILED"
  <2>1. Phase' = "waiting"
    BY <1>7 DEF Phase
  <2>2. QED BY <1>2, <1>3, <1>4, <1>5, <1>7, <2>1 DEF Ledger!Fail
<1>8. QED BY <1>4, <1>6, <1>7

LedgerVars == <<Phase, gen.attempt, gen.output, Leases>>

LEMMA LedgerStep ==
    Inv /\ [Next]_vars => [Ledger!LedgerNext \/ overwritten']_LedgerVars
<1> SUFFICES ASSUME Inv, [Next]_vars, ~overwritten'
             PROVE  [Ledger!LedgerNext]_LedgerVars
  OBVIOUS
<1>1. ASSUME UNCHANGED gen,
             \A u \in Workers : /\ Busy(u)' <=> Busy(u)
                                /\ Busy(u) => worker'[u].mine = worker[u].mine
      PROVE  [Ledger!LedgerNext]_LedgerVars
  <2>1. Phase' = Phase /\ Leases' = Leases
    BY <1>1 DEF Phase, Leases
  <2>2. QED BY <1>1, <2>1 DEF LedgerVars
<1>2. TypeOK /\ TypeOK' /\ Sound
  BY StepTypes, HistoryStays DEF Inv
<1>3. CASE Tick \/ UNCHANGED vars
  BY <1>1, <1>3 DEF Tick, vars, Busy
<1>4. ASSUME NEW w \in Workers, NEW s \in Scores, Claim(w, s)
      PROVE  [Ledger!LedgerNext]_LedgerVars
  BY <1>2, <1>4, ClaimOpens DEF Ledger!LedgerNext
<1>5. ASSUME NEW w \in Workers,
             \/ \E o \in {"generated", "failed"} : Generate(w, o)
             \/ Settle(w) \/ ReadRecord(w)
      PROVE  [Ledger!LedgerNext]_LedgerVars
  <2>1. /\ gen' = gen /\ worker[w] \in Runs /\ worker[w].pc # "idle"
        /\ worker'[w].pc # "idle" /\ worker'[w].mine = worker[w].mine
        /\ \A u \in Workers : u # w => worker'[u] = worker[u]
    <3>1. worker[w] \in Runs /\ worker \in [Workers -> Runs]
      BY <1>2 DEF TypeOK
    <3>2. QED BY <1>5, <3>1 DEF Generate, Settle, ReadRecord, At, Runs
  <2>2. QED BY <1>1, <2>1 DEF Busy
<1>6. ASSUME NEW w \in Workers, Crash(w)
      PROVE  [Ledger!LedgerNext]_LedgerVars
  <2>1. Leases[w] # 0 /\ Ledger!GiveBack(w)
    BY <1>2, <1>6, EndReturns DEF Crash, Busy
  <2>2. Phase' = Phase /\ gen' = gen
    BY <1>6 DEF Crash, Phase
  <2>3. Ledger!Release(w)
    BY <2>1, <2>2 DEF Ledger!Release
  <2>4. QED BY <2>3 DEF Ledger!LedgerNext
<1>7. ASSUME NEW w \in Workers, Flush(w)
      PROVE  [Ledger!LedgerNext]_LedgerVars
  BY <1>2, <1>7, FlushEnds DEF Ledger!LedgerNext
<1>8. CASE Next
  BY <1>3, <1>4, <1>5, <1>6, <1>7, <1>8 DEF Next
<1>9. QED BY <1>3, <1>8

(* process_news_script takes no step that the ledger of attempts does not, *)
(* but one: since its write-back names no attempt, a late run may write    *)
(* into another's.                                                         *)
THEOREM LedgerIsKept == Spec => KeepsLedger
<1>1. Init => Ledger!LedgerInit
  <2> SUFFICES ASSUME Init PROVE Ledger!LedgerInit
    OBVIOUS
  <2>1. gen.status = "PENDING" /\ gen.attempt = 0 /\ gen.output = 0
    BY DEF Init, PendingRow, NoOutput
  <2>2. \A w \in Workers : ~ Busy(w)
    BY DEF Init, Busy, Idle
  <2>3. Phase = "waiting"
    BY <2>1 DEF Phase
  <2>4. QED BY <2>1, <2>2, <2>3 DEF Ledger!LedgerInit, Leases
<1>2. QED BY <1>1, LedgerStep, Invariance, PTL DEF Spec, KeepsLedger, LedgerVars

-----------------------------------------------------------------------------
(***************************************************************************)
(* A run that collects facts is a run: what is proved of ScriptGeneration  *)
(* holds of it.                                                            *)
(***************************************************************************)
evars == <<vars, evidence>>

LEMMA RunStep == [RunNext]_evars => [Next]_vars
<1> SUFFICES ASSUME [RunNext]_evars PROVE [Next]_vars
  OBVIOUS
<1>1. CASE UNCHANGED evars
  BY <1>1 DEF evars
<1>2. CASE Tick
  BY <1>2 DEF Next
<1>3. ASSUME NEW w \in Workers, NEW s \in Scores, Start(w, s) PROVE [Next]_vars
  BY <1>3 DEF Start, Next
<1>4. ASSUME NEW w \in Workers, ReadContext(w) PROVE [Next]_vars
  BY <1>4 DEF ReadContext
<1>5. ASSUME NEW w \in Workers, NEW answer, NEW down, FetchGames(w, answer, down)
      PROVE  [Next]_vars
  BY <1>5 DEF FetchGames
<1>6. ASSUME NEW w \in Workers, NEW o \in {"generated", "failed"}, Answer(w, o)
      PROVE  [Next]_vars
  BY <1>6 DEF Answer, Next
<1>7. ASSUME NEW w \in Workers, Settle(w) \/ ReadRecord(w) PROVE [Next]_vars
  BY <1>7 DEF Next
<1>8. ASSUME NEW w \in Workers, Finish(w) PROVE [Next]_vars
  BY <1>8 DEF Finish, Next
<1>9. QED
  BY <1>1, <1>2, <1>3, <1>4, <1>5, <1>6, <1>7, <1>8 DEF RunNext

(* The runs with their facts implement the runs without.                   *)
THEOREM RunImplements == RunSpec => Spec
<1>1. RunInit => Init
  BY DEF RunInit
<1>2. QED BY <1>1, RunStep, PTL DEF RunSpec, Spec, evars

(* What is proved of the row holds of the runs that collect facts, too:    *)
(* whatever they write into their own attempt, to_domain accepts the row.  *)
THEOREM RunRowLoadable == RunSpec => []RowStaysLoadable
BY RunImplements, RowLoadable, PTL

(* Until a late run has written into another's attempt, a run in time is   *)
(* the owner of the row's attempt, however long it collects facts.         *)
THEOREM RunOwnsAttempt == RunSpec => []LiveRunOwnsAttempt
BY RunImplements, LiveRunsOwn, PTL

(* A generated script stays as it is, whatever runs still collect facts,   *)
(* unless one of them is late and writes over it.                          *)
THEOREM RunScriptIsFinal == RunSpec => GeneratedScriptIsFinal
BY RunImplements, GeneratedIsFinal, PTL

(* No two jobs of one article disagree about its score, whatever becomes   *)
(* of their runs.                                                          *)
THEOREM RunScoreFixed == RunSpec => RankingScoreIsFixed
BY RunImplements, ScoreFixed, PTL

(* The runs that collect facts keep the ledger of attempts, too, up to the *)
(* write of a late run.                                                    *)
THEOREM RunLedger == RunSpec => KeepsLedger
BY RunImplements, LedgerIsKept, PTL

-----------------------------------------------------------------------------
(***************************************************************************)
(* The order of recent news is strict and total, so that every index up to *)
(* the limit has its candidate.                                            *)
(***************************************************************************)
NewerOf(S, n) == {m \in S : Newer(m, n)}

LEMMA NewerIsTotal ==
    ASSUME NEW l \in News, NEW m \in News, NEW n \in News
    PROVE  /\ ~ Newer(n, n)
           /\ m # n => Newer(m, n) \/ Newer(n, m)
           /\ Newer(l, m) /\ Newer(m, n) => Newer(l, n)
BY EvidenceAssumption DEF Newer

LEMMA NewerRank ==
    ASSUME NEW S \in SUBSET News, NEW n \in S
    PROVE  /\ IsFiniteSet(S) /\ Cardinality(S) \in Nat
           /\ IsFiniteSet(NewerOf(S, n))
           /\ Cardinality(NewerOf(S, n)) \in 0..(Cardinality(S) - 1)
<1>1. IsFiniteSet(S)
  BY EvidenceAssumption, FS_Subset
<1>2. NewerOf(S, n) \in SUBSET S /\ n \notin NewerOf(S, n)
  BY NewerIsTotal DEF NewerOf
<1>3. /\ IsFiniteSet(NewerOf(S, n))
      /\ Cardinality(NewerOf(S, n)) <= Cardinality(S)
      /\ Cardinality(NewerOf(S, n)) # Cardinality(S)
  BY <1>1, <1>2, FS_Subset
<1>4. Cardinality(S) \in Nat /\ Cardinality(NewerOf(S, n)) \in Nat
  BY <1>1, <1>3, FS_CardinalityType
<1>5. QED BY <1>1, <1>3, <1>4

LEMMA NewerRankIsStrict ==
    ASSUME NEW S \in SUBSET News, NEW m \in S, NEW n \in S, Newer(m, n)
    PROVE  Cardinality(NewerOf(S, m)) # Cardinality(NewerOf(S, n))
<1>1. NewerOf(S, m) \in SUBSET NewerOf(S, n)
  BY NewerIsTotal DEF NewerOf
<1>2. m \in NewerOf(S, n) /\ m \notin NewerOf(S, m)
  BY NewerIsTotal DEF NewerOf
<1>3. IsFiniteSet(NewerOf(S, n))
  BY NewerRank
<1>4. QED BY <1>1, <1>2, <1>3, FS_Subset

(* Every rank below the number of rows is some row's. *)
LEMMA EveryRankHasItsNews ==
    ASSUME NEW S \in SUBSET News, NEW k \in 1..Cardinality(S)
    PROVE  \E n \in S : Cardinality(NewerOf(S, n)) = k - 1
<1> DEFINE rank == [n \in S |-> Cardinality(NewerOf(S, n))]
           ranks == 0..(Cardinality(S) - 1)
<1>1. IsFiniteSet(S) /\ Cardinality(S) \in Nat
  BY EvidenceAssumption, FS_Subset, FS_CardinalityType
<1>2. IsFiniteSet(ranks) /\ Cardinality(ranks) = Cardinality(S)
  <2>1. 0 \in Int /\ Cardinality(S) - 1 \in Int
    BY <1>1
  <2>2. /\ IsFiniteSet(ranks)
        /\ Cardinality(ranks) = IF 0 > Cardinality(S) - 1 THEN 0
                                ELSE (Cardinality(S) - 1) - 0 + 1
    BY <2>1, FS_Interval
  <2>3. QED BY <1>1, <2>2
<1>3. rank \in [S -> ranks]
  BY NewerRank
<1>4. ASSUME NEW m \in S, NEW n \in S, m # n PROVE rank[m] # rank[n]
  BY <1>4, NewerIsTotal, NewerRankIsStrict
<1>5. rank \in Injection(S, ranks)
  BY <1>3, <1>4 DEF Injection, IsInjective
<1>6. rank \in Surjection(S, ranks)
  BY <1>2, <1>5, FS_Injection
<1>7. k - 1 \in ranks
  BY <1>1
<1>8. QED BY <1>6, <1>7 DEF Surjection

(* What the selector is shown is from the database and in the window. *)
THEOREM ContextIsRecent ==
    ASSUME NEW t
    PROVE  \A k \in DOMAIN RecentContext(t) : RecentContext(t)[k] \in Recent(t)
<1> SUFFICES ASSUME NEW k \in DOMAIN RecentContext(t)
             PROVE  RecentContext(t)[k] \in Recent(t)
  OBVIOUS
<1>1. Recent(t) \in SUBSET News
  BY DEF Recent
<1>2. Cardinality(Recent(t)) \in Nat
  BY <1>1, EvidenceAssumption, FS_Subset, FS_CardinalityType
<1>3. k \in 1..Cardinality(Recent(t))
  BY <1>2, EvidenceAssumption DEF RecentContext
<1>4. \E n \in Recent(t) : Cardinality(NewerOf(Recent(t), n)) = k - 1
  BY <1>1, <1>3, EveryRankHasItsNews
<1>5. QED BY <1>4 DEF RecentContext, NewerOf

-----------------------------------------------------------------------------
(***************************************************************************)
(* Days.                                                                   *)
(***************************************************************************)
LEMMA DayParts ==
    ASSUME NEW t \in Int
    PROVE  /\ DayOf(t) \in Int /\ t % Day \in Int
           /\ t = DayOf(t) * Day + (t % Day)
           /\ 0 <= t % Day /\ t % Day < Day
BY EvidenceAssumption DEF DayOf

(* An instant of a day, or later, is of that day or a later one. *)
LEMMA DayOrder ==
    ASSUME NEW d \in Int, NEW t \in Int, d * Day <= t
    PROVE  d <= DayOf(t)
<1>1. SUFFICES ASSUME DayOf(t) + 1 <= d PROVE FALSE
  BY DayParts
<1>2. /\ DayOf(t) \in Int /\ t % Day \in Int /\ Day \in Int /\ Day > 0
      /\ t = DayOf(t) * Day + (t % Day) /\ t % Day < Day
  BY DayParts, EvidenceAssumption
<1>3. (DayOf(t) + 1) * Day <= d * Day
  BY <1>1, <1>2
<1>4. (DayOf(t) + 1) * Day = DayOf(t) * Day + Day
  BY <1>2
<1>5. QED BY <1>2, <1>3, <1>4

LEMMA DaysInOrder ==
    ASSUME NEW t \in Int, NEW u \in Int, t <= u
    PROVE  DayOf(t) <= DayOf(u)
<1>1. /\ DayOf(t) \in Int /\ t % Day \in Int /\ Day \in Int /\ DayOf(t) * Day \in Int
      /\ t = DayOf(t) * Day + (t % Day) /\ 0 <= t % Day
  BY DayParts, EvidenceAssumption
<1>2. DayOf(t) * Day <= u
  BY <1>1
<1>3. QED BY <1>1, <1>2, DayOrder

(* A box score never shows a later end than the game had, and the end it   *)
(* had unless the game went on past midnight.                              *)
LEMMA ShownEndIsEarly ==
    ASSUME NEW g \in Games
    PROVE  /\ ShownEnd(g) \in Int /\ ShownEnd(g) <= g.ended
           /\ DayOf(g.ended) = g.day => ShownEnd(g) = g.ended
           /\ g.day <= DayOf(g.ended)
<1>1. /\ g.day \in Int /\ g.ended \in Int /\ g.ended >= g.day * Day
      /\ Day \in Int /\ Day > 0
  BY EvidenceAssumption
<1>2. /\ DayOf(g.ended) \in Int /\ g.ended % Day \in Int
      /\ g.ended = DayOf(g.ended) * Day + (g.ended % Day)
  BY <1>1, DayParts
<1>3. g.day <= DayOf(g.ended)
  BY <1>1, DayOrder
<1>4. g.day * Day <= DayOf(g.ended) * Day
  BY <1>1, <1>2, <1>3
<1>5. QED BY <1>1, <1>2, <1>3, <1>4 DEF ShownEnd

-----------------------------------------------------------------------------
(***************************************************************************)
(* What the collected facts tell.                                          *)
(***************************************************************************)
Timely(f) == KnownSince(f) <= Published \/ PastMidnight(f)

(* Every selected fact is of a candidate, hence of recent news. *)
LEMMA ContextIsTimely ==
    ASSUME NEW t, NEW answer, Answerable(answer, RecentContext(t)),
           NEW f \in ContextFacts(answer, RecentContext(t))
    PROVE  Timely(f)
<1>1. PICK k \in DOMAIN answer :
         f = [kind |-> "news", of |-> RecentContext(t)[answer[k].index],
              text |-> answer[k].text, role |-> answer[k].role]
  BY DEF ContextFacts
<1>2. answer[k].index \in DOMAIN RecentContext(t)
  BY DEF Answerable
<1>3. f.of \in Recent(t) /\ f.kind = "news"
  BY <1>1, <1>2, ContextIsRecent
<1>4. QED BY <1>3 DEF Timely, KnownSince, Recent

(* A usable game ended before the article, by the time it shows. *)
LEMMA GamesAreTimely ==
    ASSUME NEW t, NEW answer, NEW down, NEW f \in GameFacts(answer, t, down)
    PROVE  Timely(f)
<1>1. PICK g \in Games, p \in PlayerCandidates(answer) :
         /\ Usable(g, t)
         /\ f = [kind |-> "game", of |-> g, text |-> p.name, role |-> p.role]
  BY DEF GameFacts, GameUrls
<1>2. f.kind = "game" /\ f.of = g
  BY <1>1
<1>3. ShownEnd(g) <= Published
  BY <1>1 DEF Usable
<1>4. DayOf(g.ended) = g.day => g.ended <= Published
  BY <1>3, ShownEndIsEarly
<1>5. QED BY <1>2, <1>4 DEF Timely, KnownSince, PastMidnight

FactsInv ==
    /\ found = [w \in Workers |-> found[w]]
    /\ \A w \in Workers : \A f \in found[w].facts : Timely(f)
    /\ \A f \in snapshot : Timely(f)

(* A run's facts are replaced by timely ones. *)
LEMMA FactsReplaced ==
    ASSUME FactsInv, NEW w \in Workers, NEW new,
           \A f \in new.facts : Timely(f),
           found' = [found EXCEPT ![w] = new],
           \A f \in snapshot' : Timely(f)
    PROVE  FactsInv'
<1>1. found' = [u \in Workers |-> IF u = w THEN new ELSE found[u]]
  BY DEF FactsInv
<1>2. found' = [u \in Workers |-> found'[u]]
  BY <1>1
<1>3. ASSUME NEW u \in Workers, NEW f \in found'[u].facts PROVE Timely(f)
  BY <1>1 DEF FactsInv
<1>4. QED BY <1>2, <1>3 DEF FactsInv, Timely, KnownSince, PastMidnight

LEMMA FactsStep == FactsInv /\ [RunNext]_evars => FactsInv'
<1> SUFFICES ASSUME FactsInv, [RunNext]_evars PROVE FactsInv'
  OBVIOUS
<1>1. CASE UNCHANGED evidence
  BY <1>1 DEF evidence, FactsInv, Timely, KnownSince, PastMidnight
<1>2. CASE UNCHANGED evars
  BY <1>1, <1>2 DEF evars
<1>3. ASSUME NEW w \in Workers, NEW s \in Scores, Start(w, s) PROVE FactsInv'
  BY <1>3 DEF Start, FactsInv, Timely, KnownSince, PastMidnight
<1>4. ASSUME NEW w \in Workers, ReadContext(w) PROVE FactsInv'
  <2>1. PICK answer :
          /\ Answerable(answer, RecentContext(now))
          /\ found' = [found EXCEPT ![w] =
               [step |-> "context",
                facts |-> ContextFacts(answer, RecentContext(now))]]
          /\ snapshot' = snapshot
    BY <1>4 DEF ReadContext
  <2>2. \A f \in ContextFacts(answer, RecentContext(now)) : Timely(f)
    BY <2>1, ContextIsTimely
  <2>3. QED BY <2>1, <2>2, FactsReplaced DEF FactsInv
<1>5. ASSUME NEW w \in Workers, NEW answer, NEW down, FetchGames(w, answer, down)
      PROVE  FactsInv'
  <2>1. \A f \in Deduplicated(found[w].facts, GameFacts(answer, now, down)) :
           Timely(f)
    BY GamesAreTimely DEF Deduplicated, FactsInv
  <2>2. QED BY <1>5, <2>1, FactsReplaced DEF FetchGames, FactsInv
<1>6. ASSUME NEW w \in Workers, NEW o, Answer(w, o) PROVE FactsInv'
  BY <1>1, <1>6 DEF Answer
<1>7. ASSUME NEW w \in Workers, Finish(w) PROVE FactsInv'
  <2>1. snapshot' \in {snapshot, {}, found[w].facts}
    BY <1>7 DEF Finish
  <2>2. \A f \in snapshot' : Timely(f)
    BY <2>1 DEF FactsInv
  <2>3. \A f \in Nothing.facts : Timely(f)
    BY DEF Nothing
  <2>4. QED BY <1>7, <2>2, <2>3, FactsReplaced DEF Finish
<1>8. CASE RunNext
  BY <1>1, <1>3, <1>4, <1>5, <1>6, <1>7, <1>8 DEF RunNext
<1>9. QED
  BY <1>2, <1>8

(* No script tells what happened after its article was published, whenever *)
(* and by however late a run it is generated; only a game that went on     *)
(* past midnight may show an end that is too early.                        *)
THEOREM FactsAreTimely == RunSpec => []NothingFromTheFuture
<1>1. RunInit => FactsInv
  BY DEF RunInit, FactsInv, Nothing
<1>2. FactsInv => NothingFromTheFuture
  BY DEF FactsInv, NothingFromTheFuture, Timely
<1>3. QED BY <1>1, <1>2, FactsStep, PTL DEF RunSpec, evars

-----------------------------------------------------------------------------
(* The window holds every outing's game, and the months its schedule page. *)
LEMMA OutingIsListed ==
    ASSUME NEW name, NEW t, NEW g \in Outings(name, t)
    PROVE  g \in GameUrls(AllUp) /\ Usable(g, t) /\ Extractable(g, name)
<1>1. /\ g \in Games /\ g.giants /\ Extractable(g, name)
      /\ g.ended <= t /\ g.ended <= Published
      /\ DayOf(Published) - g.day <= Lookback
  BY DEF Outings
<1>2. /\ g.day \in Int /\ g.ended \in Int /\ g.list \in {"games", "farm"}
      /\ Published \in Int /\ Lookback \in Nat
  BY <1>1, EvidenceAssumption
<1>3. ShownEnd(g) \in Int /\ ShownEnd(g) <= g.ended /\ g.day <= DayOf(g.ended)
  BY <1>1, ShownEndIsEarly
<1>4. DayOf(g.ended) <= DayOf(Published)
  BY <1>1, <1>2, DaysInOrder
<1>5. DayOf(g.ended) \in Int /\ DayOf(Published) \in Int
  BY <1>2, DayParts
<1>6. g.day \in WindowStart..WindowEnd
  BY <1>1, <1>2, <1>3, <1>4, <1>5 DEF WindowStart, WindowEnd
<1>7. MonthOf(g.day) \in Months
  <2>1. /\ WindowStart \in WindowStart..WindowEnd
        /\ WindowEnd \in WindowStart..WindowEnd
        /\ WindowStart <= g.day /\ g.day <= WindowEnd
    BY <1>2, <1>5, <1>6 DEF WindowStart, WindowEnd
  <2>2. /\ MonthOf(WindowStart) \in Int /\ MonthOf(g.day) \in Int
        /\ MonthOf(WindowEnd) \in Int
        /\ MonthOf(WindowStart) <= MonthOf(g.day)
        /\ MonthOf(g.day) <= MonthOf(WindowEnd)
    BY <1>6, <2>1, MonthAssumption
  <2>3. QED BY <2>2 DEF Months
<1>8. <<MonthOf(g.day), g.list>> \in (Months \X {"games", "farm"}) \ AllUp.lists
  BY <1>2, <1>7 DEF AllUp
<1>9. g \in GameUrls(AllUp)
  BY <1>1, <1>6, <1>8 DEF GameUrls
<1>10. Usable(g, t)
  BY <1>1, <1>2, <1>3 DEF Usable
<1>11. QED BY <1>1, <1>9, <1>10

(* A run that can read every page tells every outing of each pitcher it    *)
(* asks about, whatever the length of the window and of the months.        *)
THEOREM OutingsAreTold == RunSpec => NoOutingMissed
<1> DEFINE Told(w, answer) ==
      \A p \in PlayerCandidates(answer) :
         \A g \in Outings(p.name, now) :
            \E f \in found'[w].facts :
               f.of = g /\ f.text = p.name /\ f.role = p.role
<1>1. ASSUME FactsInv, NEW w \in Workers, NEW answer \in PlayerAnswers,
             FetchGames(w, answer, AllUp)
      PROVE  Told(w, answer)
  <2> SUFFICES ASSUME NEW p \in PlayerCandidates(answer),
                      NEW g \in Outings(p.name, now)
               PROVE  \E f \in found'[w].facts :
                         f.of = g /\ f.text = p.name /\ f.role = p.role
    OBVIOUS
  <2> DEFINE fact == [kind |-> "game", of |-> g, text |-> p.name,
                      role |-> p.role]
  <2>1. /\ g \in GameUrls(AllUp) \ AllUp.games /\ Usable(g, now)
        /\ Extractable(g, p.name)
    BY OutingIsListed DEF AllUp
  <2>2. fact \in GameFacts(answer, now, AllUp)
    <3>1. <<g, p>>[1] = g /\ <<g, p>>[2] = p
      OBVIOUS
    <3>2. QED BY <2>1, <3>1 DEF GameFacts
  <2>3. found'[w].facts = Deduplicated(found[w].facts,
                                       GameFacts(answer, now, AllUp))
    BY <1>1 DEF FetchGames, FactsInv
  <2>4. fact \in found'[w].facts
    BY <2>2, <2>3 DEF Deduplicated
  <2>5. fact.of = g /\ fact.text = p.name /\ fact.role = p.role
    OBVIOUS
  <2>6. QED BY <2>4, <2>5
<1>2. FactsInv /\ [RunNext]_evars =>
        [\A w \in Workers, answer \in PlayerAnswers :
           FetchGames(w, answer, AllUp) => Told(w, answer)]_evars
  BY <1>1
<1>3. RunInit => FactsInv
  BY DEF RunInit, FactsInv, Nothing
<1>4. QED BY <1>2, <1>3, FactsStep, PTL DEF RunSpec, evars, NoOutingMissed

=============================================================================

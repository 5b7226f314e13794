------------------------ MODULE NewsDiscovery_proofs ------------------------
(***************************************************************************)
(* Proofs about NewsDiscovery, for any runs, pages, links and limits: who  *)
(* enqueues the metadata job of an item, and that nobody forgets one; that *)
(* the parsers collect what they are for from any page; that the canonical *)
(* URLs of collectors and resolver agree, so that an article is one intake.*)
(***************************************************************************)
EXTENDS NewsDiscovery, FiniteSetTheorems, SequenceTheorems, WellFoundedInduction,
        TLAPS

(* A sequence, of whatever kind, without repetitions. *)
Distinct(s) ==
    /\ \E T : s \in Seq(T)
    /\ \A i, j \in 1..Len(s) : s[i] = s[j] => i = j

LEMMA EmptyDistinct == Distinct(<<>>) /\ ToSet(<<>>) = {}
<1>1. <<>> \in Seq({})
  OBVIOUS
<1> QED BY <1>1 DEF Distinct, ToSet

LEMMA AppendDistinct ==
    ASSUME NEW s, NEW e, Distinct(s), e \notin ToSet(s)
    PROVE  /\ Distinct(Append(s, e))
           /\ ToSet(Append(s, e)) = ToSet(s) \cup {e}
<1>0. PICK S : s \in Seq(S)
  BY DEF Distinct
<1> DEFINE T == S \cup {e}
<1>1. s \in Seq(T) /\ Append(s, e) \in Seq(T) /\ Len(Append(s, e)) = Len(s) + 1
  BY <1>0
<1>2. \A i \in 1..Len(s) : Append(s, e)[i] = s[i] /\ s[i] \in ToSet(s)
  BY <1>1 DEF ToSet
<1>3. Append(s, e)[Len(s) + 1] = e
  BY <1>1
<1>4. DOMAIN Append(s, e) = 1..(Len(s) + 1) /\ DOMAIN s = 1..Len(s) /\ Len(s) \in Nat
  BY <1>1
<1>5. ToSet(Append(s, e)) = ToSet(s) \cup {e}
  BY <1>2, <1>3, <1>4 DEF ToSet
<1>6. \A i, j \in 1..(Len(s) + 1) : Append(s, e)[i] = Append(s, e)[j] => i = j
  BY <1>2, <1>3, <1>4 DEF Distinct
<1> QED BY <1>1, <1>5, <1>6 DEF Distinct

LEMMA TailDistinct ==
    ASSUME NEW s, Distinct(s), s # <<>>
    PROVE  /\ Distinct(Tail(s))
           /\ Head(s) \in ToSet(s)
           /\ ToSet(Tail(s)) = ToSet(s) \ {Head(s)}
<1>1. PICK T : /\ s \in Seq(T) /\ Len(s) \in Nat
                /\ Len(s) >= 1 /\ Head(s) = s[1]
  BY DEF Distinct
<1>2. Tail(s) \in Seq(T) /\ Len(Tail(s)) = Len(s) - 1
  BY <1>1
<1>3. \A i \in 1..(Len(s) - 1) : Tail(s)[i] = s[i + 1]
  BY <1>1
<1>4. DOMAIN Tail(s) = 1..(Len(s) - 1) /\ DOMAIN s = 1..Len(s)
  BY <1>1, <1>2
<1>5. ToSet(Tail(s)) = ToSet(s) \ {Head(s)}
  <2>1. \A e \in ToSet(Tail(s)) : e \in ToSet(s) /\ e # Head(s)
    BY <1>1, <1>3, <1>4 DEF ToSet, Distinct
  <2>2. ASSUME NEW e \in ToSet(s), e # Head(s)
        PROVE  e \in ToSet(Tail(s))
    <3>1. PICK i \in 1..Len(s) : e = s[i]
      BY <1>4 DEF ToSet
    <3>2. i - 1 \in 1..(Len(s) - 1) /\ Tail(s)[i - 1] = e
      BY <1>1, <1>3, <2>2, <3>1
    <3> QED BY <1>4, <3>2 DEF ToSet
  <2> QED BY <2>1, <2>2
<1>6. \A i, j \in 1..Len(Tail(s)) : Tail(s)[i] = Tail(s)[j] => i = j
  BY <1>1, <1>2, <1>3 DEF Distinct
<1>7. Head(s) \in ToSet(s)
  BY <1>1, <1>4 DEF ToSet
<1> QED BY <1>2, <1>5, <1>6, <1>7 DEF Distinct

-----------------------------------------------------------------------------
LEMMA UrlsOfUnion ==
    ASSUME NEW S, NEW T
    PROVE  UrlsOf(S \cup T) = UrlsOf(S) \cup UrlsOf(T)
BY DEF UrlsOf

LEMMA UrlsOfIn == ASSUME NEW S, NEW i \in S PROVE i.url \in UrlsOf(S)
BY DEF UrlsOf

LEMMA UrlsOfOne == ASSUME NEW i PROVE UrlsOf({i}) = {i.url}
BY DEF UrlsOf

(* What a run holds: URLs it has inserted, and then those it enqueues. *)
Holds(r) == ToSet(run[r].todo)

Shape ==
    /\ DOMAIN run = Runs
    /\ \A r \in Runs :
          {"pc", "page", "left", "mine", "todo"} \subseteq DOMAIN run[r]

(* What one run holds, against what is committed. *)
HoldsItsOwn(r) ==
    /\ Distinct(run[r].todo)
    /\ run[r].pc = "idle" =>
          run[r].mine = {} /\ Holds(r) = {}
    /\ run[r].pc = "register" =>
          UrlsOf(run[r].mine) = Holds(r) /\ Holds(r) \cap UrlsOf(intakes) = {}
    /\ run[r].pc = "enqueue" =>
          /\ run[r].mine = {}
          /\ Holds(r) \subseteq UrlsOf(intakes)
          /\ Holds(r) \cap jobs = {}

IInv ==
    /\ Shape
    /\ \A r \in Runs : run[r].pc \in {"idle", "register", "enqueue"}
    /\ jobs \subseteq UrlsOf(intakes)
    /\ \A r \in Runs : HoldsItsOwn(r)
    /\ \A r, s \in Runs : r # s => Holds(r) \cap Holds(s) = {}
    /\ NothingForgotten

(* A step of one run, by what it does to the pc, the insertions and the    *)
(* URLs to enqueue of that run.                                            *)
Becomes(r, pc, mine, todo) ==
    /\ Shape'
    /\ \A s \in Runs \ {r} : run'[s] = run[s]
    /\ run'[r].pc = pc /\ run'[r].mine = mine /\ run'[r].todo = todo

LEMMA CollectBecomes ==
    ASSUME NEW r \in Runs, NEW s, NEW p, Shape, Collect(r, s, p)
    PROVE  run[r].pc = "idle" /\ Becomes(r, "register", {}, <<>>)
BY DEF Collect, Becomes, Shape, Idle

LEMMA SubmitBecomes ==
    ASSUME NEW r \in Runs, NEW l, Shape, Submit(r, l)
    PROVE  run[r].pc = "idle" /\ Becomes(r, "register", {}, <<>>)
BY DEF Submit, Becomes, Shape, Idle

LEMMA FindDuplicateBecomes ==
    ASSUME NEW r \in Runs, Shape, FindDuplicate(r)
    PROVE  Becomes(r, run[r].pc, run[r].mine, run[r].todo)
BY DEF FindDuplicate, Becomes, Shape

LEMMA InsertBecomes ==
    ASSUME NEW r \in Runs, Shape, Insert(r)
    PROVE  LET i == Head(run[r].left)
           IN  Becomes(r, run[r].pc, run[r].mine \cup {i},
                       Append(run[r].todo, i.url))
BY DEF Insert, Becomes, Shape

LEMMA CommitBecomes ==
    ASSUME NEW r \in Runs, Shape, Commit(r)
    PROVE  Becomes(r, "enqueue", {}, run[r].todo)
BY DEF Commit, Becomes, Shape, Idle

LEMMA EnqueueBecomes ==
    ASSUME NEW r \in Runs, Shape, Enqueue(r)
    PROVE  Becomes(r, run[r].pc, run[r].mine, Tail(run[r].todo))
BY DEF Enqueue, Becomes, Shape

LEMMA IdleBecomes ==
    ASSUME NEW r \in Runs, Shape, run' = [run EXCEPT ![r] = Idle]
    PROVE  Becomes(r, "idle", {}, <<>>)
BY DEF Becomes, Shape, Idle

-----------------------------------------------------------------------------
LEMMA InitInductive == Init => IInv
<1> SUFFICES ASSUME Init PROVE IInv
  OBVIOUS
<1>1. \A r \in Runs : run[r] = Idle
  BY DEF Init
<1>2. \A r \in Runs : /\ run[r].pc = "idle" /\ run[r].mine = {}
                       /\ run[r].todo = <<>>
  BY <1>1 DEF Idle
<1>3. \A r \in Runs : HoldsItsOwn(r) /\ Holds(r) = {}
  BY <1>2, EmptyDistinct DEF HoldsItsOwn, Holds
<1>4. Shape
  BY <1>1 DEF Init, Shape, Idle
<1>5. jobs = {} /\ UrlsOf(intakes) = {}
  BY DEF Init, UrlsOf
<1> QED BY <1>2, <1>3, <1>4, <1>5 DEF IInv, NothingForgotten

(* A step of r leaves the parts of the invariant about the other runs to   *)
(* what it does to r, to intakes, jobs and lost.                           *)
LEMMA StepInductive ==
    ASSUME IInv, NEW r \in Runs, NEW pc, NEW mine, NEW todo,
           Becomes(r, pc, mine, todo),
           pc \in {"idle", "register", "enqueue"},
           jobs' \subseteq UrlsOf(intakes'),
           HoldsItsOwn(r)',
           \A s \in Runs \ {r} : HoldsItsOwn(s)',
           \A s \in Runs \ {r} : Holds(s) \cap ToSet(todo) = {},
           NothingForgotten'
    PROVE  IInv'
<1>1. \A s \in Runs \ {r} : Holds(s)' = Holds(s) /\ run'[s].pc = run[s].pc
  BY DEF Becomes, Holds
<1>2. Holds(r)' = ToSet(todo)
  BY DEF Becomes, Holds
<1>3. \A s \in Runs : run'[s].pc \in {"idle", "register", "enqueue"}
  BY <1>1 DEF Becomes, IInv
<1>4. \A s, t \in Runs : s # t => Holds(s)' \cap Holds(t)' = {}
  BY <1>1, <1>2 DEF IInv
<1> QED BY <1>3, <1>4 DEF IInv, Becomes

(* The other runs hold what they held, if what has been committed grows by *)
(* nothing they have inserted, and no job is enqueued that they hold.      *)
LEMMA OthersHold ==
    ASSUME IInv, NEW r \in Runs, NEW pc, NEW mine, NEW todo,
           Becomes(r, pc, mine, todo),
           NEW s \in Runs \ {r},
           UrlsOf(intakes) \subseteq UrlsOf(intakes'),
           Holds(s) \cap UrlsOf(intakes') \subseteq UrlsOf(intakes),
           Holds(s) \cap jobs' \subseteq jobs
    PROVE  HoldsItsOwn(s)'
<1>1. run'[s] = run[s] /\ Holds(s)' = Holds(s)
  BY DEF Becomes, Holds
<1>2. HoldsItsOwn(s)
  BY DEF IInv
<1> QED BY <1>1, <1>2 DEF HoldsItsOwn

LEMMA BeginInductive ==
    ASSUME IInv, NEW r \in Runs, run[r].pc = "idle",
           Becomes(r, "register", {}, <<>>),
           UNCHANGED <<intakes, jobs, lost>>
    PROVE  IInv'
<1>1. \A s \in Runs \ {r} : HoldsItsOwn(s)'
  BY OthersHold
<1>2. HoldsItsOwn(r)'
  BY EmptyDistinct DEF Becomes, HoldsItsOwn, Holds, UrlsOf
<1>3. NothingForgotten'
  BY DEF Becomes, IInv, NothingForgotten
<1>4. jobs' \subseteq UrlsOf(intakes')
  BY DEF IInv
<1> QED BY <1>1, <1>2, <1>3, <1>4, EmptyDistinct, StepInductive

LEMMA FindDuplicateInductive ==
    ASSUME IInv, NEW r \in Runs, FindDuplicate(r)
    PROVE  IInv'
<1>1. Becomes(r, run[r].pc, run[r].mine, run[r].todo)
  BY FindDuplicateBecomes DEF IInv
<1>2. UNCHANGED <<intakes, jobs, lost>>
  BY DEF FindDuplicate
<1>3. \A s \in Runs \ {r} : HoldsItsOwn(s)'
  BY <1>1, <1>2, OthersHold
<1>4. HoldsItsOwn(r)'
  BY <1>1, <1>2 DEF Becomes, IInv, HoldsItsOwn, Holds
<1>5. NothingForgotten'
  BY <1>1, <1>2 DEF Becomes, IInv, NothingForgotten
<1>6. \A s \in Runs \ {r} : Holds(s) \cap ToSet(run[r].todo) = {}
  BY DEF IInv, Holds
<1>7. jobs' \subseteq UrlsOf(intakes') /\ run[r].pc \in {"idle", "register", "enqueue"}
  BY <1>2 DEF IInv
<1> QED BY <1>1, <1>3, <1>4, <1>5, <1>6, <1>7, StepInductive

LEMMA InsertInductive ==
    ASSUME IInv, NEW r \in Runs, Insert(r)
    PROVE  IInv'
<1> DEFINE i == Head(run[r].left)
           mine == run[r].mine \cup {i}
           todo == Append(run[r].todo, i.url)
<1>1. Becomes(r, "register", mine, todo) /\ run[r].pc = "register"
  BY InsertBecomes DEF IInv, Insert, Registering
<1>2. UNCHANGED <<intakes, jobs, lost>>
  BY DEF Insert
<1>3. \A s \in Runs \ {r} : HoldsItsOwn(s)'
  BY <1>1, <1>2, OthersHold
<1>4. i.url \notin UrlsOf(intakes) /\ i.url \notin UrlsOf(run[r].mine)
  BY UrlsOfUnion DEF Insert, Stored
<1>5. i.url \notin Holds(r) /\ Distinct(run[r].todo)
  BY <1>1, <1>4 DEF IInv, HoldsItsOwn
<1>6. Distinct(todo) /\ ToSet(todo) = Holds(r) \cup {i.url}
  BY <1>5, AppendDistinct DEF Holds
<1>7. UrlsOf(mine) = Holds(r) \cup {i.url}
  <2>1. UrlsOf(run[r].mine) = Holds(r)
    BY <1>1 DEF IInv, HoldsItsOwn
  <2>2. UrlsOf(mine) = UrlsOf(run[r].mine) \cup UrlsOf({i})
    BY UrlsOfUnion
  <2> QED BY <2>1, <2>2, UrlsOfOne
<1>8. HoldsItsOwn(r)'
  <2>1. Holds(r) \cap UrlsOf(intakes) = {}
    BY <1>1 DEF IInv, HoldsItsOwn
  <2>2. Holds(r)' = ToSet(todo) /\ intakes' = intakes
    BY <1>1, <1>2 DEF Becomes, Holds
  <2>3. /\ run'[r].pc = "register" /\ run'[r].mine = mine
        /\ run'[r].todo = todo
    BY <1>1 DEF Becomes
  <2> HIDE DEF mine, todo
  <2>4. UrlsOf(run'[r].mine) = Holds(r)'
    BY <1>6, <1>7, <2>2, <2>3
  <2>5. Holds(r)' \cap UrlsOf(intakes') = {}
    BY <1>4, <1>6, <2>1, <2>2
  <2> QED BY <1>6, <2>3, <2>4, <2>5 DEF HoldsItsOwn
<1>9. ASSUME NEW s \in Runs \ {r}
      PROVE  Holds(s) \cap ToSet(todo) = {}
  <2>1. i.url \notin UrlsOf(run[s].mine)
    BY <1>9 DEF Insert, Waits, WaitsFor
  <2>2. i.url \notin Holds(s)
    BY <1>4, <2>1 DEF IInv, HoldsItsOwn
  <2> QED BY <1>6, <2>2 DEF IInv
<1>10. NothingForgotten'
  BY <1>1, <1>2 DEF Becomes, IInv, NothingForgotten
<1>11. jobs' \subseteq UrlsOf(intakes')
  BY <1>2 DEF IInv
<1> HIDE DEF mine, todo
<1> QED BY <1>1, <1>3, <1>8, <1>9, <1>10, <1>11, StepInductive

LEMMA CommitInductive ==
    ASSUME IInv, NEW r \in Runs, Commit(r)
    PROVE  IInv'
<1>1. Becomes(r, "enqueue", {}, run[r].todo) /\ run[r].pc = "register"
  BY CommitBecomes DEF IInv, Commit
<1>2. UrlsOf(intakes') = UrlsOf(intakes) \cup Holds(r)
  BY <1>1, UrlsOfUnion DEF Commit, IInv, HoldsItsOwn
<1>3. UNCHANGED <<jobs, lost>>
  BY DEF Commit
<1>4. \A s \in Runs \ {r} : Holds(s) \cap Holds(r) = {}
  BY DEF IInv
<1>5. \A s \in Runs \ {r} : HoldsItsOwn(s)'
  BY <1>1, <1>2, <1>3, <1>4, OthersHold
<1>6. jobs \subseteq UrlsOf(intakes) /\ jobs' \subseteq UrlsOf(intakes')
  BY <1>2, <1>3 DEF IInv
<1>7. Holds(r)' = Holds(r)
  BY <1>1 DEF Becomes, Holds
<1>8. HoldsItsOwn(r)'
  BY <1>1, <1>2, <1>3, <1>6, <1>7 DEF Becomes, IInv, HoldsItsOwn
<1>9. ASSUME NEW u \in UrlsOf(intakes')
      PROVE  \/ u \in jobs' \cup lost'
             \/ \E s \in Runs : run'[s].pc = "enqueue" /\ u \in ToSet(run'[s].todo)
  <2>1. CASE u \in Holds(r)
    BY <1>1, <2>1 DEF Becomes, Holds
  <2>2. CASE u \in UrlsOf(intakes)
    BY <1>1, <1>3, <2>2 DEF Becomes, IInv, NothingForgotten
  <2> QED BY <1>2, <2>1, <2>2
<1>10. NothingForgotten'
  BY <1>9 DEF NothingForgotten
<1>11. \A s \in Runs \ {r} : Holds(s) \cap ToSet(run[r].todo) = {}
  BY <1>4 DEF Holds
<1> QED BY <1>1, <1>5, <1>6, <1>8, <1>10, <1>11, StepInductive

LEMMA EnqueueInductive ==
    ASSUME IInv, NEW r \in Runs, Enqueue(r)
    PROVE  IInv'
<1> DEFINE u == Head(run[r].todo)
           todo == Tail(run[r].todo)
<1>1. Becomes(r, "enqueue", {}, todo) /\ run[r].pc = "enqueue"
  BY EnqueueBecomes DEF IInv, Enqueue, HoldsItsOwn
<1>2. /\ UNCHANGED <<intakes, lost>> /\ jobs' = jobs \cup {u}
      /\ run[r].todo # <<>>
  BY DEF Enqueue
<1>3. Distinct(run[r].todo)
  BY DEF IInv, HoldsItsOwn
<1>4. /\ Distinct(todo) /\ u \in Holds(r)
      /\ ToSet(todo) = Holds(r) \ {u}
  BY <1>2, <1>3, TailDistinct DEF Holds
<1> HIDE DEF u, todo
<1>5. Holds(r)' = Holds(r) \ {u}
  BY <1>1, <1>4 DEF Becomes, Holds
<1>6. \A s \in Runs \ {r} : Holds(s) \cap Holds(r) = {}
  BY DEF IInv
<1>7. \A s \in Runs \ {r} : HoldsItsOwn(s)'
  BY <1>1, <1>2, <1>4, <1>6, OthersHold
<1>8. /\ Holds(r) \subseteq UrlsOf(intakes) /\ Holds(r) \cap jobs = {}
      /\ UrlsOf(intakes') = UrlsOf(intakes)
  BY <1>1, <1>2 DEF IInv, HoldsItsOwn
<1>9. HoldsItsOwn(r)'
  BY <1>1, <1>2, <1>4, <1>5, <1>8 DEF Becomes, HoldsItsOwn
<1>10. jobs' \subseteq UrlsOf(intakes')
  BY <1>2, <1>4, <1>8 DEF IInv
<1>11. ASSUME NEW v \in UrlsOf(intakes')
       PROVE  \/ v \in jobs' \cup lost'
              \/ \E s \in Runs : run'[s].pc = "enqueue" /\ v \in ToSet(run'[s].todo)
  <2>1. CASE v \in jobs' \cup lost'
    BY <2>1
  <2>2. CASE v \notin jobs' \cup lost'
    <3>1. PICK s \in Runs : run[s].pc = "enqueue" /\ v \in ToSet(run[s].todo)
      BY <1>2, <1>8, <2>2 DEF IInv, NothingForgotten
    <3>2. CASE s = r
      BY <1>1, <1>2, <1>4, <2>2, <3>1, <3>2 DEF Becomes, Holds
    <3>3. CASE s # r
      BY <1>1, <3>1, <3>3 DEF Becomes
    <3> QED BY <3>2, <3>3
  <2> QED BY <2>1, <2>2
<1>12. NothingForgotten'
  BY <1>11 DEF NothingForgotten
<1>13. \A s \in Runs \ {r} : Holds(s) \cap ToSet(todo) = {}
  BY <1>4, <1>6
<1> QED BY <1>1, <1>7, <1>9, <1>10, <1>12, <1>13, StepInductive

(* A run that ends, in whatever way, with what it held enqueued or lost. *)
LEMMA EndInductive ==
    ASSUME IInv, NEW r \in Runs, run' = [run EXCEPT ![r] = Idle],
           UNCHANGED <<intakes, jobs>>, lost \subseteq lost',
           run[r].pc = "enqueue" => Holds(r) \subseteq lost'
    PROVE  IInv'
<1>1. Becomes(r, "idle", {}, <<>>)
  BY IdleBecomes DEF IInv
<1>2. \A s \in Runs \ {r} : HoldsItsOwn(s)'
  BY <1>1, OthersHold
<1>3. HoldsItsOwn(r)'
  BY <1>1, EmptyDistinct DEF Becomes, HoldsItsOwn, Holds
<1>4. ASSUME NEW u \in UrlsOf(intakes')
      PROVE  \/ u \in jobs' \cup lost'
             \/ \E s \in Runs : run'[s].pc = "enqueue" /\ u \in ToSet(run'[s].todo)
  BY <1>1 DEF Becomes, IInv, NothingForgotten, Holds
<1>5. NothingForgotten'
  BY <1>4 DEF NothingForgotten
<1>6. jobs' \subseteq UrlsOf(intakes')
  BY DEF IInv
<1> QED BY <1>1, <1>2, <1>3, <1>5, <1>6, EmptyDistinct, StepInductive

LEMMA FinishInductive ==
    ASSUME IInv, NEW r \in Runs, Finish(r)
    PROVE  IInv'
<1>1. Holds(r) = {}
  BY EmptyDistinct DEF Finish, Holds
<1> QED BY <1>1, EndInductive DEF Finish

LEMMA AbortInductive ==
    ASSUME IInv, NEW r \in Runs, Abort(r)
    PROVE  IInv'
BY EndInductive DEF Abort, Holds

LEMMA StutterInductive ==
    ASSUME IInv, UNCHANGED vars
    PROVE  IInv'
BY DEF IInv, vars, Shape, HoldsItsOwn, Holds, NothingForgotten

LEMMA Invariance == Spec => []IInv
<1>1. IInv /\ [Next]_vars => IInv'
  <2> SUFFICES ASSUME IInv, [Next]_vars PROVE IInv'
    OBVIOUS
  <2>1. ASSUME NEW r \in Discoverers, NEW s \in Collectable, NEW p \in Pages,
               Collect(r, s, p)
        PROVE  IInv'
    <3>1. run[r].pc = "idle" /\ Becomes(r, "register", {}, <<>>)
      BY <2>1, CollectBecomes DEF IInv, Runs
    <3>2. UNCHANGED <<intakes, jobs, lost>>
      BY <2>1 DEF Collect
    <3> QED BY <3>1, <3>2, BeginInductive DEF Runs
  <2>2. ASSUME NEW r \in Operators, NEW l \in Links, Submit(r, l)
        PROVE  IInv'
    <3>1. run[r].pc = "idle" /\ Becomes(r, "register", {}, <<>>)
      BY <2>2, SubmitBecomes DEF IInv, Runs
    <3>2. UNCHANGED <<intakes, jobs, lost>>
      BY <2>2 DEF Submit
    <3> QED BY <3>1, <3>2, BeginInductive DEF Runs
  <2>3. ASSUME NEW r \in Runs, Step(r) \/ Enqueue(r)
        PROVE  IInv'
    BY <2>3, FindDuplicateInductive, InsertInductive, CommitInductive,
       EnqueueInductive, FinishInductive, AbortInductive DEF Step
  <2>4. CASE UNCHANGED vars
    BY <2>4, StutterInductive
  <2> QED BY <2>1, <2>2, <2>3, <2>4 DEF Next, Begin
<1> QED BY <1>1, InitInductive, PTL DEF Spec

-----------------------------------------------------------------------------
(* Whatever runs, pages and links there are, and however the runs overlap, *)
(* are retried or die, the metadata job of an item is enqueued by the run  *)
(* that has registered it, and once: a DuplicateJobError is never met.     *)
THEOREM OneRegistrar == Spec => []EnqueuedByRegistrarOnly
<1>1. IInv => EnqueuedByRegistrarOnly
  BY DEF IInv, HoldsItsOwn, Holds, EnqueuedByRegistrarOnly
<1> QED BY <1>1, Invariance, PTL

(* Whatever runs, pages and links there are, every committed item has its  *)
(* job, will be given it by its run, or was lost by a run that died.       *)
THEOREM NoneForgotten == Spec => []NothingForgotten
<1>1. IInv => NothingForgotten
  BY DEF IInv
<1> QED BY <1>1, Invariance, PTL

-----------------------------------------------------------------------------
(* A set of natural numbers has a smallest one: this is how inductions     *)
(* are done below.                                                         *)
LEMMA SmallestOf ==
    ASSUME NEW T, T \subseteq Nat, T # {}
    PROVE  \E x \in T : \A y \in T : x <= y
<1> DEFINE R == OpToRel(<, Nat)
<1>1. IsWellFoundedOn(R, Nat)
  BY NatLessThanWellFounded
<1>2. \A x, y \in Nat : x < y => <<x, y>> \in R
  BY DEF OpToRel
<1> HIDE DEF R
<1>3. PICK x \in T : \A y \in T : ~ (<<y, x>> \in R)
  BY <1>1, WFMin
<1>4. \A y \in T : x \in Nat /\ y \in Nat /\ ~ (y < x)
  BY <1>2, <1>3
<1>5. \A y \in T : x <= y
  BY <1>4
<1> QED
  BY <1>5

(* What holds of 0 and passes from each number to the next holds up to n. *)
LEMMA UpTo ==
    ASSUME NEW n \in Nat, NEW P,
           0 \in P, \A k \in 1..n : k - 1 \in P => k \in P
    PROVE  \A k \in 0..n : k \in P
<1> DEFINE T == {k \in 0..n : k \notin P}
<1> SUFFICES T = {}
  OBVIOUS
<1> SUFFICES ASSUME T # {} PROVE FALSE
  OBVIOUS
<1>1. T \subseteq Nat
  OBVIOUS
<1> HIDE DEF T
<1>2. PICK x \in T : \A y \in T : x <= y
  BY <1>1, SmallestOf
<1>3. x \in 0..n /\ x \notin P /\ x \in Nat
  BY <1>2 DEF T
<1>4. x # 0 /\ x \in 1..n /\ x - 1 \in 0..n /\ ~ (x <= x - 1)
  BY <1>3
<1>5. x - 1 \in P
  BY <1>2, <1>4 DEF T
<1> QED
  BY <1>3, <1>4, <1>5

Scan(source, page, max) ==
    CHOOSE items : items =
       [k \in 0..Len(page) |->
          IF k = 0 THEN <<>> ELSE Scanned(source, page, max, items[k - 1], k)]

LEMMA ParsedIsScan ==
    ASSUME NEW source, NEW page, NEW max
    PROVE Parsed(source, page, max) = Scan(source, page, max)[Len(page)]
BY DEF Parsed, Scan

LEMMA ScanEquation ==
    ASSUME NEW source, NEW page, Len(page) \in Nat, NEW max
    PROVE  LET items == Scan(source, page, max)
           IN  items = [k \in 0..Len(page) |->
                          IF k = 0 THEN <<>>
                          ELSE Scanned(source, page, max, items[k - 1], k)]
<1> DEFINE S(v, k) == Scanned(source, page, max, v, k)
           F(g, n) == [k \in 0..n |-> IF k = 0 THEN <<>> ELSE S(g[k - 1], k)]
           P == {n \in Nat : \E g : g = F(g, n)}
<1> HIDE DEF S
<1>1. 0 \in P
  <2> DEFINE g == [k \in 0..0 |-> <<>>]
  <2>1. g = F(g, 0)
    BY SMT
  <2> HIDE DEF g, F
  <2> QED
    BY <2>1
<1>2. ASSUME NEW n \in 1..Len(page), n - 1 \in P PROVE n \in P
  <2>1. PICK g : g = F(g, n - 1)
    BY <1>2
  <2> DEFINE h == F(g, n)
  <2>2. \A k \in 0..(n - 1) : g[k] = h[k]
    BY <2>1
  <2>3. \A k \in 0..n : k # 0 => h[k - 1] = g[k - 1]
    BY <2>2
  <2>4. h = F(h, n)
    <3> SUFFICES ASSUME NEW k \in 0..n 
                 PROVE (IF k = 0 THEN <<>> ELSE S(g[k - 1], k)) = (IF k = 0 THEN <<>> ELSE S(h[k - 1], k))
       BY Zenon
    <3> HIDE DEF h
    <3> QED BY <2>3
  <2> HIDE DEF h, F
  <2> QED
    BY <2>4
<1>3. Len(page) \in P
  <2>1. \A k \in 1..Len(page) : k - 1 \in P => k \in P
    BY <1>2
  <2> HIDE DEF P
  <2>2. \A k \in 0..Len(page) : k \in P
    BY <1>1, <2>1, UpTo
  <2> QED
    BY <2>2
<1>4. PICK g : g = F(g, Len(page))
  BY <1>3
<1> QED
  BY <1>4 DEF Scan, S

-----------------------------------------------------------------------------
(* How many elements of a set of numbers are below one of them. *)
Rank(C, k) == Cardinality({j \in C : j < k})

LEMMA RankInjective ==
    ASSUME NEW C, C \subseteq Nat, IsFiniteSet(C), NEW a \in C, NEW b \in C,
           Rank(C, a) = Rank(C, b)
    PROVE  a = b
<1> DEFINE Below(x) == {j \in C : j < x}
<1>1. ASSUME NEW x \in C, NEW y \in C, x < y, Rank(C, x) = Rank(C, y)
      PROVE  FALSE
  <2>1. Below(x) \subseteq Below(y) /\ IsFiniteSet(Below(y))
    <3>1. Below(y) \in SUBSET C
      OBVIOUS
    <3>2. IsFiniteSet(Below(y))
      BY <3>1, FS_Subset
    <3>3. \A j \in C : j < x => j < y
      BY <1>1
    <3> QED
      BY <3>2, <3>3
  <2>2. Cardinality(Below(y)) = Cardinality(Below(x))
    BY <1>1 DEF Rank
  <2>3. Below(x) = Below(y)
    BY <2>1, <2>2, FS_Subset
  <2>4. x \in Below(y) /\ x \notin Below(x)
    BY <1>1
  <2> QED
    BY <2>3, <2>4
<1>2. a < b \/ b < a \/ a = b
  OBVIOUS
<1> QED
  BY <1>1, <1>2

LEMMA RankBounds ==
    ASSUME NEW C, C \subseteq Nat, IsFiniteSet(C), NEW a \in C
    PROVE  Rank(C, a) \in 0..(Cardinality(C) - 1)
<1> DEFINE B == {j \in C : j < a}
<1>1. B \in SUBSET C /\ a \notin B
  OBVIOUS
<1>2. /\ IsFiniteSet(B) /\ Cardinality(B) <= Cardinality(C)
      /\ Cardinality(C) = Cardinality(B) => C = B
  BY <1>1, FS_Subset
<1>3. Cardinality(B) \in Nat /\ Cardinality(C) \in Nat
  BY <1>2, FS_CardinalityType
<1>4. Cardinality(B) # Cardinality(C)
  BY <1>1, <1>2
<1> HIDE DEF B
<1>5. Cardinality(B) \in 0..(Cardinality(C) - 1)
  BY <1>2, <1>3, <1>4
<1> QED
  BY <1>5 DEF Rank, B

LEMMA RankSurjective ==
    ASSUME NEW C, C \subseteq Nat, IsFiniteSet(C),
           NEW n \in 0..(Cardinality(C) - 1)
    PROVE  \E k \in C : Rank(C, k) = n
<1> DEFINE m == Cardinality(C)
           T == 0..(m - 1)
           f == [k \in C |-> Rank(C, k)]
<1>1. m \in Nat
  BY FS_CardinalityType
<1>2. IsFiniteSet(T) /\ Cardinality(T) = m
  BY <1>1, FS_Interval
<1>3. f \in [C -> T]
  BY RankBounds
<1>4. \A a, b \in C : f[a] = f[b] => a = b
  BY RankInjective
<1> HIDE DEF f, T, m
<1>5. f \in Injection(C, T)
  BY <1>3, <1>4 DEF Injection, IsInjective
<1>6. f \in Surjection(C, T)
  BY <1>2, <1>5, FS_Injection DEF m
<1>7. \E k \in C : f[k] = n
  BY <1>6 DEF Surjection, T, m
<1> QED
  BY <1>7 DEF f

(* The element with n - 1 elements below it. *)
Nth(C, n) == CHOOSE k \in C : Rank(C, k) = n - 1

LEMMA NthOfRank ==
    ASSUME NEW C, C \subseteq Nat, IsFiniteSet(C), NEW k \in C, NEW n \in Int,
           Rank(C, k) = n - 1
    PROVE  Nth(C, n) = k
BY RankInjective DEF Nth

LEMMA NthExists ==
    ASSUME NEW C, C \subseteq Nat, IsFiniteSet(C), NEW n \in 1..Cardinality(C)
    PROVE  Nth(C, n) \in C /\ Rank(C, Nth(C, n)) = n - 1
<1>1. Cardinality(C) \in Nat
  BY FS_CardinalityType
<1>2. n - 1 \in 0..(Cardinality(C) - 1)
  BY <1>1
<1>3. \E k \in C : Rank(C, k) = n - 1
  BY <1>2, RankSurjective
<1> QED
  BY <1>3 DEF Nth

(* A number above all others comes last. *)
LEMMA NthOfMore ==
    ASSUME NEW C, C \subseteq Nat, IsFiniteSet(C), NEW k \in Nat,
           \A j \in C : j < k
    PROVE  /\ IsFiniteSet(C \cup {k})
           /\ Cardinality(C) \in Nat
           /\ Cardinality(C \cup {k}) = Cardinality(C) + 1
           /\ Nth(C \cup {k}, Cardinality(C) + 1) = k
           /\ \A n \in 1..Cardinality(C) : Nth(C \cup {k}, n) = Nth(C, n)
<1> DEFINE D == C \cup {k}
<1>1. k \notin C
  OBVIOUS
<1>2. /\ IsFiniteSet(D) /\ Cardinality(D) = Cardinality(C) + 1
      /\ Cardinality(C) \in Nat /\ D \subseteq Nat
  BY <1>1, FS_AddElement, FS_CardinalityType
<1>3. Rank(D, k) = Cardinality(C)
  <2>1. \A j \in D : j < k <=> j \in C
    BY <1>1
  <2>2. {j \in D : j < k} = C
    BY <2>1
  <2> QED
    BY <2>2 DEF Rank
<1>4. Nth(D, Cardinality(C) + 1) = k
  <2>1. k \in D /\ Cardinality(C) + 1 \in Int /\ Rank(D, k) = (Cardinality(C) + 1) - 1
    BY <1>2, <1>3
  <2> HIDE DEF D
  <2> QED
    BY <1>2, <2>1, NthOfRank
<1>5. ASSUME NEW n \in 1..Cardinality(C) PROVE Nth(D, n) = Nth(C, n)
  <2> DEFINE i == Nth(C, n)
  <2>1. i \in C /\ Rank(C, i) = n - 1
    BY NthExists
  <2> HIDE DEF i
  <2>2. {j \in D : j < i} = {j \in C : j < i}
    BY <2>1
  <2>3. i \in D /\ Rank(D, i) = n - 1
    BY <2>1, <2>2 DEF Rank
  <2> HIDE DEF D
  <2>4. n \in Int
    OBVIOUS
  <2>5. Nth(D, n) = i
    BY <1>2, <2>3, <2>4, NthOfRank
  <2> QED
    BY <2>5 DEF i
<1> QED
  BY <1>2, <1>4, <1>5

-----------------------------------------------------------------------------
(* The first complete anchor of each article of a page, and those of them  *)
(* that a page gives.                                                      *)
FirstAnchors(source, page) ==
    {k \in DOMAIN page :
        /\ Complete(source, page, k)
        /\ \A j \in 1..(k - 1) : Complete(source, page, j) =>
              ItemUrl(source, page, j) # ItemUrl(source, page, k)}

Taken(source, page, max) ==
    LET first == FirstAnchors(source, page)
    IN  {k \in first : Rank(first, k) < max}

(* The URLs of some anchors, in the order of the page. *)
Listed(source, page, C) ==
    [n \in 1..Cardinality(C) |-> ItemUrl(source, page, Nth(C, n))]

LEMMA FirstCompleteIsListed ==
    ASSUME NEW source, NEW page, NEW max
    PROVE  FirstComplete(source, page, max)
             = Listed(source, page, Taken(source, page, max))
BY DEF FirstComplete, Listed, Taken, FirstAnchors, Nth, Rank

LEMMA ListedOfNone ==
    ASSUME NEW source, NEW page
    PROVE  Listed(source, page, {}) = <<>>
<1>1. Cardinality({}) = 0
  BY FS_EmptySet
<1>2. Listed(source, page, {}) = [n \in 1..0 |-> ItemUrl(source, page, Nth({}, n))]
  BY <1>1 DEF Listed
<1>3. 1..0 = {}
  OBVIOUS
<1> QED
  BY <1>2, <1>3

LEMMA ListedProperties ==
    ASSUME NEW source, NEW page, NEW C, C \subseteq Nat, IsFiniteSet(C)
    PROVE  LET items == Listed(source, page, C)
           IN  /\ items \in Seq({ItemUrl(source, page, j) : j \in C})
               /\ Len(items) = Cardinality(C)
               /\ ToSet(items) = {ItemUrl(source, page, j) : j \in C}
<1> DEFINE items == Listed(source, page, C)
           m == Cardinality(C)
           U == {ItemUrl(source, page, j) : j \in C}
<1>1. m \in Nat
  BY FS_CardinalityType
<1>2. \A n \in 1..m : Nth(C, n) \in C
  BY NthExists
<1>3. \A n \in 1..m : ItemUrl(source, page, Nth(C, n)) \in U
  BY <1>2
<1>4. items = [n \in 1..m |-> ItemUrl(source, page, Nth(C, n))]
  BY DEF Listed
<1>5. items \in [1..m -> U]
  BY <1>3, <1>4
<1>6. items \in Seq(U) /\ Len(items) = m /\ DOMAIN items = 1..m
  <2> HIDE DEF items, m, U
  <2> QED
    BY <1>1, <1>5
<1>7. ASSUME NEW j \in C PROVE \E n \in 1..m : items[n] = ItemUrl(source, page, j)
  <2>1. Rank(C, j) \in 0..(m - 1)
    BY RankBounds
  <2> DEFINE n == Rank(C, j) + 1
  <2>2. n \in 1..m /\ n \in Int /\ Rank(C, j) = n - 1
    BY <1>1, <2>1
  <2> HIDE DEF n
  <2>3. Nth(C, n) = j
    BY <2>2, NthOfRank
  <2> QED
    BY <1>4, <2>2, <2>3
<1>8. ToSet(items) = U
  <2>1. ToSet(items) = {items[n] : n \in 1..m}
    BY <1>6 DEF ToSet
  <2>2. \A n \in 1..m : items[n] \in U
    BY <1>5
  <2>3. \A u \in U : \E n \in 1..m : items[n] = u
    BY <1>7
  <2> HIDE DEF items, m, U
  <2> QED
    BY <2>1, <2>2, <2>3
<1> QED
  BY <1>6, <1>8

LEMMA ListedOfMore ==
    ASSUME NEW source, NEW page, NEW C, C \subseteq Nat, IsFiniteSet(C),
           NEW k \in Nat, \A j \in C : j < k
    PROVE  Listed(source, page, C \cup {k})
             = Append(Listed(source, page, C), ItemUrl(source, page, k))
<1> DEFINE m == Cardinality(C)
           url(n) == ItemUrl(source, page, n)
           a == Listed(source, page, C)
           U == {url(j) : j \in C}
           b == Append(a, url(k))
           c == Listed(source, page, C \cup {k})
<1>1. /\ m \in Nat /\ Cardinality(C \cup {k}) = m + 1
      /\ Nth(C \cup {k}, m + 1) = k
      /\ \A n \in 1..m : Nth(C \cup {k}, n) = Nth(C, n)
  BY NthOfMore
<1>2. a \in Seq(U) /\ Len(a) = m
  BY ListedProperties
<1>3. c = [n \in 1..(m + 1) |-> url(Nth(C \cup {k}, n))]
  BY <1>1 DEF Listed
<1>4. \A n \in 1..m : a[n] = url(Nth(C, n))
  BY DEF Listed
<1>5. /\ b \in Seq(U \cup {url(k)}) /\ Len(b) = m + 1 /\ b[m + 1] = url(k)
      /\ \A n \in 1..m : b[n] = a[n]
  <2> DEFINE V == U \cup {url(k)}
             e == url(k)
  <2>1. a \in Seq(V) /\ e \in V
    BY <1>2
  <2> HIDE DEF a, V, e
  <2>2. /\ Append(a, e) \in Seq(V) /\ Len(Append(a, e)) = m + 1
        /\ Append(a, e)[m + 1] = e
        /\ \A n \in 1..m : Append(a, e)[n] = a[n]
    BY <1>1, <1>2, <2>1
  <2> QED
    BY <2>2 DEF V, e
<1>6. DOMAIN b = 1..(m + 1) /\ b = [n \in DOMAIN b |-> b[n]]
  <2> HIDE DEF b, U, url
  <2> QED
    BY <1>1, <1>5
<1>7. \A n \in 1..(m + 1) : c[n] = b[n]
  <2>1. \A n \in 1..(m + 1) : n \in 1..m \/ n = m + 1
    BY <1>1
  <2> HIDE DEF b
  <2> QED
    BY <1>1, <1>3, <1>4, <1>5, <2>1
<1>8. DOMAIN c = 1..(m + 1) /\ c = [n \in DOMAIN c |-> c[n]]
  BY <1>3
<1> HIDE DEF a, b, c, U
<1>9. c = b
  BY <1>6, <1>7, <1>8
<1> QED
  BY <1>9 DEF a, b, c

-----------------------------------------------------------------------------
Before(C, k) == {j \in C : j < k}

(* Among the first anchors, those taken come before those that are not.    *)
LEMMA TakenFirst ==
    ASSUME NEW source, NEW S, NEW page \in Seq(S), NEW max \in Nat,
           NEW k \in 1..Len(page)
    PROVE  LET first == FirstAnchors(source, page)
               taken == Before(Taken(source, page, max), k)
           IN  /\ IsFiniteSet(first) /\ first \subseteq Nat
               /\ IsFiniteSet(taken) /\ Cardinality(taken) \in Nat
               /\ Cardinality(taken) < max => Before(first, k) = taken
               /\ k \in Taken(source, page, max) =>
                     Before(first, k) = taken /\ Cardinality(taken) < max
<1> DEFINE first == FirstAnchors(source, page)
           all == Taken(source, page, max)
           taken == {j \in all : j < k}
<1>1. first \in SUBSET (1..Len(page))
  BY DEF FirstAnchors
<1>2. IsFiniteSet(1..Len(page))
  BY FS_Interval
<1>3. IsFiniteSet(first) /\ first \subseteq Nat
  BY <1>1, <1>2, FS_Subset
<1>4. all = {j \in first : Rank(first, j) < max}
  BY DEF Taken
<1> HIDE DEF first, all
<1>5. taken \in SUBSET first
  BY <1>4
<1>6. IsFiniteSet(taken) /\ Cardinality(taken) \in Nat
  BY <1>3, <1>5, FS_Subset, FS_CardinalityType
<1>7. ASSUME NEW x \in first, \A j \in first : j < x => j \in taken, x \notin all
      PROVE  Cardinality(taken) >= max
  <2> DEFINE B == {j \in first : j < x}
  <2>1. B \in SUBSET taken
    BY <1>7
  <2>2. Cardinality(B) <= Cardinality(taken) /\ IsFiniteSet(B)
    BY <1>6, <2>1, FS_Subset
  <2>3. Cardinality(B) \in Nat
    BY <2>2, FS_CardinalityType
  <2>4. ~ (Cardinality(B) < max)
    BY <1>4, <1>7 DEF Rank
  <2> HIDE DEF B
  <2> QED
    BY <1>6, <2>2, <2>3, <2>4
<1>8. ASSUME Cardinality(taken) < max PROVE {j \in first : j < k} = taken
  <2> DEFINE T == {j \in first : j < k /\ j \notin taken}
  <2>1. SUFFICES T = {}
    BY <1>5
  <2>2. SUFFICES ASSUME T # {} PROVE FALSE
    OBVIOUS
  <2>3. T \subseteq Nat
    BY <1>3
  <2> HIDE DEF T
  <2>4. PICK x \in T : \A y \in T : x <= y
    BY <2>2, <2>3, SmallestOf
  <2>5. x \in first /\ x < k /\ x \notin taken /\ x \notin all
    BY <2>4 DEF T
  <2>6. ASSUME NEW j \in first, j < x PROVE j \in taken
    <3>1. j \in Nat /\ x \in Nat /\ k \in Nat
      BY <1>3, <2>5
    <3>2. j < k /\ ~ (x <= j)
      BY <2>5, <2>6, <3>1
    <3> QED
      BY <2>4, <3>2 DEF T
  <2>7. Cardinality(taken) >= max
    BY <1>7, <2>5, <2>6
  <2> QED
    BY <1>6, <1>8, <2>7
<1>9. ASSUME k \in all PROVE {j \in first : j < k} = taken /\ Cardinality(taken) < max
  <2> DEFINE B == {j \in first : j < k}
  <2>1. k \in first /\ Cardinality(B) < max
    BY <1>4, <1>9 DEF Rank
  <2>2. B \in SUBSET first /\ taken \in SUBSET B
    BY <1>5
  <2>3. IsFiniteSet(B)
    BY <1>3, <2>2, FS_Subset
  <2>4. Cardinality(taken) <= Cardinality(B) /\ Cardinality(B) \in Nat
    BY <2>2, <2>3, FS_Subset, FS_CardinalityType
  <2>5. Cardinality(taken) < max
    <3> HIDE DEF B, taken
    <3> QED
      BY <1>6, <2>1, <2>4
  <2> QED
    BY <1>8, <2>5
<1> QED
  BY <1>3, <1>6, <1>8, <1>9 DEF first, all, Before

(* An iteration of the loop takes the anchor it is at when it is one of    *)
(* those taken.                                                            *)
LEMMA ScanStep ==
    ASSUME NEW source, NEW S, NEW page \in Seq(S), NEW max \in Nat,
           NEW k \in 1..Len(page)
    PROVE  Scanned(source, page, max,
                   Listed(source, page, {j \in Taken(source, page, max) : j < k}), k)
             = Listed(source, page, {j \in Taken(source, page, max) : j <= k})
<1> DEFINE first == FirstAnchors(source, page)
           all == Taken(source, page, max)
           taken == {j \in all : j < k}
           url(j) == ItemUrl(source, page, j)
           items == Listed(source, page, taken)
<1>1. /\ IsFiniteSet(first) /\ first \subseteq Nat
      /\ IsFiniteSet(taken) /\ Cardinality(taken) \in Nat
      /\ Cardinality(taken) < max => {j \in first : j < k} = taken
      /\ k \in all => {j \in first : j < k} = taken /\ Cardinality(taken) < max
  <2>1. taken = Before(all, k) /\ {j \in first : j < k} = Before(first, k)
    BY DEF Before
  <2> HIDE DEF taken
  <2> QED
    BY <2>1, TakenFirst
<1>2. all \subseteq first /\ all = {j \in first : Rank(first, j) < max}
  BY DEF Taken
<1>3. \A j : j \in first <=> /\ j \in 1..Len(page) /\ Complete(source, page, j)
                             /\ \A i \in 1..(j - 1) : Complete(source, page, i) =>
                                   url(i) # url(j)
  BY DEF FirstAnchors
<1>4. taken \subseteq Nat
  BY <1>1, <1>2
<1>5. Len(items) = Cardinality(taken) /\ ToSet(items) = {url(j) : j \in taken}
  BY <1>1, <1>4, ListedProperties
<1> HIDE DEF first, all, items
<1>6. CASE k \in all
  <2>1. Complete(source, page, k) /\ Len(items) < max
    BY <1>1, <1>2, <1>3, <1>5, <1>6
  <2>2. url(k) \notin ToSet(items)
    <3>1. ASSUME NEW j \in taken PROVE url(j) # url(k)
      <4>1. j \in 1..(k - 1) /\ Complete(source, page, j)
        BY <1>2, <1>3
      <4> QED
        BY <1>2, <1>3, <1>6, <4>1
    <3> QED
      BY <1>5, <3>1
  <2>3. Scanned(source, page, max, items, k) = Append(items, url(k))
    BY <2>1, <2>2 DEF Scanned
  <2>4. {j \in all : j <= k} = taken \cup {k}
    <3>1. \A j \in all : j \in Nat /\ (j <= k <=> j < k \/ j = k)
      BY <1>1, <1>2
    <3> QED
      BY <1>6, <3>1
  <2>5. (\A j \in taken : j < k) /\ k \in Nat
    OBVIOUS
  <2>6. Listed(source, page, taken \cup {k}) = Append(items, url(k))
    <3> HIDE DEF taken, url
    <3>1. Listed(source, page, taken \cup {k})
            = Append(Listed(source, page, taken), ItemUrl(source, page, k))
      BY <1>1, <1>4, <2>5, ListedOfMore
    <3> QED
      BY <3>1 DEF items, url
  <2> QED
    BY <2>3, <2>4, <2>6 DEF all, items, taken
<1>7. CASE k \notin all
  <2>1. ASSUME Len(items) < max, Complete(source, page, k), url(k) \notin ToSet(items)
        PROVE  FALSE
    <3>1. {j \in first : j < k} = taken
      BY <1>1, <1>5, <2>1
    <3>2. k \notin first
      BY <1>1, <1>2, <1>5, <1>7, <2>1, <3>1 DEF Rank
    <3> DEFINE T == {i \in 1..(k - 1) : Complete(source, page, i) /\ url(i) = url(k)}
    <3>3. T # {} /\ T \subseteq Nat
      BY <1>3, <2>1, <3>2
    <3> HIDE DEF T
    <3>4. PICK x \in T : \A y \in T : x <= y
      BY <3>3, SmallestOf
    <3>5. x \in 1..(k - 1) /\ Complete(source, page, x) /\ url(x) = url(k)
      BY <3>4 DEF T
    <3>6. ASSUME NEW i \in 1..(x - 1), Complete(source, page, i), url(i) = url(x)
          PROVE  FALSE
      <4>1. i \in 1..(k - 1) /\ ~ (x <= i)
        BY <3>5, <3>6
      <4>2. i \in T
        BY <3>5, <3>6, <4>1 DEF T
      <4> QED
        BY <3>4, <4>1, <4>2
    <3>7. x \in 1..Len(page) /\ x < k
      BY <3>5
    <3>8. x \in first
      BY <1>3, <3>5, <3>6, <3>7
    <3>9. x \in taken
      BY <3>1, <3>7, <3>8
    <3> QED
      BY <1>5, <2>1, <3>5, <3>9
  <2>2. Scanned(source, page, max, items, k) = items
    BY <2>1 DEF Scanned
  <2>3. {j \in all : j <= k} = taken
    <3>1. \A j \in all : j \in Nat /\ (j <= k <=> j < k \/ j = k)
      BY <1>1, <1>2
    <3> QED
      BY <1>7, <3>1
  <2> QED
    BY <2>2, <2>3 DEF all, items
<1> QED
  BY <1>6, <1>7

(* The loop over the anchors of a page, whatever the page and the limit    *)
(* are, collects the first complete anchor of each article and of these    *)
(* the first max: what the parsers of both sources compute is what they    *)
(* are for.                                                                *)
THEOREM ParsersAreRight ==
    ASSUME NEW source, NEW S, NEW page \in Seq(S), NEW max \in Nat
    PROVE  Parsed(source, page, max) = FirstComplete(source, page, max)
<1> DEFINE items == Scan(source, page, max)
           all == Taken(source, page, max)
           upTo(k) == {j \in all : j <= k}
           P == {k \in 0..Len(page) : items[k] = Listed(source, page, upTo(k))}
<1>1. Len(page) \in Nat
  OBVIOUS
<1>2. items = [k \in 0..Len(page) |->
                 IF k = 0 THEN <<>>
                 ELSE Scanned(source, page, max, items[k - 1], k)]
  BY <1>1, ScanEquation
<1>3. all \subseteq 1..Len(page)
  BY DEF Taken, FirstAnchors
<1> HIDE DEF items, all
<1>4. 0 \in P
  <2>1. upTo(0) = {}
    <3>1. \A j \in all : ~ (j <= 0)
      BY <1>1, <1>3
    <3> QED
      BY <3>1
  <2>2. items[0] = <<>>
    BY <1>1, <1>2
  <2>3. items[0] = Listed(source, page, upTo(0))
    BY <2>1, <2>2, ListedOfNone
  <2> QED
    BY <1>1, <2>3
<1>5. ASSUME NEW k \in 1..Len(page), k - 1 \in P PROVE k \in P
  <2>1. upTo(k - 1) = {j \in all : j < k}
    <3>1. \A j \in all : j <= k - 1 <=> j < k
      BY <1>1, <1>3
    <3> QED
      BY <3>1
  <2>2. items[k] = Scanned(source, page, max, items[k - 1], k)
    BY <1>1, <1>2
  <2>3. items[k - 1] = Listed(source, page, {j \in all : j < k})
    BY <1>5, <2>1
  <2>4. items[k] = Listed(source, page, upTo(k))
    BY <2>2, <2>3, ScanStep DEF all
  <2> QED
    BY <1>1, <2>4
<1>6. \A k \in 1..Len(page) : k - 1 \in P => k \in P
  BY <1>5
<1>7. \A k \in 0..Len(page) : k \in P
  <2> HIDE DEF P
  <2> QED
    BY <1>1, <1>4, <1>6, UpTo
<1>8. items[Len(page)] = Listed(source, page, upTo(Len(page)))
  BY <1>1, <1>7
<1>9. upTo(Len(page)) = all
  <2>1. \A j \in all : j <= Len(page)
    BY <1>1, <1>3
  <2> QED
    BY <2>1
<1>10. items[Len(page)] = FirstComplete(source, page, max)
  BY <1>8, <1>9, FirstCompleteIsListed DEF all
<1> QED
  BY <1>10, ParsedIsScan DEF items

(* What a parser collects are canonical URLs of anchors of the page. *)
LEMMA ParsedUrls ==
    ASSUME NEW source, NEW S, NEW page \in Seq(S), NEW max \in Nat
    PROVE  LET items == Parsed(source, page, max)
           IN  /\ \E T : items \in Seq(T)
               /\ \A n \in DOMAIN items : \E k \in DOMAIN page :
                     /\ items[n] = CollectorUrl(source, page[k].link)
                     /\ items[n] # NoUrl
<1> DEFINE C == Taken(source, page, max)
           U == {ItemUrl(source, page, j) : j \in C}
           items == Parsed(source, page, max)
<1>1. C \in SUBSET (1..Len(page)) /\ \A j \in C : ItemUrl(source, page, j) # NoUrl
  BY DEF Taken, FirstAnchors, Complete
<1>2. C \subseteq Nat /\ IsFiniteSet(C)
  <2>1. IsFiniteSet(1..Len(page))
    BY FS_Interval
  <2> QED
    BY <1>1, <2>1, FS_Subset
<1>3. items = Listed(source, page, C)
  BY ParsersAreRight, FirstCompleteIsListed
<1> HIDE DEF C, items
<1>4. items \in Seq(U)
  BY <1>2, <1>3, ListedProperties
<1>5. ASSUME NEW n \in DOMAIN items
      PROVE  \E k \in DOMAIN page : items[n] = CollectorUrl(source, page[k].link)
                                      /\ items[n] # NoUrl
  <2>1. items[n] \in U
    BY <1>4
  <2>2. PICK j \in C : items[n] = ItemUrl(source, page, j)
    BY <2>1
  <2>3. j \in 1..Len(page) /\ DOMAIN page = 1..Len(page)
    BY <1>1
  <2> QED
    BY <1>1, <2>2, <2>3 DEF ItemUrl
<1> QED
  BY <1>4, <1>5 DEF items

-----------------------------------------------------------------------------
(* A page of the site of the Giants, one of Hochi. *)
LEMMA CatalogueFacts ==
    /\ \A s \in Sources : Len(Catalogue[s].path) \in Nat
    /\ {"giants_official_news", "hochi_giants_articles"} \subseteq Sources
    /\ Catalogue["giants_official_news"] = Site("www.giants.jp", <<"news">>)
    /\ Catalogue["giants_official_schedule"]
         = Site("www.giants.jp", <<"schedule", "first-team">>)
    /\ Catalogue["hochi_giants_articles"] = Site("hochi.news", <<"giants">>)
    /\ \A s \in Sources :
          /\ Catalogue[s].host \notin {"giants.jp", "www.hochi.news"}
          /\ Catalogue[s].host = "www.giants.jp" =>
                s \in {"giants_official_news", "giants_official_schedule"}
          /\ Catalogue[s].host = "hochi.news" => s = "hochi_giants_articles"
BY DEF Catalogue, Site, Sources

LEMMA OnlyMatch ==
    ASSUME NEW l, NEW s \in Sources,
           Catalogue[s].host = l.host, PathMatches(s, l),
           \A t \in Sources \ {s} : Catalogue[t].host = l.host => ~PathMatches(t, l)
    PROVE  Cardinality(Matches(l)) = 1 /\ ResolvedSource(l) = s
<1>1. {t \in Sources : Catalogue[t].host = l.host /\ PathMatches(t, l)} = {s}
  OBVIOUS
<1>2. Matches(l) = {t \in {s} : \A q \in {s} :
                        Len(Catalogue[q].path) <= Len(Catalogue[t].path)}
  BY <1>1 DEF Matches
<1>3. Len(Catalogue[s].path) <= Len(Catalogue[s].path)
  BY CatalogueFacts
<1>4. Matches(l) = {s}
  BY <1>2, <1>3
<1>5. Cardinality({s}) = 1
  BY FS_Singleton
<1>6. \A t : {s} = {t} => t = s
  OBVIOUS
<1> QED
  BY <1>4, <1>5, <1>6 DEF ResolvedSource

(* The canonical URL a collector makes resolves to itself and its source. *)
LEMMA CollectorUrlResolves ==
    ASSUME NEW s \in Collected, NEW l, l.path \in Seq(ToSet(l.path)),
           CollectorUrl(s, l) # NoUrl
    PROVE  /\ Accepted(Link(CollectorUrl(s, l)))
           /\ ResolvedUrl(Link(CollectorUrl(s, l))) = CollectorUrl(s, l)
           /\ ResolvedSource(Link(CollectorUrl(s, l))) = s
<1> DEFINE u == CollectorUrl(s, l)
           host == Catalogue[s].host
<1>0. s \in Sources
  BY CatalogueFacts DEF Collected
<1>1. /\ u = Url(host, l, {})
      /\ Len(l.path) = 2
      /\ s = "giants_official_news" => l.path[1] = "news"
      /\ s = "hochi_giants_articles" => HochiArticle(l) /\ l.path[1] = "articles"
  BY CatalogueFacts DEF CollectorUrl, GiantsUrl, HochiUrl, GiantsArticle, HochiArticle,
        Collected, Site
<1> HIDE DEF u, host
<1>2. /\ Link(u).host = host /\ Link(u).path = l.path /\ Link(u).slash = l.slash
      /\ Link(u).query = {} /\ Link(u).secure /\ ~Link(u).user
      /\ Link(u).port = "default"
  BY <1>1 DEF Link, Url
<1>3. Safe(Link(u))
  BY <1>0, <1>2, HostsAssumption DEF Safe, host
<1>4. PathMatches(s, Link(u))
  <2>1. CASE s = "giants_official_news"
    <3>1. Catalogue[s].path = <<"news">>
      BY <2>1, CatalogueFacts DEF Site
    <3>2. ASSUME NEW S, NEW p \in Seq(S), Len(p) = 2
          PROVE  SubSeq(p, 1, 1) = <<p[1]>>
      <4>1. \A i \in 1..1 : p[i] \in S
        BY <3>2
      <4> DEFINE q == SubSeq(p, 1, 1)
      <4>2. q \in Seq(S) /\ Len(q) = 1 /\ \A i \in 1..1 : q[i] = p[(1 + i) - 1]
        BY <4>1, SubSeqProperties
      <4> HIDE DEF q
      <4>3. q = <<p[1]>>
        BY <4>2
      <4> QED
        BY <4>3 DEF q
    <3>3. SubSeq(l.path, 1, 1) = <<l.path[1]>>
      BY <1>1, <3>2
    <3>4. IsPrefix(<<"news">>, l.path)
      BY <1>1, <2>1, <3>3 DEF IsPrefix
    <3> QED
      BY <1>2, <3>1, <3>4 DEF PathMatches
  <2>2. CASE s = "hochi_giants_articles"
    BY <1>1, <1>2, <2>2 DEF PathMatches, HochiArticle
  <2> QED
    BY <2>1, <2>2 DEF Collected
<1>5. ASSUME NEW t \in Sources \ {s}, Catalogue[t].host = host
      PROVE  ~PathMatches(t, Link(u))
  <2>1. s = "giants_official_news" /\ t = "giants_official_schedule"
    BY <1>5, CatalogueFacts DEF Collected, host, Site
  <2>2. Catalogue[t].path = <<"schedule", "first-team">>
    BY <2>1, CatalogueFacts DEF Site
  <2>3. ~ IsPrefix(<<"schedule", "first-team">>, l.path)
    <3>1. SubSeq(l.path, 1, 2)[1] = l.path[1]
      BY <1>1
    <3> QED
      BY <1>1, <2>1, <3>1 DEF IsPrefix
  <2> QED
    BY <1>2, <2>1, <2>2, <2>3 DEF PathMatches
<1>6. Cardinality(Matches(Link(u))) = 1 /\ ResolvedSource(Link(u)) = s
  BY <1>0, <1>2, <1>4, <1>5, OnlyMatch DEF host
<1>7. ResolvedUrl(Link(u)) = u
  BY <1>1, <1>2 DEF ResolvedUrl, Url
<1> QED
  BY <1>3, <1>6, <1>7 DEF Accepted, u

(* So does the canonical URL the resolver makes. *)
LEMMA ResolvedUrlResolves ==
    ASSUME NEW l, Accepted(l)
    PROVE  /\ Accepted(Link(ResolvedUrl(l)))
           /\ ResolvedUrl(Link(ResolvedUrl(l))) = ResolvedUrl(l)
           /\ ResolvedSource(Link(ResolvedUrl(l))) = ResolvedSource(l)
<1> DEFINE k == Link(ResolvedUrl(l))
<1>1. /\ k.host = l.host /\ k.path = l.path /\ k.slash = l.slash
      /\ k.query = l.query \ Tracking /\ k.secure /\ ~k.user /\ k.port = "default"
  BY DEF Link, ResolvedUrl, Url
<1>2. ResolvedUrl(k) = ResolvedUrl(l)
  BY <1>1 DEF ResolvedUrl, Url
<1> HIDE DEF k
<1>3. Safe(k)
  BY <1>1 DEF Safe, Accepted
<1>4. \A s \in Sources : PathMatches(s, k) <=> PathMatches(s, l)
  BY <1>1 DEF PathMatches, HochiArticle
<1>5. Matches(k) = Matches(l)
  BY <1>1, <1>4 DEF Matches
<1> QED
  BY <1>2, <1>3, <1>5 DEF Accepted, ResolvedSource, k

(* A collector and the resolver make the same of a link without a query of *)
(* its own.                                                                *)
LEMMA MadeAlike ==
    ASSUME NEW s, NEW l, Accepted(l), l.query \subseteq Tracking,
           CollectorUrl(s, l) # NoUrl
    PROVE  ResolvedUrl(l) = CollectorUrl(s, l)
<1>1. Matches(l) # {}
  <2>1. Cardinality({}) = 0
    BY FS_EmptySet
  <2> QED
    BY <2>1 DEF Accepted
<1>2. \E t \in Sources : Catalogue[t].host = l.host
  BY <1>1 DEF Matches
<1>3. l.host \notin {"giants.jp", "www.hochi.news"}
  BY <1>2, CatalogueFacts
<1>4. CollectorUrl(s, l) = Url(l.host, l, {})
  BY <1>3 DEF CollectorUrl, GiantsUrl, HochiUrl
<1>5. l.query \ Tracking = {}
  OBVIOUS
<1> QED
  BY <1>4, <1>5 DEF ResolvedUrl

(* A collector makes of its own URL the same URL. *)
LEMMA MadeAgain ==
    ASSUME NEW s \in Collected, NEW l, NEW t, CollectorUrl(s, l) # NoUrl,
           CollectorUrl(t, Link(CollectorUrl(s, l))) # NoUrl
    PROVE  CollectorUrl(t, Link(CollectorUrl(s, l))) = CollectorUrl(s, l)
<1>1. PICK h \in {"www.giants.jp", "hochi.news"} : CollectorUrl(s, l) = Url(h, l, {})
  BY DEF CollectorUrl, GiantsUrl, HochiUrl
<1> DEFINE k == Link(CollectorUrl(s, l))
<1>2. k.host = h /\ k.path = l.path /\ k.slash = l.slash
  BY <1>1 DEF Link, Url
<1> HIDE DEF k
<1>3. CollectorUrl(t, k) # NoUrl
  BY DEF k
<1>4. CollectorUrl(t, k) = Url(h, k, {})
  BY <1>2, <1>3 DEF CollectorUrl, GiantsUrl, HochiUrl
<1> QED
  BY <1>1, <1>2, <1>4 DEF Url, k

-----------------------------------------------------------------------------
(* Where an intake comes from: a collector, or the resolver.               *)
CameFromPage(i) ==
    \E s \in Collected : \E l :
        /\ l.path \in Seq(ToSet(l.path))
        /\ CollectorUrl(s, l) # NoUrl
        /\ i = CollectedIntake(s, CollectorUrl(s, l))

CameFromOperator(i) ==
    \E l \in Links :
        /\ Accepted(l)
        /\ i = [url |-> ResolvedUrl(l), link |-> l, source |-> ResolvedSource(l)]

Genuine(i) == CameFromPage(i) \/ CameFromOperator(i)

(* The intakes committed or inserted.                                      *)
Inserted == intakes \cup UNION {run[r].mine : r \in Runs}

(* What a run with these items left to register holds of its page.         *)
LeftOf(left) ==
    /\ \E T : left \in Seq(T)
    /\ \A n \in DOMAIN left : Genuine(left[n])

WholePage(state) ==
    state.page # NoPage =>
       /\ state.source \in Collectable /\ state.page \in Pages
       /\ [n \in DOMAIN state.left |-> state.left[n].url]
            = FirstComplete(state.source, state.page, MaxItems)

RunShape(state) == {"pc", "source", "page", "left", "mine", "todo"} \subseteq DOMAIN state

Origins ==
    /\ DOMAIN run = Runs
    /\ \A r \in Runs : RunShape(run[r]) /\ LeftOf(run[r].left) /\ WholePage(run[r])
    /\ \A i \in Inserted : Genuine(i)
    /\ \A i, j \in Inserted : i.url = j.url => i = j

LEMMA GenuineResolves ==
    ASSUME NEW i, Genuine(i)
    PROVE  /\ Accepted(Link(i.url))
           /\ ResolvedUrl(Link(i.url)) = i.url
           /\ ResolvedSource(Link(i.url)) = i.source
<1>1. CASE CameFromPage(i)
  BY <1>1, CollectorUrlResolves DEF CameFromPage, CollectedIntake
<1>2. CASE CameFromOperator(i)
  BY <1>2, ResolvedUrlResolves DEF CameFromOperator
<1> QED
  BY <1>1, <1>2 DEF Genuine

(* The collectors would make of the link of an intake the same URL.        *)
LEMMA GenuineIsCollectors ==
    ASSUME NEW i, Genuine(i), i.link.query \subseteq Tracking, NEW s,
           CollectorUrl(s, i.link) # NoUrl
    PROVE  CollectorUrl(s, i.link) = i.url
<1>1. CASE CameFromPage(i)
  BY <1>1, MadeAgain DEF CameFromPage, CollectedIntake
<1>2. CASE CameFromOperator(i)
  BY <1>2, MadeAlike DEF CameFromOperator
<1> QED
  BY <1>1, <1>2 DEF Genuine

LEMMA OriginsSuffice == Origins => OneIntakePerArticle /\ StoredUrlsResolve
                                   /\ CollectsFirstComplete
<1> SUFFICES ASSUME Origins PROVE OneIntakePerArticle /\ StoredUrlsResolve
                                   /\ CollectsFirstComplete
  OBVIOUS
<1>1. \A i \in intakes : Genuine(i) /\ i \in Inserted
  BY DEF Origins, Inserted
<1>2. ASSUME NEW i \in intakes, NEW j \in intakes,
             i.link.query \cup j.link.query \subseteq Tracking,
             NEW s \in Collected, CollectorUrl(s, i.link) # NoUrl,
             CollectorUrl(s, i.link) = CollectorUrl(s, j.link)
      PROVE  i = j
  <2>1. i.url = CollectorUrl(s, i.link) /\ j.url = CollectorUrl(s, j.link)
    BY <1>1, <1>2, GenuineIsCollectors
  <2> QED
    BY <1>1, <1>2, <2>1 DEF Origins
<1>3. OneIntakePerArticle
  BY <1>2 DEF OneIntakePerArticle
<1>4. StoredUrlsResolve
  BY <1>1, GenuineResolves DEF StoredUrlsResolve
<1>5. CollectsFirstComplete
  BY DEF Origins, WholePage, CollectsFirstComplete, Articles, Runs
<1> QED
  BY <1>3, <1>4, <1>5

LEMMA IdleOrigins ==
    RunShape(Idle) /\ LeftOf(Idle.left) /\ WholePage(Idle) /\ Idle.mine = {}
BY DEF RunShape, LeftOf, WholePage, Idle

(* A step that gives one run a new state and commits what it inserted, or  *)
(* inserts an item nobody has inserted.                                    *)
LEMMA OriginsStep ==
    ASSUME Origins, NEW r \in Runs, NEW state,
           run' = [run EXCEPT ![r] = state],
           RunShape(state), LeftOf(state.left), WholePage(state),
           NEW S, \A i \in S : Genuine(i) /\ \A j \in S \cup Inserted :
                                 i.url = j.url => i = j,
           intakes' \cup state.mine \subseteq intakes \cup run[r].mine \cup S
    PROVE  Origins'
<1>1. DOMAIN run' = Runs /\ run'[r] = state /\ \A s \in Runs \ {r} : run'[s] = run[s]
  BY DEF Origins
<1>2. \A s \in Runs : RunShape(run'[s]) /\ LeftOf(run'[s].left) /\ WholePage(run'[s])
  BY <1>1 DEF Origins
<1>3. Inserted' \subseteq Inserted \cup S
  BY <1>1 DEF Inserted
<1>4. \A i \in Inserted' : Genuine(i)
  BY <1>3 DEF Origins
<1>5. \A i, j \in Inserted' : i.url = j.url => i = j
  BY <1>3 DEF Origins
<1> QED
  BY <1>1, <1>2, <1>4, <1>5 DEF Origins, RunShape, LeftOf, WholePage, Genuine,
     CameFromPage, CameFromOperator

LEMMA OriginsKept ==
    ASSUME Origins, NEW r \in Runs, NEW state,
           run' = [run EXCEPT ![r] = state],
           RunShape(state), LeftOf(state.left), WholePage(state),
           intakes' \cup state.mine \subseteq intakes \cup run[r].mine
    PROVE  Origins'
<1> DEFINE S == {}
<1>1. \A i \in S : Genuine(i) /\ \A j \in S \cup Inserted : i.url = j.url => i = j
  OBVIOUS
<1>2. intakes' \cup state.mine \subseteq intakes \cup run[r].mine \cup S
  OBVIOUS
<1> HIDE DEF S
<1> QED
  BY <1>1, <1>2, OriginsStep

LEMMA CollectOrigins ==
    ASSUME Origins, NEW r \in Discoverers, NEW s \in Collectable, NEW p \in Pages,
           Collect(r, s, p)
    PROVE  Origins'
<1> DEFINE items == Parsed(s, p, MaxItems)
           left == [n \in DOMAIN items |-> CollectedIntake(s, items[n])]
           state == [Idle EXCEPT !.pc = "register", !.source = s, !.page = p,
                                 !.left = left]
<1>0. MaxItems \in Nat /\ Collectable \subseteq Collected
  BY DiscoveryAssumption
<1>1. /\ run' = [run EXCEPT ![r] = state] /\ UNCHANGED intakes
  BY DEF Collect, Items
<1>2. state.left = left /\ state.mine = {} /\ state.page = p /\ state.source = s
      /\ RunShape(state)
  BY DEF Idle, RunShape
<1>3. /\ \E T : items \in Seq(T)
      /\ \A n \in DOMAIN items : \E k \in DOMAIN p :
            items[n] = CollectorUrl(s, p[k].link) /\ items[n] # NoUrl
  BY <1>0, PagesAssumption, ParsedUrls
<1>4. items = FirstComplete(s, p, MaxItems)
  BY <1>0, PagesAssumption, ParsersAreRight
<1> HIDE DEF items, state
<1>5. DOMAIN left = DOMAIN items /\ \E T : left \in Seq(T)
  <2>1. PICK T : items \in Seq(T)
    BY <1>3
  <2>2. DOMAIN items = 1..Len(items) /\ Len(items) \in Nat
    BY <2>1
  <2>3. left \in Seq({left[n] : n \in DOMAIN items})
    BY <2>2
  <2> QED
    BY <2>3
<1>6. ASSUME NEW n \in DOMAIN items
      PROVE  Genuine(left[n]) /\ left[n].url = items[n]
  <2>1. PICK k \in DOMAIN p : items[n] = CollectorUrl(s, p[k].link) /\ items[n] # NoUrl
    BY <1>3
  <2>2. p[k].link.path \in Seq(ToSet(p[k].link.path))
    BY PagesAssumption
  <2>3. left[n] = CollectedIntake(s, CollectorUrl(s, p[k].link))
    BY <2>1
  <2>4. CameFromPage(left[n])
    BY <1>0, <2>1, <2>2, <2>3 DEF CameFromPage
  <2> QED
    BY <2>4 DEF Genuine, CollectedIntake
<1>7. LeftOf(left)
  BY <1>5, <1>6 DEF LeftOf
<1>8. [n \in DOMAIN left |-> left[n].url] = items
  <2>1. items = [n \in DOMAIN items |-> items[n]]
    BY <1>3
  <2> HIDE DEF left
  <2> QED
    BY <1>5, <1>6, <2>1
<1>9. WholePage(state)
  BY <1>2, <1>4, <1>8 DEF WholePage
<1> HIDE DEF left
<1> QED
  BY <1>1, <1>2, <1>7, <1>9, OriginsKept DEF Runs

LEMMA SubmitOrigins ==
    ASSUME Origins, NEW r \in Operators, NEW l \in Links, Submit(r, l)
    PROVE  Origins'
<1> DEFINE i == [url |-> ResolvedUrl(l), link |-> l, source |-> ResolvedSource(l)]
           left == <<i>>
           state == [Idle EXCEPT !.pc = "register", !.source = ResolvedSource(l),
                                 !.left = left]
<1>1. /\ run' = [run EXCEPT ![r] = state] /\ UNCHANGED intakes /\ Accepted(l)
  BY DEF Submit
<1>2. state.left = left /\ state.mine = {} /\ state.page = NoPage
      /\ RunShape(state)
  BY DEF Idle, RunShape
<1>3. Genuine(i)
  BY <1>1 DEF Genuine, CameFromOperator
<1> HIDE DEF i, state
<1>4. LeftOf(left)
  <2>1. left \in Seq({i}) /\ \A n \in DOMAIN left : left[n] = i
    OBVIOUS
  <2> QED
    BY <1>3, <2>1 DEF LeftOf
<1> HIDE DEF left
<1>5. WholePage(state)
  BY <1>2 DEF WholePage
<1> QED
  BY <1>1, <1>2, <1>4, <1>5, OriginsKept DEF Runs

LEMMA TailLeft ==
    ASSUME NEW left, LeftOf(left), left # <<>>
    PROVE  LeftOf(Tail(left)) /\ Genuine(Head(left))
<1>1. PICK T : left \in Seq(T)
  BY DEF LeftOf
<1>2. /\ Tail(left) \in Seq(T) /\ Head(left) = left[1] /\ 1 \in DOMAIN left
      /\ \A n \in DOMAIN Tail(left) : n + 1 \in DOMAIN left /\ Tail(left)[n] = left[n + 1]
  BY <1>1
<1> QED
  BY <1>2 DEF LeftOf

LEMMA FindDuplicateOrigins ==
    ASSUME Origins, NEW r \in Runs, FindDuplicate(r)
    PROVE  Origins'
<1> DEFINE state == [run[r] EXCEPT !.left = Tail(run[r].left), !.page = NoPage]
<1>1. run' = [run EXCEPT ![r] = state] /\ UNCHANGED intakes
      /\ run[r].left # <<>>
  BY DEF FindDuplicate, Registering
<1>2. RunShape(run[r]) /\ LeftOf(run[r].left)
  BY DEF Origins
<1>3. /\ state.left = Tail(run[r].left) /\ state.mine = run[r].mine
      /\ state.page = NoPage /\ RunShape(state)
  BY <1>2 DEF RunShape
<1> HIDE DEF state
<1>4. LeftOf(state.left)
  BY <1>1, <1>2, <1>3, TailLeft
<1>5. WholePage(state)
  BY <1>3 DEF WholePage
<1>6. intakes' \cup state.mine \subseteq intakes \cup run[r].mine
  BY <1>1, <1>3
<1> QED
  BY <1>1, <1>3, <1>4, <1>5, <1>6, OriginsKept

LEMMA InsertOrigins ==
    ASSUME Origins, NEW r \in Runs, Insert(r)
    PROVE  Origins'
<1> DEFINE i == Head(run[r].left)
           state == [run[r] EXCEPT !.left = Tail(run[r].left), !.page = NoPage,
                                   !.mine = run[r].mine \cup {i},
                                   !.todo = Append(run[r].todo, i.url)]
<1>1. run' = [run EXCEPT ![r] = state] /\ UNCHANGED intakes
      /\ run[r].left # <<>> /\ i.url \notin Stored(r) /\ ~Waits(r) /\ Registering(r)
  BY DEF Insert, Registering
<1>2. RunShape(run[r]) /\ LeftOf(run[r].left)
  BY DEF Origins
<1>3. /\ state.left = Tail(run[r].left) /\ state.mine = run[r].mine \cup {i}
      /\ state.page = NoPage /\ RunShape(state)
  BY <1>2 DEF RunShape
<1>4. Genuine(i)
  BY <1>1, <1>2, TailLeft
<1>5. ASSUME NEW j \in Inserted PROVE i.url # j.url
  <2>1. CASE j \in intakes \cup run[r].mine
    BY <1>1, <2>1, UrlsOfIn DEF Stored
  <2>2. CASE j \notin intakes \cup run[r].mine
    <3>1. PICK s \in Runs : s # r /\ j \in run[s].mine
      BY <2>2 DEF Inserted
    <3>2. j.url \in UrlsOf(run[s].mine)
      BY <3>1, UrlsOfIn
    <3> QED
      BY <1>1, <3>1, <3>2 DEF Waits, WaitsFor
  <2> QED
    BY <2>1, <2>2
<1> HIDE DEF state, i
<1>6. LeftOf(state.left)
  BY <1>1, <1>2, <1>3, TailLeft
<1>7. WholePage(state)
  BY <1>3 DEF WholePage
<1>8. \A k \in {i} : Genuine(k) /\ \A j \in {i} \cup Inserted : k.url = j.url => k = j
  BY <1>4, <1>5
<1> QED
  BY <1>1, <1>3, <1>6, <1>7, <1>8, OriginsStep

LEMMA CommitOrigins ==
    ASSUME Origins, NEW r \in Runs, Commit(r)
    PROVE  Origins'
<1> DEFINE state == [Idle EXCEPT !.pc = "enqueue", !.todo = run[r].todo]
<1>1. run' = [run EXCEPT ![r] = state] /\ intakes' = intakes \cup run[r].mine
  BY DEF Commit
<1>2. /\ state.left = Idle.left /\ state.mine = {}
      /\ state.page = NoPage /\ RunShape(state)
  BY DEF Idle, RunShape
<1> HIDE DEF state
<1>3. LeftOf(state.left) /\ WholePage(state)
  BY <1>2, IdleOrigins DEF WholePage
<1> QED
  BY <1>1, <1>2, <1>3, OriginsKept

LEMMA EnqueueOrigins ==
    ASSUME Origins, NEW r \in Runs, Enqueue(r)
    PROVE  Origins'
<1> DEFINE state == [run[r] EXCEPT !.todo = Tail(run[r].todo)]
<1>1. run' = [run EXCEPT ![r] = state] /\ UNCHANGED intakes
  BY DEF Enqueue
<1>2. RunShape(run[r]) /\ LeftOf(run[r].left) /\ WholePage(run[r])
  BY DEF Origins
<1>3. /\ state.left = run[r].left /\ state.mine = run[r].mine
      /\ state.page = run[r].page /\ state.source = run[r].source /\ RunShape(state)
  BY <1>2 DEF RunShape
<1> HIDE DEF state
<1>4. LeftOf(state.left) /\ WholePage(state)
  BY <1>2, <1>3 DEF WholePage
<1>5. intakes' \cup state.mine \subseteq intakes \cup run[r].mine
  BY <1>1, <1>3
<1> QED
  BY <1>1, <1>3, <1>4, <1>5, OriginsKept

LEMMA EndOrigins ==
    ASSUME Origins, NEW r \in Runs, run' = [run EXCEPT ![r] = Idle],
           UNCHANGED intakes
    PROVE  Origins'
BY IdleOrigins, OriginsKept

LEMMA OriginsInvariance == Spec => []Origins
<1>1. Init => Origins
  <2> SUFFICES ASSUME Init PROVE Origins
    OBVIOUS
  <2>1. DOMAIN run = Runs /\ \A r \in Runs : run[r] = Idle
    BY DEF Init
  <2>2. Inserted = {}
    BY <2>1, IdleOrigins DEF Inserted, Init
  <2> QED
    BY <2>1, <2>2, IdleOrigins DEF Origins
<1>2. Origins /\ [Next]_vars => Origins'
  <2> SUFFICES ASSUME Origins, [Next]_vars PROVE Origins'
    OBVIOUS
  <2>1. ASSUME NEW r \in Runs, Step(r) \/ Enqueue(r)
        PROVE  Origins'
    BY <2>1, FindDuplicateOrigins, InsertOrigins, CommitOrigins, EnqueueOrigins,
       EndOrigins DEF Step, Finish, Abort
  <2>2. CASE UNCHANGED vars
    <3>1. run' = run /\ intakes' = intakes /\ Inserted' = Inserted
      BY <2>2 DEF vars, Inserted
    <3> QED
      BY <3>1 DEF Origins
  <2> QED
    BY <2>1, <2>2, CollectOrigins, SubmitOrigins DEF Next, Begin
<1> QED
  BY <1>1, <1>2, PTL DEF Spec

-----------------------------------------------------------------------------
(* Whatever pages the sources show and whatever links are typed in, and    *)
(* however the runs overlap or die, an article never makes two intakes,    *)
(* unless its links carry a query of their own.                            *)
THEOREM OneIntake == Spec => []OneIntakePerArticle
BY OriginsInvariance, OriginsSuffice, PTL

(* The URL of every intake, typed in again, is accepted as it stands and   *)
(* belongs to the source of the intake, whatever the pages and links are.  *)
THEOREM UrlsResolve == Spec => []StoredUrlsResolve
BY OriginsInvariance, OriginsSuffice, PTL

(* Whatever a page shows, a discovery collects the first complete anchor   *)
(* of each of its articles, and of these the first max_items.              *)
THEOREM FirstCompleteCollected == Spec => []CollectsFirstComplete
BY OriginsInvariance, OriginsSuffice, PTL

=============================================================================

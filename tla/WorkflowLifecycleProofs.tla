----------------------- MODULE WorkflowLifecycleProofs -----------------------
(***************************************************************************)
(* Counting executions: an execution of a run is never multiplied by a     *)
(* crash, an exception or a stalled check, and the engine with its         *)
(* requests, queue and slots implements RunLifecycle.  Then the console    *)
(* beside the engine, and which of its guarantees survive it.  All for     *)
(* every set of workflows, keys, requests, slots and administrators and    *)
(* every value of the bounds.                                              *)
(***************************************************************************)
EXTENDS WorkflowRunsProofs, PlatformRuns, FiniteSetTheorems

Bit(b) == IF b THEN 1 ELSE 0

\* What the refinement mapping counts.
CancelsOf(r) == {h \in Handler : pc[h] = "cancel" /\ cur[h] = r}
Owed(r) == Cardinality(WorkersOf(r)) + Cardinality(JobsOf(r))
Asked(r) == Cardinality(CancelsOf(r))

-----------------------------------------------------------------------------
\* Two sets with nothing in common.
LEMMA DisjointUnion ==
  ASSUME NEW S, NEW T, IsFiniteSet(S), IsFiniteSet(T), S \cap T = {}
  PROVE  /\ IsFiniteSet(S \cup T)
         /\ Cardinality(S \cup T) = Cardinality(S) + Cardinality(T)
  <1>1. Cardinality(S \cap T) = 0
    BY FS_EmptySet
  <1>2. /\ IsFiniteSet(S \cup T)
        /\ Cardinality(S \cup T) = Cardinality(S) + Cardinality(T) - Cardinality(S \cap T)
    BY FS_Union
  <1>3. Cardinality(S) \in Nat /\ Cardinality(T) \in Nat
    BY FS_CardinalityType
  <1> QED BY <1>1, <1>2, <1>3

\* The image of a set under a function that is one-to-one on it.
LEMMA ImageCount ==
  ASSUME NEW S, NEW T, NEW g \in [S -> T], IsFiniteSet(S),
         \A x, y \in S : g[x] = g[y] => x = y,
         \A z \in T : \E x \in S : g[x] = z
  PROVE  IsFiniteSet(T) /\ Cardinality(T) = Cardinality(S)
  <1>1. g \in Bijection(S, T)
    BY DEF Bijection, Injection, Surjection, IsInjective
  <1>2. ExistsBijection(S, T)
    BY <1>1 DEF ExistsBijection
  <1> QED BY <1>2, FS_Bijection

\* Two sets that differ at most in x.
LEMMA MoveOne ==
  ASSUME NEW S, NEW T, NEW x, IsFiniteSet(S), S \ {x} = T \ {x}
  PROVE  /\ IsFiniteSet(T)
         /\ Cardinality(T) = (Cardinality(S) - Bit(x \in S)) + Bit(x \in T)
         /\ Cardinality(T) \in Nat /\ Cardinality(S) \in Nat
  <1>1. /\ IsFiniteSet(S \ {x})
        /\ Cardinality(S \ {x}) = Cardinality(S) - Bit(x \in S)
    BY FS_RemoveElement, FS_CardinalityType DEF Bit
  <1>2. Cardinality(S \ {x}) \in Nat /\ Cardinality(S) \in Nat
    BY <1>1, FS_CardinalityType
  <1>3. CASE x \in T
    <2>1. T = (S \ {x}) \cup {x} /\ x \notin S \ {x}
      BY <1>3
    <2>2. IsFiniteSet(T) /\ Cardinality(T) = Cardinality(S \ {x}) + 1
      BY <1>1, <2>1, FS_AddElement
    <2> QED BY <1>1, <1>2, <1>3, <2>2 DEF Bit
  <1>4. CASE x \notin T
    <2>1. T = S \ {x}
      BY <1>4
    <2> QED BY <1>1, <1>2, <1>4, <2>1 DEF Bit
  <1> QED BY <1>3, <1>4

LEMMA CountsFinite ==
  ASSUME NEW r
  PROVE  /\ IsFiniteSet(Proc)
         /\ IsFiniteSet(WorkersOf(r)) /\ IsFiniteSet(JobsOf(r)) /\ IsFiniteSet(CancelsOf(r))
         /\ Cardinality(WorkersOf(r)) \in Nat /\ Cardinality(JobsOf(r)) \in Nat
         /\ Owed(r) \in Nat /\ Asked(r) \in Nat
         /\ IsFiniteSet(WorkersOf(r)') /\ IsFiniteSet(JobsOf(r)')
         /\ Owed(r)' \in Nat /\ Asked(r)' \in Nat
  <1>1. IsFiniteSet(Proc) /\ IsFiniteSet(Handler) /\ IsFiniteSet(Job)
    <2>1. IsFiniteSet(Handler) /\ IsFiniteSet(Slot)
      BY ProcAssumption
    <2>2. IsFiniteSet(Handler \cup Slot)
      BY <2>1, FS_Union
    <2>3. 1 \in Int /\ MaxJobs \in Int
      BY BoundsAssumption
    <2>4. IsFiniteSet(1..MaxJobs)
      BY <2>3, FS_Interval
    <2> QED BY <2>1, <2>2, <2>4 DEF Proc, Job
  <1>2. WorkersOf(r) \in SUBSET Proc /\ JobsOf(r) \in SUBSET Job /\ CancelsOf(r) \in SUBSET Handler
    BY DEF WorkersOf, JobsOf, CancelsOf
  <1>4. WorkersOf(r)' \in SUBSET Proc /\ JobsOf(r)' \in SUBSET Job /\ CancelsOf(r)' \in SUBSET Handler
    BY DEF WorkersOf, JobsOf, CancelsOf
  <1>5. IsFiniteSet(WorkersOf(r)') /\ IsFiniteSet(JobsOf(r)') /\ IsFiniteSet(CancelsOf(r)')
    BY <1>1, <1>4, FS_Subset
  <1>3. IsFiniteSet(WorkersOf(r)) /\ IsFiniteSet(JobsOf(r)) /\ IsFiniteSet(CancelsOf(r))
    BY <1>1, <1>2, FS_Subset
  <1>6. Owed(r) \in Nat /\ Asked(r) \in Nat /\ Cardinality(WorkersOf(r)) \in Nat /\ Cardinality(JobsOf(r)) \in Nat
    BY <1>3, FS_CardinalityType DEF Owed, Asked
  <1>7. Owed(r)' \in Nat /\ Asked(r)' \in Nat
    BY <1>5, FS_CardinalityType DEF Owed, Asked
  <1> QED BY <1>1, <1>3, <1>5, <1>6, <1>7

\* Only p moves, only j changes among the jobs, and only its lock is taken
\* or released.
Moves(p, j) ==
    /\ \A q \in Proc \ {p} : pc'[q] = pc[q] /\ cur'[q] = cur[q]
    /\ \A i \in Job \ {j} : job'[i] = job[i]
    /\ \A q \in Slot : held'[q] = held[q] \/ {held[q], held'[q]} \subseteq {j, Nil}

LEMMA Counted ==
  ASSUME NEW p, NEW j, Moves(p, j), NEW r
  PROVE  /\ Owed(r) \in Nat /\ Owed(r)' \in Nat /\ Asked(r) \in Nat /\ Asked(r)' \in Nat
         /\ Owed(r)' = (((Owed(r) - Bit(p \in WorkersOf(r))) - Bit(j \in JobsOf(r)))
                          + Bit(p \in WorkersOf(r)')) + Bit(j \in JobsOf(r)')
         /\ Asked(r)' = (Asked(r) - Bit(p \in CancelsOf(r))) + Bit(p \in CancelsOf(r)')
  <1>1. WorkersOf(r) \ {p} = WorkersOf(r)' \ {p}
    BY DEF Moves, WorkersOf
  <1>2. CancelsOf(r) \ {p} = CancelsOf(r)' \ {p}
    BY DEF Moves, CancelsOf, Proc
  <1>3. JobsOf(r) \ {j} = JobsOf(r)' \ {j}
    <2>1. \A i \in Job \ {j} : Unlocked(i) <=> Unlocked(i)'
      <3> SUFFICES ASSUME NEW i \in Job \ {j} PROVE Unlocked(i) <=> Unlocked(i)'
        OBVIOUS
      <3>1. job'[i] = job[i] /\ \A s \in Slot : held[s] = i <=> held'[s] = i
        BY NilAssumption DEF Moves
      <3> QED BY <3>1 DEF Unlocked
    <2> QED BY <2>1 DEF Moves, JobsOf
  <1>4. /\ IsFiniteSet(WorkersOf(r)) /\ IsFiniteSet(JobsOf(r)) /\ IsFiniteSet(CancelsOf(r))
    BY CountsFinite
  <1> DEFINE w == WorkersOf(r)
             w2 == WorkersOf(r)'
             i == JobsOf(r)
             i2 == JobsOf(r)'
             c == CancelsOf(r)
             c2 == CancelsOf(r)'
  <1>5. /\ Owed(r) = Cardinality(w) + Cardinality(i) /\ Owed(r)' = Cardinality(w2) + Cardinality(i2)
        /\ Asked(r) = Cardinality(c) /\ Asked(r)' = Cardinality(c2)
    BY DEF Owed, Asked
  <1> HIDE DEF w, w2, i, i2, c, c2
  <1>6. /\ Cardinality(w2) = (Cardinality(w) - Bit(p \in w)) + Bit(p \in w2)
        /\ Cardinality(w) \in Nat /\ Cardinality(w2) \in Nat
    BY <1>1, <1>4, MoveOne DEF w, w2
  <1>7. /\ Cardinality(i2) = (Cardinality(i) - Bit(j \in i)) + Bit(j \in i2)
        /\ Cardinality(i) \in Nat /\ Cardinality(i2) \in Nat
    BY <1>3, <1>4, MoveOne DEF i, i2
  <1>8. /\ Cardinality(c2) = (Cardinality(c) - Bit(p \in c)) + Bit(p \in c2)
        /\ Cardinality(c) \in Nat /\ Cardinality(c2) \in Nat
    BY <1>2, <1>4, MoveOne DEF c, c2
  <1>9. \A b : Bit(b) \in {0, 1}
    BY DEF Bit
  <1>10. /\ Owed(r) \in Nat /\ Owed(r)' \in Nat /\ Asked(r) \in Nat /\ Asked(r)' \in Nat
         /\ Owed(r)' = (((Owed(r) - Bit(p \in w)) - Bit(j \in i)) + Bit(p \in w2)) + Bit(j \in i2)
         /\ Asked(r)' = (Asked(r) - Bit(p \in c)) + Bit(p \in c2)
    BY <1>5, <1>6, <1>7, <1>8, <1>9
  <1> QED BY <1>10 DEF w, w2, i, i2, c, c2

-----------------------------------------------------------------------------
(***************************************************************************)
(* The actions of RunLifecycle, run by run.                                *)
(***************************************************************************)
SameStatus(r) == run'[r].st = run[r].st
SameOwed(r) == Owed(r)' = Owed(r)
SameAsked(r) == Asked(r)' = Asked(r)
SameLost(r) == r \in lost' <=> r \in lost
Still(r) == SameStatus(r) /\ SameOwed(r) /\ SameAsked(r) /\ SameLost(r)

Created(r) ==
    /\ run[r].st = "none" /\ run'[r].st = "PENDING"
    /\ Owed(r)' = Owed(r) + 1 /\ SameAsked(r) /\ SameLost(r)
Retried(r) ==
    /\ Exists(r) /\ run'[r].st = "PENDING"
    /\ \/ Owed(r)' = Owed(r) + 1 /\ r \notin lost'
       \/ SameOwed(r) /\ r \in lost'
    /\ SameAsked(r)
CancelAsked(r) ==
    /\ run[r].st \in Open /\ SameStatus(r)
    /\ Asked(r)' = Asked(r) + 1 /\ SameOwed(r) /\ SameLost(r)
Cancelled(r) ==
    /\ Exists(r) /\ Asked(r) > 0 /\ run'[r].st = "CANCELLED"
    /\ Asked(r)' = Asked(r) - 1 /\ SameOwed(r) /\ SameLost(r)
Worked(r) ==
    /\ Exists(r) /\ Owed(r) > 0 /\ run'[r].st \in {"RUNNING", "COMPLETED", "FAILED"}
    /\ SameOwed(r) /\ SameAsked(r) /\ SameLost(r)
Finished(r) ==
    /\ Owed(r) > 0 /\ (run[r].st \in Open => Owed(r) > 1 \/ r \in lost)
    /\ Owed(r)' = Owed(r) - 1 /\ SameStatus(r) /\ SameAsked(r) /\ SameLost(r)
Redelivered(r) ==
    /\ Owed(r) > 0
    /\ Owed(r)' = Owed(r) + 1 /\ SameStatus(r) /\ SameAsked(r) /\ SameLost(r)

StepOf(r) ==
    \/ Created(r) \/ Retried(r) \/ CancelAsked(r) \/ Cancelled(r)
    \/ Worked(r) \/ Finished(r) \/ Redelivered(r)

Deleted ==
    \A r \in Run :
        /\ SameOwed(r) /\ SameAsked(r) /\ SameLost(r)
        /\ SameStatus(r) \/ (run[r].st # "none" /\ run'[r].st = "gone")

LostSome ==
    \A r \in Run :
        /\ SameStatus(r) /\ Owed(r)' <= Owed(r) /\ Asked(r)' <= Asked(r)
        /\ r \in lost' <=> r \in lost \/ Owed(r)' < Owed(r)

LifecycleStep ==
    \/ \E r \in Run : StepOf(r) /\ \A q \in Run \ {r} : Still(q)
    \/ Deleted
    \/ LostSome

LEMMA Implemented ==
  ASSUME lost \subseteq Run, lost' \subseteq Run, LifecycleStep
  PROVE  Lifecycle!Next
  <1> DEFINE st == [r \in Run |-> run[r].st]
             owed == [r \in Run |-> Cardinality(WorkersOf(r)) + Cardinality(JobsOf(r))]
             asks == [r \in Run |-> Cardinality({h \in Handler : pc[h] = "cancel" /\ cur[h] = r})]
  <1>1. \A r \in Run : Owed(r)' \in Nat /\ Asked(r)' \in Nat /\ Owed(r) \in Nat /\ Asked(r) \in Nat
    BY CountsFinite
  <1>2. /\ st = [r \in Run |-> run[r].st] /\ st' = [r \in Run |-> run'[r].st]
        /\ owed = [r \in Run |-> Owed(r)] /\ owed' = [r \in Run |-> Owed(r)']
        /\ asks = [r \in Run |-> Asked(r)] /\ asks' = [r \in Run |-> Asked(r)']
    BY DEF Owed, Asked, CancelsOf
  <1>3. \A r \in Run :
        /\ Lifecycle!Create(r) <=>
              /\ st[r] = "none" /\ st' = [st EXCEPT ![r] = "PENDING"]
              /\ owed' = [owed EXCEPT ![r] = @ + 1] /\ UNCHANGED <<asks, lost>>
        /\ Lifecycle!Retry(r) <=>
              /\ st[r] \in Lifecycle!Status /\ st' = [st EXCEPT ![r] = "PENDING"]
              /\ \/ owed' = [owed EXCEPT ![r] = @ + 1] /\ lost' = lost \ {r}
                 \/ lost' = lost \cup {r} /\ UNCHANGED owed
              /\ UNCHANGED asks
        /\ Lifecycle!AskCancel(r) <=>
              /\ st[r] \in Lifecycle!Open
              /\ asks' = [asks EXCEPT ![r] = @ + 1] /\ UNCHANGED <<st, owed, lost>>
        /\ Lifecycle!Cancel(r) <=>
              /\ st[r] \in Lifecycle!Status /\ asks[r] > 0 /\ st' = [st EXCEPT ![r] = "CANCELLED"]
              /\ asks' = [asks EXCEPT ![r] = @ - 1] /\ UNCHANGED <<owed, lost>>
        /\ Lifecycle!Work(r) <=>
              /\ st[r] \in Lifecycle!Status /\ owed[r] > 0
              /\ \E s \in {"RUNNING", "COMPLETED", "FAILED"} : st' = [st EXCEPT ![r] = s]
              /\ UNCHANGED <<owed, asks, lost>>
        /\ Lifecycle!Finish(r) <=>
              /\ owed[r] > 0 /\ (st[r] \in Lifecycle!Open => owed[r] > 1 \/ r \in lost)
              /\ owed' = [owed EXCEPT ![r] = @ - 1] /\ UNCHANGED <<st, asks, lost>>
        /\ Lifecycle!Redeliver(r) <=>
              /\ owed[r] > 0
              /\ owed' = [owed EXCEPT ![r] = @ + 1] /\ UNCHANGED <<st, asks, lost>>
    BY DEF Lifecycle!Create, Lifecycle!Retry, Lifecycle!AskCancel, Lifecycle!Cancel, Lifecycle!Work,
           Lifecycle!Finish, Lifecycle!Redeliver
  <1>4. \A R : Lifecycle!Delete(R) <=>
                  /\ st' = [r \in Run |-> IF r \in R THEN "gone" ELSE st[r]]
                  /\ UNCHANGED <<owed, asks, lost>>
    BY DEF Lifecycle!Delete
  <1>5. Lifecycle!Lose <=>
          /\ owed' \in [Run -> Nat] /\ asks' \in [Run -> Nat]
          /\ \A r \in Run : owed'[r] <= owed[r] /\ asks'[r] <= asks[r]
          /\ lost' = lost \cup {r \in Run : owed'[r] < owed[r]}
          /\ UNCHANGED st
    BY DEF Lifecycle!Lose
  <1>6. Lifecycle!Next <=>
          \/ \E r \in Run : \/ Lifecycle!Create(r) \/ Lifecycle!Retry(r) \/ Lifecycle!AskCancel(r)
                            \/ Lifecycle!Cancel(r) \/ Lifecycle!Work(r) \/ Lifecycle!Finish(r)
                            \/ Lifecycle!Redeliver(r)
          \/ \E R \in SUBSET {r \in Run : st[r] # "none"} : Lifecycle!Delete(R)
          \/ Lifecycle!Lose
    BY DEF Lifecycle!Next
  <1>7. Lifecycle!Status = RunStatus /\ Lifecycle!Open = Open
    BY DEF Lifecycle!Status, Lifecycle!Open, RunStatus, Open
  <1> HIDE DEF st, owed, asks
  <1>8. ASSUME NEW r \in Run, StepOf(r), \A q \in Run \ {r} : Still(q) PROVE Lifecycle!Next
    <2>1. \A q \in Run \ {r} : SameStatus(q) /\ SameOwed(q) /\ SameAsked(q) /\ SameLost(q)
      BY <1>8 DEF Still
    <2>2. /\ st' = [st EXCEPT ![r] = run'[r].st]
          /\ owed' = [owed EXCEPT ![r] = Owed(r)']
          /\ asks' = [asks EXCEPT ![r] = Asked(r)']
      BY <1>2, <2>1 DEF SameStatus, SameOwed, SameAsked
    <2>3. /\ r \notin lost' => lost' = lost \ {r}
          /\ r \in lost' => lost' = lost \cup {r}
      BY <2>1 DEF SameLost
    <2>4. st[r] = run[r].st /\ owed[r] = Owed(r) /\ asks[r] = Asked(r)
      BY <1>2
    <2>5. /\ SameStatus(r) => st' = st
          /\ SameOwed(r) => owed' = owed
          /\ SameAsked(r) => asks' = asks
      BY <1>2, <2>2, <2>4 DEF SameStatus, SameOwed, SameAsked
    <2>6. SameLost(r) => lost' = lost
      BY <2>1 DEF SameLost
    <2>7. CASE Created(r)
      BY <1>3, <1>6, <2>2, <2>4, <2>5, <2>6, <2>7 DEF Created
    <2>8. CASE Retried(r)
      BY <1>3, <1>6, <1>7, <2>2, <2>3, <2>4, <2>5, <2>8 DEF Retried, Exists
    <2>9. CASE CancelAsked(r)
      BY <1>3, <1>6, <1>7, <2>2, <2>4, <2>5, <2>6, <2>9 DEF CancelAsked
    <2>10. CASE Cancelled(r)
      BY <1>3, <1>6, <1>7, <2>2, <2>4, <2>5, <2>6, <2>10 DEF Cancelled, Exists
    <2>11. CASE Worked(r)
      BY <1>3, <1>6, <1>7, <2>2, <2>4, <2>5, <2>6, <2>11 DEF Worked, Exists
    <2>12. CASE Finished(r)
      BY <1>3, <1>6, <1>7, <2>2, <2>4, <2>5, <2>6, <2>12 DEF Finished
    <2>13. CASE Redelivered(r)
      BY <1>3, <1>6, <2>2, <2>4, <2>5, <2>6, <2>13 DEF Redelivered
    <2> QED BY <1>8, <2>7, <2>8, <2>9, <2>10, <2>11, <2>12, <2>13 DEF StepOf
  <1>9. CASE Deleted
    <2> DEFINE R == {r \in Run : run'[r].st # run[r].st}
    <2>1. R \in SUBSET {r \in Run : st[r] # "none"}
      BY <1>2, <1>9 DEF Deleted, SameStatus
    <2>2. st' = [r \in Run |-> IF r \in R THEN "gone" ELSE st[r]]
      BY <1>2, <1>9 DEF Deleted, SameStatus
    <2>3. UNCHANGED <<owed, asks, lost>>
      BY <1>2, <1>9 DEF Deleted, SameOwed, SameAsked, SameLost
    <2> QED BY <1>4, <1>6, <2>1, <2>2, <2>3
  <1>10. CASE LostSome
    <2>1. UNCHANGED st
      BY <1>2, <1>10 DEF LostSome, SameStatus
    <2>2. /\ owed' \in [Run -> Nat] /\ asks' \in [Run -> Nat]
          /\ \A r \in Run : owed'[r] <= owed[r] /\ asks'[r] <= asks[r]
          /\ \A r \in Run : r \in lost' <=> r \in lost \/ owed'[r] < owed[r]
      BY <1>1, <1>2, <1>10 DEF LostSome
    <2> QED BY <1>5, <1>6, <2>1, <2>2
  <1> QED BY <1>8, <1>9, <1>10 DEF LifecycleStep

-----------------------------------------------------------------------------
(***************************************************************************)
(* What a step owes is paid for by what it grants.                         *)
(***************************************************************************)
PaidFor == \A r \in Run : Owed(r)' + grants[r] <= Owed(r) + grants'[r]
Accounted == (OpenCarried => LifecycleStep) /\ PaidFor

\* A row that was not inserted has no workflow and no grants.
Blank == \A r \in Run : run[r].st = "none" => run[r].wf = Nil /\ grants[r] = 0

Typed == Base /\ Base'

LEMMA LoseAccounted ==
  ASSUME Typed, LostSome, \A r \in Run : grants'[r] >= grants[r]
  PROVE  Accounted
  <1>1. \A r \in Run : grants[r] \in Nat /\ grants'[r] \in Nat
    BY DEF Typed, Base, TypeOK
  <1>2. \A r \in Run : Owed(r) \in Nat /\ Owed(r)' \in Nat
    BY CountsFinite
  <1>3. \A r \in Run : Owed(r)' <= Owed(r)
    BY DEF LostSome
  <1>4. PaidFor
    BY <1>1, <1>2, <1>3 DEF PaidFor
  <1> QED BY <1>4 DEF Accounted, LifecycleStep

LEMMA QuietAccounted ==
  ASSUME Typed, \A r \in Run : Still(r) /\ grants'[r] >= grants[r]
  PROVE  Accounted
  <1>1. \A r \in Run : Owed(r) \in Nat /\ Asked(r) \in Nat
    BY CountsFinite
  <1>2. LostSome
    BY <1>1 DEF LostSome, Still, SameStatus, SameOwed, SameAsked, SameLost
  <1> QED BY <1>2, LoseAccounted

LEMMA OneAccounted ==
  ASSUME Typed, NEW r \in Run, StepOf(r), \A q \in Run \ {r} : Still(q) /\ grants'[q] >= grants[q],
         grants'[r] >= grants[r], Owed(r)' > Owed(r) => grants'[r] >= grants[r] + 1
  PROVE  Accounted
  <1>1. \A q \in Run : grants[q] \in Nat /\ grants'[q] \in Nat
    BY DEF Typed, Base, TypeOK
  <1>2. \A q \in Run : Owed(q) \in Nat /\ Owed(q)' \in Nat
    BY CountsFinite
  <1>3. Owed(r)' <= Owed(r) + 1
    BY <1>2
    DEF StepOf, Created, Retried, CancelAsked, Cancelled, Worked, Finished, Redelivered, SameOwed
  <1>4. \A q \in Run \ {r} : Owed(q)' = Owed(q)
    BY DEF Still, SameOwed
  <1>5. PaidFor
    <2> SUFFICES ASSUME NEW q \in Run PROVE Owed(q)' + grants[q] <= Owed(q) + grants'[q]
      BY DEF PaidFor
    <2>1. CASE q = r
      BY <1>1, <1>2, <1>3, <2>1
    <2>2. CASE q # r
      BY <1>1, <1>2, <1>4, <2>2
    <2> QED BY <2>1, <2>2
  <1> QED BY <1>5 DEF Accounted, LifecycleStep

\* Nothing that is counted changes for r.
LEMMA Unmoved ==
  ASSUME NEW p, NEW j, Moves(p, j), NEW r,
         p \in WorkersOf(r) <=> p \in WorkersOf(r)',
         j \in JobsOf(r) <=> j \in JobsOf(r)',
         p \in CancelsOf(r) <=> p \in CancelsOf(r)'
  PROVE  SameOwed(r) /\ SameAsked(r)
  BY Counted DEF SameOwed, SameAsked, Bit

\* p stays in the same hands, and no job moves.
LEMMA StaysPut ==
  ASSUME Typed, NEW p \in Proc,
         \A q \in Proc \ {p} : pc'[q] = pc[q] /\ cur'[q] = cur[q],
         UNCHANGED <<job, held>>,
         \/ pc[p] \in Working /\ pc'[p] \in Working /\ cur'[p] = cur[p]
         \/ {pc[p], pc'[p]} \cap (Working \cup {"cancel"}) = {},
         NEW r \in Run
  PROVE  SameOwed(r) /\ SameAsked(r)
  <1>1. Moves(p, Nil)
    BY DEF Moves
  <1>2. p \in WorkersOf(r) <=> p \in WorkersOf(r)'
    BY DEF WorkersOf
  <1>3. p \in CancelsOf(r) <=> p \in CancelsOf(r)'
    BY DEF CancelsOf, Working, Executing
  <1>4. Nil \notin JobsOf(r) /\ Nil \notin JobsOf(r)'
    BY NilAssumption DEF JobsOf
  <1> QED BY <1>1, <1>2, <1>3, <1>4, Unmoved

\* A request that works on no run returns.
LEMMA Returns ==
  ASSUME Typed, NEW h \in Handler, Return(h), pc[h] \notin Working, NEW r \in Run
  PROVE  /\ SameOwed(r)
         /\ Asked(r)' = Asked(r) - Bit(h \in CancelsOf(r))
  <1>1. h \in Proc /\ held[h] = Nil /\ pc'[h] \in {"idle", "run"} /\ cur'[h] = Nil
    <2>1. h \in Proc /\ held[h] = Nil
      BY ProcAssumption DEF Typed, Base, LocksMatch, Proc
    <2>2. \E there \in {"idle", "run"} : pc' = [pc EXCEPT ![h] = there]
      BY DEF Return, Step
    <2> QED BY <2>1, <2>2 DEF Typed, Base, TypeOK, Return, Forget
  <1>2. Moves(h, Nil)
    BY <1>1 DEF Moves, Return, Forget, Step, Typed, Base, TypeOK, Proc
  <1>3. h \notin WorkersOf(r) /\ h \notin WorkersOf(r)' /\ h \notin CancelsOf(r)'
    BY <1>1 DEF WorkersOf, CancelsOf, Working, Executing
  <1>4. Nil \notin JobsOf(r) /\ Nil \notin JobsOf(r)'
    BY NilAssumption DEF JobsOf
  <1> QED BY <1>2, <1>3, <1>4, Counted DEF SameOwed, Bit

\* A process that works on no run throws.
LEMMA ThrowsIdle ==
  ASSUME Typed, NEW p \in Proc, NEW q \in Run \cup {Nil}, Throw(p, q), pc[p] \notin Working,
         NEW r \in Run
  PROVE  /\ SameOwed(r)
         /\ Asked(r)' = Asked(r) - Bit(p \in CancelsOf(r))
         /\ held[p] = Nil
  <1>1. held[p] = Nil /\ pc'[p] = "idle" /\ cur'[p] = Nil /\ UNCHANGED job
    BY DEF Typed, Base, TypeOK, LocksMatch, Throw, Forget, Step, Working
  <1>2. Moves(p, Nil)
    BY <1>1 DEF Moves, Throw, Forget, Step, Typed, Base, TypeOK, Proc
  <1>3. p \notin WorkersOf(r) /\ p \notin WorkersOf(r)' /\ p \notin CancelsOf(r)'
    BY <1>1 DEF WorkersOf, CancelsOf, Working, Executing
  <1>4. Nil \notin JobsOf(r) /\ Nil \notin JobsOf(r)'
    BY NilAssumption DEF JobsOf
  <1> QED BY <1>1, <1>2, <1>3, <1>4, Counted DEF SameOwed, Bit

\* A process that executes r throws: its job goes back to the queue, or the
\* execution is lost.
LEMMA ThrowsWork ==
  ASSUME Typed, NEW p \in Proc, pc[p] \in Executing, cur[p] \in Run, Throw(p, cur[p]),
         NEW r \in Run
  PROVE  /\ SameAsked(r) /\ Owed(r)' <= Owed(r)
         /\ r \in lost' <=> r \in lost \/ Owed(r)' < Owed(r)
  <1> DEFINE j == held[p]
  <1>1. /\ pc'[p] = "idle" /\ cur'[p] = Nil /\ held'[p] = Nil
        /\ \A q \in Proc \ {p} : pc'[q] = pc[q] /\ cur'[q] = cur[q] /\ held'[q] = held[q]
        /\ \A i \in Job \ {j} : job'[i] = job[i]
        /\ r \in lost' <=> r \in lost \/ (r = cur[p] /\ LastTry(p))
    BY NilAssumption DEF Typed, Base, TypeOK, Throw, Forget, Step
  <1>2. Moves(p, j)
    BY <1>1 DEF Moves, Proc
  <1>3. /\ p \in WorkersOf(r) <=> r = cur[p]
        /\ p \notin WorkersOf(r)' /\ p \notin CancelsOf(r) /\ p \notin CancelsOf(r)'
    BY <1>1 DEF WorkersOf, CancelsOf, Working, Executing
  <1>4. j \notin JobsOf(r)
    BY NilAssumption DEF Typed, Base, LocksMatch, JobsOf, Unlocked
  <1>5. j \in JobsOf(r)' <=> r = cur[p] /\ ~LastTry(p)
    <2>1. CASE j = Nil
      BY <2>1, NilAssumption DEF JobsOf, LastTry
    <2>2. CASE j # Nil
      <3>1. j \in Job /\ job[j].run = cur[p] /\ job[j] \in JobState
        BY <2>2 DEF Typed, Base, TypeOK, LocksMatch
      <3>2. job' = [job EXCEPT ![j].st = IF LastTry(p) THEN "dead" ELSE "waiting", ![j].tries = @ + 1]
        BY <2>2 DEF Throw
      <3>3. job'[j].run = cur[p] /\ job'[j].st = IF LastTry(p) THEN "dead" ELSE "waiting"
        BY <3>1, <3>2 DEF Typed, Base, TypeOK, JobState
      <3> QED BY <3>1, <3>3 DEF JobsOf, Unlocked
    <2> QED BY <2>1, <2>2
  <1> HIDE DEF j
  <1>6. /\ Owed(r) \in Nat /\ Owed(r)' \in Nat
        /\ Owed(r)' = (((Owed(r) - Bit(p \in WorkersOf(r))) - Bit(j \in JobsOf(r)))
                         + Bit(p \in WorkersOf(r)')) + Bit(j \in JobsOf(r)')
        /\ Asked(r)' = (Asked(r) - Bit(p \in CancelsOf(r))) + Bit(p \in CancelsOf(r)') /\ Asked(r) \in Nat
    BY <1>2, Counted
  <1>7. SameAsked(r)
    BY <1>3, <1>6 DEF Bit, SameAsked
  <1>8. Owed(r)' = IF r = cur[p] /\ LastTry(p) THEN Owed(r) - 1 ELSE Owed(r)
    BY <1>3, <1>4, <1>5, <1>6 DEF Bit
  <1> QED BY <1>1, <1>6, <1>7, <1>8

LEMMA ThrowAccounted ==
  ASSUME Typed, NEW p \in Proc, pc[p] \in Executing, cur[p] \in Run, Throw(p, cur[p]),
         UNCHANGED <<run, grants>>
  PROVE  Accounted
  <1>1. LostSome
    BY ThrowsWork, CountsFinite DEF LostSome, SameStatus, SameAsked
  <1>2. \A r \in Run : grants'[r] >= grants[r]
    BY DEF Typed, Base, TypeOK
  <1> QED BY <1>1, <1>2, LoseAccounted

LEMMA SameAccounted ==
  ASSUME Typed, UNCHANGED <<run, pc, cur, job, held, lost, grants>>
  PROVE  Accounted
  <1>1. \A r \in Run : Still(r)
    BY DEF Still, SameStatus, SameOwed, SameAsked, SameLost, Owed, Asked, WorkersOf, JobsOf,
           CancelsOf, Unlocked
  <1>2. \A r \in Run : grants'[r] >= grants[r]
    BY DEF Typed, Base, TypeOK
  <1> QED BY <1>1, <1>2, QuietAccounted

LEMMA EditAccounted == ASSUME Typed, Edit PROVE Accounted
  BY SameAccounted, EditsOnlyRows
  DEF OnlyRows, queue, ghosts

LEMMA ReceiveAccounted == ASSUME Typed, NEW h \in Handler, Receive(h) PROVE Accounted
  <1>0. h \in Proc /\ pc \in [Proc -> Pc] /\ cur \in [Proc -> Run \cup {Nil}]
    BY DEF Typed, Base, TypeOK, Proc
  <1>1. \A r \in Run : grants[r] \in Nat
    BY DEF Typed, Base, TypeOK
  <1>2. CASE \E r \in Run : CancelRead(h, r)
    <2>1. PICK r \in Run : CancelRead(h, r)
      BY <1>2
    <2>2. /\ pc[h] = "idle" /\ pc'[h] = "cancel" /\ cur'[h] = r /\ run[r].st \in Open
          /\ UNCHANGED <<run, job, held, lost, grants>> /\ Moves(h, Nil)
      BY <1>0, <2>1 DEF CancelRead, Ready, Step, queue, ghosts, Moves
    <2>3. ASSUME NEW q \in Run
          PROVE  SameOwed(q) /\ Asked(q)' = Asked(q) + Bit(q = r) /\ Asked(q) \in Nat
      <3>1. /\ h \notin WorkersOf(q) /\ h \notin WorkersOf(q)' /\ h \notin CancelsOf(q)
            /\ h \in CancelsOf(q)' <=> q = r
        BY <2>2 DEF WorkersOf, CancelsOf, Working, Executing
      <3>2. Nil \notin JobsOf(q) /\ Nil \notin JobsOf(q)'
        BY NilAssumption DEF JobsOf
      <3> QED BY <2>2, <3>1, <3>2, Counted DEF SameOwed, Bit
    <2>4. CancelAsked(r)
      BY <2>2, <2>3 DEF CancelAsked, SameStatus, SameLost, Bit
    <2>5. \A q \in Run \ {r} : Still(q)
      BY <2>2, <2>3 DEF Still, SameStatus, SameAsked, SameLost, Bit
    <2>6. Owed(r)' = Owed(r) /\ Owed(r) \in Nat
      BY <2>3, CountsFinite DEF SameOwed
    <2> QED BY <1>1, <2>2, <2>4, <2>5, <2>6, OneAccounted DEF StepOf
  <1>3. CASE \E w \in Workflow : ArchiveInstead(h, w)
    BY <1>3, SameAccounted DEF ArchiveInstead, ArchiveWorkflow, OnlyRows, queue, ghosts
  <1>4. CASE ~(\E r \in Run : CancelRead(h, r)) /\ ~(\E w \in Workflow : ArchiveInstead(h, w))
    <2>1. /\ pc[h] = "idle" /\ pc'[h] \in {"run", "retry", "delete"}
          /\ UNCHANGED <<run, job, held, lost, grants>>
          /\ \A q \in Proc \ {h} : pc'[q] = pc[q] /\ cur'[q] = cur[q]
      BY <1>0, <1>4
      DEF Receive, RequestRun, TriggerEvent, Request, RetryRead, DeleteRead, Ready, Step, queue, ghosts
    <2>2. {pc[h], pc'[h]} \cap (Working \cup {"cancel"}) = {}
      BY <2>1 DEF Working, Executing
    <2>3. \A r \in Run : SameOwed(r) /\ SameAsked(r)
      BY <1>0, <2>1, <2>2, StaysPut
    <2> QED BY <1>1, <2>1, <2>3, QuietAccounted DEF Still, SameStatus, SameLost
  <1> QED BY <1>2, <1>3, <1>4

\* A request that works on no run throws or returns, and writes nothing.
LEMMA LeaveAccounted ==
  ASSUME Typed, NEW h \in Handler, pc[h] \notin Working, Return(h) \/ Throw(h, Nil),
         UNCHANGED <<run, lost, grants>>
  PROVE  Accounted
  <1>1. h \in Proc
    BY DEF Proc
  <1>2. ASSUME NEW r \in Run
        PROVE  SameOwed(r) /\ Asked(r)' = Asked(r) - Bit(h \in CancelsOf(r)) /\ Asked(r) \in Nat /\ Owed(r) \in Nat
    BY <1>1, Returns, ThrowsIdle, CountsFinite
  <1>3. LostSome
    BY <1>2 DEF LostSome, SameStatus, SameOwed, Bit
  <1>4. \A r \in Run : grants'[r] >= grants[r]
    BY DEF Typed, Base, TypeOK
  <1> QED BY <1>3, <1>4, LoseAccounted

\* p goes on in the same hands and writes the status of its run.
LEMMA WorkAccounted ==
  ASSUME Typed, NEW p \in Proc, cur[p] \in Run, pc[p] \in Working, pc'[p] \in Working,
         \A q \in Proc \ {p} : pc'[q] = pc[q],
         UNCHANGED <<cur, job, held, lost, grants>>,
         \/ UNCHANGED run
         \/ \E s \in {"RUNNING", "COMPLETED", "FAILED"} :
               Exists(cur[p]) /\ run' = [run EXCEPT ![cur[p]].st = s]
  PROVE  Accounted
  <1>1. \A r \in Run : SameOwed(r) /\ SameAsked(r) /\ SameLost(r)
    BY StaysPut DEF SameLost
  <1>2. \A r \in Run : grants'[r] >= grants[r] /\ Owed(r) \in Nat
    BY CountsFinite DEF Typed, Base, TypeOK
  <1>3. CASE UNCHANGED run
    BY <1>1, <1>2, <1>3, QuietAccounted DEF Still, SameStatus
  <1>4. CASE \E s \in {"RUNNING", "COMPLETED", "FAILED"} :
               Exists(cur[p]) /\ run' = [run EXCEPT ![cur[p]].st = s]
    <2>0. PICK r \in Run : r = cur[p]
      OBVIOUS
    <2>1. /\ run'[r].st \in {"RUNNING", "COMPLETED", "FAILED"} /\ Exists(r)
          /\ \A q \in Run \ {r} : run'[q] = run[q]
      BY <1>4, <2>0 DEF Typed, Base, TypeOK, RunState
    <2>2. p \in WorkersOf(r)
      BY <2>0 DEF WorkersOf
    <2>3. Owed(r) > 0
      <3>1. Cardinality(WorkersOf(r)) # 0
        BY <2>2, CountsFinite, FS_EmptySet
      <3>2. Cardinality(WorkersOf(r)) \in Nat /\ Cardinality(JobsOf(r)) \in Nat
        BY CountsFinite
      <3> QED BY <3>1, <3>2 DEF Owed
    <2>4. Worked(r)
      BY <1>1, <2>1, <2>3 DEF Worked
    <2>5. \A q \in Run \ {r} : Still(q)
      BY <1>1, <2>1 DEF Still, SameStatus
    <2>6. ~(Owed(r)' > Owed(r))
      BY <1>1, <1>2 DEF SameOwed
    <2> QED BY <1>2, <2>4, <2>5, <2>6, OneAccounted DEF StepOf
  <1> QED BY <1>3, <1>4

\* A request begins to work on r.
LEMMA TakesUp ==
  ASSUME Typed, NEW h \in Handler, NEW r \in Run,
         pc[h] \notin Working \cup {"cancel"}, pc'[h] = "enqueue", cur'[h] = r,
         \A q \in Proc \ {h} : pc'[q] = pc[q] /\ cur'[q] = cur[q],
         UNCHANGED <<job, held>>,
         NEW q \in Run
  PROVE  SameAsked(q) /\ Owed(q)' = Owed(q) + Bit(q = r) /\ Owed(q) \in Nat
  <1>1. Moves(h, Nil)
    BY DEF Moves
  <1>2. /\ h \notin WorkersOf(q) /\ h \notin CancelsOf(q) /\ h \notin CancelsOf(q)'
        /\ h \in WorkersOf(q)' <=> q = r
    BY DEF WorkersOf, CancelsOf, Working, Proc
  <1>3. Nil \notin JobsOf(q) /\ Nil \notin JobsOf(q)'
    BY NilAssumption DEF JobsOf
  <1> QED BY <1>1, <1>2, <1>3, Counted DEF SameAsked, Bit

LEMMA CreateAccounted ==
  ASSUME Typed, Blank, NEW h \in Handler, CreateRun(h) PROVE Accounted
  <1>1. pc[h] = "create" /\ h \in Proc
    BY DEF CreateRun, Proc
  <1>2. CASE Throw(h, Nil) /\ UNCHANGED <<run, grants>>
    BY <1>1, <1>2, LeaveAccounted DEF Throw, Working, Executing
  <1>3. CASE ~(Throw(h, Nil) /\ UNCHANGED <<run, grants>>)
    <2>1. PICK r \in Run :
            /\ NextRun(r)
            /\ run' = [run EXCEPT ![r] = [st |-> "PENDING", wf |-> ask[h].wf, key |-> ask[h].key]]
            /\ cur' = [cur EXCEPT ![h] = r]
            /\ grants' = [grants EXCEPT ![r] = 1]
            /\ Step(h, "enqueue")
            /\ UNCHANGED <<queue, lost>>
      BY <1>3 DEF CreateRun
    <2>2. /\ pc'[h] = "enqueue" /\ cur'[h] = r /\ UNCHANGED <<job, held>>
          /\ \A q \in Proc \ {h} : pc'[q] = pc[q] /\ cur'[q] = cur[q]
      BY <1>1, <2>1 DEF Typed, Base, TypeOK, Step, queue
    <2>3. /\ run[r].st = "none" /\ run'[r].st = "PENDING" /\ \A q \in Run \ {r} : run'[q] = run[q]
          /\ grants[r] = 0 /\ grants'[r] = 1 /\ \A q \in Run \ {r} : grants'[q] = grants[q]
          /\ \A q \in Run : grants[q] \in Nat
      BY <2>1 DEF Typed, Base, TypeOK, NextRun, Blank
    <2>4. \A q \in Run : SameAsked(q) /\ Owed(q)' = Owed(q) + Bit(q = r) /\ Owed(q) \in Nat
      BY <1>1, <2>2, TakesUp DEF Working, Executing
    <2>5. Created(r)
      BY <2>1, <2>3, <2>4 DEF Created, SameLost, Bit
    <2>6. \A q \in Run \ {r} : Still(q) /\ grants'[q] >= grants[q]
      BY <2>1, <2>3, <2>4 DEF Still, SameStatus, SameOwed, SameLost, Bit
    <2> QED BY <2>3, <2>5, <2>6, OneAccounted DEF StepOf
  <1> QED BY <1>2, <1>3

\* A job is added for r.
LEMMA JobAdded ==
  ASSUME Typed, NEW h \in Handler, NEW r \in Run, cur[h] = r, pc[h] = "enqueue",
         pc'[h] \in {"answer", "start"},
         \A q \in Proc \ {h} : pc'[q] = pc[q],
         UNCHANGED <<cur, held>>, AddJob(r),
         NEW q \in Run
  PROVE  SameAsked(q) /\ Owed(q)' = Owed(q) + Bit(q = r /\ pc'[h] = "start") /\ Owed(q) \in Nat
  <1>1. PICK j \in Job : NextJob(j) /\ job' = [job EXCEPT ![j].st = "waiting", ![j].run = r]
    BY DEF AddJob
  <1>2. /\ job[j].st = "none" /\ job'[j].st = "waiting" /\ job'[j].run = r
        /\ \A i \in Job \ {j} : job'[i] = job[i]
    BY <1>1 DEF NextJob, Typed, Base, TypeOK, JobState
  <1>3. Moves(h, j)
    BY <1>2 DEF Moves
  <1>4. j \notin JobsOf(q) /\ (j \in JobsOf(q)' <=> q = r)
    BY <1>2 DEF JobsOf, Unlocked
  <1>5. /\ h \in WorkersOf(q) <=> q = r
        /\ h \in WorkersOf(q)' <=> q = r /\ pc'[h] = "start"
        /\ h \notin CancelsOf(q) /\ h \notin CancelsOf(q)'
    BY DEF WorkersOf, CancelsOf, Working, Executing, Proc
  <1> QED BY <1>3, <1>4, <1>5, Counted DEF SameAsked, Bit

LEMMA EnqueueAccounted ==
  ASSUME Typed, NEW h \in Handler, EnqueueRun(h) PROVE Accounted
  <1>1. PICK r \in Run :
          /\ r = cur[h] /\ pc[h] = "enqueue" /\ h \in Proc /\ UNCHANGED <<run, cur, held, lost>>
          /\ h \in WorkersOf(r)
    BY DEF EnqueueRun, Proc, Typed, Base, References, Working, WorkersOf
  <1>2. \A q \in Run : grants[q] \in Nat /\ Owed(q) \in Nat
    BY CountsFinite DEF Typed, Base, TypeOK
  <1>3. CASE AddJob(r) /\ Step(h, "answer") /\ UNCHANGED grants
    <2>1. pc'[h] = "answer" /\ \A q \in Proc \ {h} : pc'[q] = pc[q]
      BY <1>1, <1>3 DEF Step, Typed, Base, TypeOK
    <2>2. \A q \in Run : SameAsked(q) /\ SameOwed(q)
      BY <1>1, <1>3, <2>1, JobAdded DEF SameOwed, Bit
    <2> QED BY <1>1, <1>2, <1>3, <2>2, QuietAccounted DEF Still, SameStatus, SameLost
  <1>4. CASE Step(h, "start") /\ UNCHANGED <<job, grants>>
    <2>1. pc'[h] = "start" /\ \A q \in Proc \ {h} : pc'[q] = pc[q]
      BY <1>1, <1>4 DEF Step, Typed, Base, TypeOK
    <2> QED BY <1>1, <1>4, <2>1, WorkAccounted DEF Working, Executing
  <1>5. CASE /\ AddJob(r) /\ Step(h, "start")
             /\ grants' = [grants EXCEPT ![r] = @ + 1]
    <2>1. pc'[h] = "start" /\ \A q \in Proc \ {h} : pc'[q] = pc[q]
      BY <1>1, <1>5 DEF Step, Typed, Base, TypeOK
    <2>2. \A q \in Run : SameAsked(q) /\ Owed(q)' = Owed(q) + Bit(q = r)
      BY <1>1, <1>5, <2>1, JobAdded
    <2>3. Owed(r) > 0
      <3>1. Cardinality(WorkersOf(r)) # 0
        BY <1>1, CountsFinite, FS_EmptySet
      <3>2. Cardinality(WorkersOf(r)) \in Nat /\ Cardinality(JobsOf(r)) \in Nat
        BY CountsFinite
      <3> QED BY <3>1, <3>2 DEF Owed
    <2>4. grants'[r] = grants[r] + 1 /\ \A q \in Run \ {r} : grants'[q] = grants[q]
      BY <1>1, <1>5 DEF Typed, Base, TypeOK
    <2>5. Redelivered(r)
      BY <1>1, <2>2, <2>3 DEF Redelivered, SameStatus, SameLost, Bit
    <2>6. \A q \in Run \ {r} : Still(q) /\ grants'[q] >= grants[q]
      BY <1>1, <1>2, <2>2, <2>4 DEF Still, SameStatus, SameOwed, SameLost, Bit
    <2> QED BY <1>1, <1>2, <2>4, <2>5, <2>6, OneAccounted DEF StepOf
  <1> QED BY <1>1, <1>3, <1>4, <1>5 DEF EnqueueRun

LEMMA RetryAccounted ==
  ASSUME Typed, NEW h \in Handler, RetryWrite(h) PROVE Accounted
  <1>1. PICK r \in Run : r = cur[h] /\ pc[h] = "retry" /\ h \in Proc
    BY DEF RetryWrite, Proc, Typed, Base, References
  <1>2. CASE ~Exists(r)
    BY <1>1, <1>2, LeaveAccounted DEF RetryWrite, Throw, Working, Executing
  <1>3. CASE Exists(r)
    <2>1. /\ run' = [run EXCEPT ![r].st = "PENDING"]
          /\ grants' = [grants EXCEPT ![r] = @ + 1]
      BY <1>1, <1>3 DEF RetryWrite
    <2>2. /\ run'[r].st = "PENDING" /\ \A q \in Run \ {r} : run'[q] = run[q]
          /\ grants'[r] = grants[r] + 1 /\ \A q \in Run \ {r} : grants'[q] = grants[q]
          /\ \A q \in Run : grants[q] \in Nat
      BY <1>1, <2>1 DEF Typed, Base, TypeOK, RunState
    <2>3. CASE Throw(h, r)
      <3>1. \A q \in Run : SameOwed(q) /\ SameAsked(q) /\ held[h] = Nil
        <4> SUFFICES ASSUME NEW q \in Run PROVE SameOwed(q) /\ SameAsked(q) /\ held[h] = Nil
          OBVIOUS
        <4>1. h \notin CancelsOf(q) /\ Asked(q) \in Nat
          BY <1>1, CountsFinite DEF CancelsOf
        <4> QED BY <1>1, <2>3, <4>1, ThrowsIdle DEF SameAsked, Bit, Working, Executing
      <3>2. lost' = lost \cup {r}
        BY <1>1, <2>3, <3>1, NilAssumption DEF Throw, LastTry
      <3>3. Retried(r)
        BY <1>1, <1>3, <2>2, <3>1, <3>2 DEF Retried
      <3>4. \A q \in Run \ {r} : Still(q) /\ grants'[q] >= grants[q]
        BY <2>2, <3>1, <3>2 DEF Still, SameStatus, SameLost
      <3>5. ~(Owed(r)' > Owed(r))
        BY <1>1, <3>1, CountsFinite DEF SameOwed
      <3> QED BY <1>1, <2>2, <3>3, <3>4, <3>5, OneAccounted DEF StepOf
    <2>4. CASE Step(h, "enqueue") /\ lost' = lost \ {r} /\ UNCHANGED <<queue, cur>>
      <3>1. /\ pc'[h] = "enqueue" /\ cur'[h] = r /\ UNCHANGED <<job, held>>
            /\ \A q \in Proc \ {h} : pc'[q] = pc[q] /\ cur'[q] = cur[q]
        BY <1>1, <2>4 DEF Typed, Base, TypeOK, Step, queue
      <3>2. \A q \in Run : SameAsked(q) /\ Owed(q)' = Owed(q) + Bit(q = r)
        BY <1>1, <3>1, TakesUp DEF Working, Executing
      <3>3. Retried(r)
        BY <1>1, <1>3, <2>2, <2>4, <3>2 DEF Retried, Bit
      <3>4. \A q \in Run \ {r} : Still(q) /\ grants'[q] >= grants[q]
        <4> SUFFICES ASSUME NEW q \in Run \ {r} PROVE Still(q) /\ grants'[q] >= grants[q]
          OBVIOUS
        <4>1. Owed(q) \in Nat
          BY CountsFinite
        <4>2. SameOwed(q)
          BY <3>2, <4>1 DEF SameOwed, Bit
        <4> QED BY <2>2, <2>4, <3>2, <4>2 DEF Still, SameStatus, SameLost
      <3> QED BY <1>1, <2>2, <3>3, <3>4, OneAccounted DEF StepOf
    <2> QED BY <1>1, <1>3, <2>3, <2>4 DEF RetryWrite
  <1> QED BY <1>2, <1>3

LEMMA CancelAccounted ==
  ASSUME Typed, NEW h \in Handler, CancelWrite(h) PROVE Accounted
  <1>1. PICK r \in Run : r = cur[h] /\ pc[h] = "cancel" /\ h \in Proc /\ UNCHANGED grants
    BY DEF CancelWrite, Proc, Typed, Base, References
  <1>2. CASE ~Exists(r)
    BY <1>1, <1>2, LeaveAccounted DEF CancelWrite, Throw, Working, Executing
  <1>3. CASE Exists(r)
    <2>1. run' = [run EXCEPT ![r].st = "CANCELLED"] /\ Return(h) /\ UNCHANGED lost
      BY <1>1, <1>3 DEF CancelWrite
    <2>2. run'[r].st = "CANCELLED" /\ \A q \in Run \ {r} : run'[q] = run[q]
      BY <1>1, <2>1 DEF Typed, Base, TypeOK, RunState
    <2>3. \A q \in Run : /\ h \in CancelsOf(q) <=> q = r
                         /\ Asked(q) \in Nat /\ Asked(q)' \in Nat /\ Owed(q) \in Nat /\ grants[q] \in Nat
      BY <1>1, CountsFinite DEF CancelsOf, Typed, Base, TypeOK
    <2>4. \A q \in Run : SameOwed(q) /\ Asked(q)' = Asked(q) - Bit(q = r)
      BY <1>1, <2>1, <2>3, Returns DEF Working, Executing, Bit
    <2>5. Asked(r)' = Asked(r) - 1 /\ Asked(r) > 0
      BY <1>1, <2>3, <2>4 DEF Bit
    <2>6. Cancelled(r)
      BY <1>1, <1>3, <2>1, <2>2, <2>4, <2>5 DEF Cancelled, SameLost
    <2>7. \A q \in Run \ {r} : Still(q) /\ grants'[q] >= grants[q]
      BY <1>1, <2>1, <2>2, <2>3, <2>4 DEF Still, SameStatus, SameAsked, SameLost, Bit
    <2>8. ~(Owed(r)' > Owed(r)) /\ grants'[r] >= grants[r]
      BY <1>1, <2>3, <2>4 DEF SameOwed
    <2> QED BY <1>1, <2>6, <2>7, <2>8, OneAccounted DEF StepOf
  <1> QED BY <1>2, <1>3

LEMMA DeleteAccounted ==
  ASSUME Typed, Blank, NEW h \in Handler, DeleteWrite(h) PROVE Accounted
  <1>1. PICK w \in Workflow : w = ask[h].wf /\ pc[h] = "delete" /\ h \in Proc /\ UNCHANGED grants
    BY DEF DeleteWrite, Proc, Typed, Base, References
  <1>2. CASE wf[w].st # "live"
    BY <1>1, <1>2, LeaveAccounted DEF DeleteWrite, Throw, Working, Executing
  <1>3. CASE wf[w].st = "live"
    <2>1. /\ run' = [r \in Run |-> IF run[r].wf = w THEN [run[r] EXCEPT !.st = "gone"] ELSE run[r]]
          /\ Return(h) /\ UNCHANGED lost
      BY <1>1, <1>3 DEF DeleteWrite
    <2>2. \A r \in Run : SameOwed(r) /\ SameAsked(r)
      <3> SUFFICES ASSUME NEW r \in Run PROVE SameOwed(r) /\ SameAsked(r)
        OBVIOUS
      <3>1. h \notin CancelsOf(r) /\ Asked(r) \in Nat
        BY <1>1, CountsFinite DEF CancelsOf
      <3> QED BY <1>1, <2>1, <3>1, Returns DEF SameAsked, Bit, Working, Executing
    <2>3. ASSUME NEW r \in Run PROVE SameStatus(r) \/ (run[r].st # "none" /\ run'[r].st = "gone")
      <3>1. CASE run[r].wf = w
        <4>1. run'[r].st = "gone" /\ run[r].st # "none"
          BY <1>1, <2>1, <3>1, NilAssumption DEF Blank, Typed, Base, TypeOK, RunState
        <4> QED BY <4>1
      <3>2. CASE run[r].wf # w
        BY <2>1, <3>2 DEF SameStatus
      <3> QED BY <3>1, <3>2
    <2>4. Deleted
      BY <2>1, <2>2, <2>3 DEF Deleted, SameLost
    <2>5. PaidFor
      BY <1>1, <2>2, CountsFinite DEF PaidFor, SameOwed, Typed, Base, TypeOK
    <2> QED BY <2>4, <2>5 DEF Accounted, LifecycleStep
  <1> QED BY <1>2, <1>3

LEMMA HandleAccounted ==
  ASSUME Typed, Blank, NEW h \in Handler, Handle(h) PROVE Accounted
  <1>1. CASE RunWorkflow(h)
    <2>1. pc[h] = "run" /\ h \in Proc /\ UNCHANGED <<run, grants>>
      BY <1>1 DEF RunWorkflow, Proc
    <2>2. CASE (Return(h) /\ UNCHANGED lost) \/ Throw(h, Nil)
      BY <2>1, <2>2, LeaveAccounted DEF Throw, Working, Executing
    <2>3. CASE Step(h, "create") /\ UNCHANGED <<queue, cur, lost>>
      <3>1. /\ pc'[h] = "create" /\ UNCHANGED <<job, held, cur, lost>>
            /\ \A q \in Proc \ {h} : pc'[q] = pc[q] /\ cur'[q] = cur[q]
        BY <2>1, <2>3 DEF Typed, Base, TypeOK, Step, queue
      <3>2. {pc[h], pc'[h]} \cap (Working \cup {"cancel"}) = {}
        BY <2>1, <3>1 DEF Working, Executing
      <3>3. \A r \in Run : SameOwed(r) /\ SameAsked(r)
        BY <2>1, <3>1, <3>2, StaysPut
      <3>4. \A r \in Run : grants'[r] >= grants[r]
        BY <2>1 DEF Typed, Base, TypeOK
      <3> QED BY <2>1, <3>1, <3>3, <3>4, QuietAccounted DEF Still, SameStatus, SameLost
    <2> QED BY <1>1, <2>2, <2>3 DEF RunWorkflow
  <1>2. CASE Answer(h)
    BY <1>2, LeaveAccounted DEF Answer, Throw, Working, Executing
  <1> QED
    BY <1>1, <1>2, CreateAccounted, EnqueueAccounted, RetryAccounted, CancelAccounted, DeleteAccounted
    DEF Handle

-----------------------------------------------------------------------------
(***************************************************************************)
(* Executions.                                                             *)
(***************************************************************************)
\* A run in somebody's hands or jobs is owed an execution, and more than one
\* when somebody else or a job has it as well.
LEMMA OwedTo ==
  ASSUME NEW r, NEW p \in WorkersOf(r)
  PROVE  /\ Owed(r) > 0
         /\ (\E q \in WorkersOf(r) : q # p) \/ JobsOf(r) # {} => Owed(r) > 1
  <1>1. /\ IsFiniteSet(WorkersOf(r)) /\ IsFiniteSet(JobsOf(r))
        /\ Cardinality(WorkersOf(r)) \in Nat /\ Cardinality(JobsOf(r)) \in Nat
    BY CountsFinite
  <1>2. IsFiniteSet(WorkersOf(r) \ {p}) /\ Cardinality(WorkersOf(r) \ {p}) = Cardinality(WorkersOf(r)) - 1
    BY <1>1, FS_RemoveElement
  <1>3. Cardinality(WorkersOf(r) \ {p}) \in Nat
    BY <1>2, FS_CardinalityType
  <1>4. CASE \E q \in WorkersOf(r) : q # p
    <2>1. Cardinality(WorkersOf(r) \ {p}) # 0
      BY <1>2, <1>4, FS_EmptySet
    <2> QED BY <1>1, <1>2, <1>3, <2>1 DEF Owed
  <1>5. CASE JobsOf(r) # {}
    <2>1. Cardinality(JobsOf(r)) # 0
      BY <1>1, <1>5, FS_EmptySet
    <2> QED BY <1>1, <1>2, <1>3, <2>1 DEF Owed
  <1>6. Owed(r) > 0
    BY <1>1, <1>2, <1>3 DEF Owed
  <1> QED BY <1>4, <1>5, <1>6

\* p is done with r and its job, and leaves it to whoever else carries it.
LEMMA FinishAccounted ==
  ASSUME Typed, NEW p \in Proc, NEW r \in Run, cur[p] = r, pc[p] \in {"completed", "failed"},
         pc'[p] \in {"answer", "idle"},
         \A q \in Proc \ {p} : pc'[q] = pc[q] /\ cur'[q] = cur[q] /\ held'[q] = held[q],
         held'[p] \in {held[p], Nil},
         \/ held[p] = Nil /\ UNCHANGED job
         \/ held[p] # Nil /\ job' = [job EXCEPT ![held[p]].st = "done"],
         UNCHANGED <<run, lost, grants>>
  PROVE  Accounted
  <1>1. PICK j \in Job \cup {Nil} : j = held[p]
    BY DEF Typed, Base, TypeOK
  <1>2. Moves(p, j)
    BY <1>1 DEF Moves, Proc, Typed, Base, TypeOK
  <1>3. ASSUME NEW q \in Run
        PROVE  /\ Owed(q)' = Owed(q) - Bit(q = r) /\ SameAsked(q)
               /\ Owed(q) \in Nat /\ grants[q] \in Nat
    <2>1. /\ p \in WorkersOf(q) <=> q = r
          /\ p \notin WorkersOf(q)' /\ p \notin CancelsOf(q) /\ p \notin CancelsOf(q)'
      BY DEF WorkersOf, CancelsOf, Working, Executing
    <2>2. j \notin JobsOf(q)
      BY <1>1, NilAssumption DEF Typed, Base, LocksMatch, JobsOf, Unlocked
    <2>3. j \notin JobsOf(q)'
      BY <1>1, NilAssumption DEF Typed, Base, TypeOK, JobState, JobsOf, Unlocked
    <2> QED BY <1>2, <2>1, <2>2, <2>3, Counted DEF SameAsked, Bit, Typed, Base, TypeOK
  <1>4. p \in WorkersOf(r)
    BY DEF WorkersOf, Working, Executing
  <1>5. OpenCarried /\ run[r].st \in Open => Owed(r) > 1 \/ r \in lost
    <2> SUFFICES ASSUME OpenCarried, run[r].st \in Open, r \notin lost PROVE Owed(r) > 1
      OBVIOUS
    <2>1. Carried(r)
      BY DEF OpenCarried
    <2>2. (\E q \in WorkersOf(r) : q # p) \/ JobsOf(r) # {}
      BY <2>1 DEF Carried, Carrying, WorkersOf, JobsOf
    <2> QED BY <1>4, <2>2, OwedTo
  <1>6. OpenCarried => Finished(r)
    BY <1>3, <1>4, <1>5, OwedTo DEF Finished, SameStatus, SameLost, Bit
  <1>7. \A q \in Run \ {r} : Still(q) /\ grants'[q] >= grants[q]
    BY <1>3 DEF Still, SameStatus, SameOwed, SameLost, Bit
  <1>8. ~(Owed(r)' > Owed(r)) /\ grants'[r] >= grants[r]
    BY <1>3 DEF Bit
  <1>9. PaidFor
    BY <1>3 DEF PaidFor, Bit
  <1>10. OpenCarried => Accounted
    BY <1>6, <1>7, <1>8, OneAccounted DEF StepOf
  <1> QED BY <1>9, <1>10 DEF Accounted

LEMMA ExecuteAccounted ==
  ASSUME Typed, NEW p \in Proc, Execute(p) PROVE Accounted
  <1>1. PICK r \in Run : r = cur[p] /\ pc[p] \in Executing /\ UNCHANGED grants
    BY DEF Typed, Base, References, Working, Executing, Execute, ExecStart, ExecLoad, ExecNode,
           ExecComplete, ExecFail, ExecEnd, ghosts
  <1>2. CASE Throw(p, r) /\ UNCHANGED run
    BY <1>1, <1>2, ThrowAccounted
  <1>3. CASE /\ \E there \in Executing : Step(p, there)
             /\ UNCHANGED <<cur, job, held, lost>>
             /\ \/ UNCHANGED run
                \/ \E s \in {"RUNNING", "COMPLETED", "FAILED"} :
                      Exists(r) /\ run' = [run EXCEPT ![r].st = s]
    <2>1. pc[p] \in Working /\ pc'[p] \in Working /\ \A q \in Proc \ {p} : pc'[q] = pc[q]
      BY <1>1, <1>3 DEF Step, Typed, Base, TypeOK, Working
    <2> QED BY <1>1, <1>3, <2>1, WorkAccounted
  <1>4. CASE UNCHANGED <<run, pc, cur, job, held, lost>>
    BY <1>1, <1>4, SameAccounted
  <1>5. CASE ExecEnd(p) /\ Exists(r)
    <2>1. pc[p] \in {"completed", "failed"} /\ UNCHANGED <<run, lost>>
      BY <1>1, <1>5 DEF ExecEnd
    <2>2. CASE p \in Handler
      <3>1. held[p] = Nil
        BY <2>2, ProcAssumption DEF Typed, Base, LocksMatch
      <3>2. Step(p, "answer") /\ UNCHANGED <<job, held, cur>>
        BY <1>1, <1>5, <2>2, ProcAssumption DEF ExecEnd, queue
      <3>3. /\ pc'[p] = "answer"
            /\ \A q \in Proc \ {p} : pc'[q] = pc[q] /\ cur'[q] = cur[q] /\ held'[q] = held[q]
        BY <3>2 DEF Step, Typed, Base, TypeOK
      <3> QED BY <1>1, <2>1, <3>1, <3>2, <3>3, FinishAccounted
    <2>3. CASE p \in Slot
      <3>1. /\ Forget(p) /\ Step(p, "idle")
            /\ job' = IF held[p] = Nil THEN job ELSE [job EXCEPT ![held[p]].st = "done"]
        BY <1>1, <1>5, <2>3, ProcAssumption DEF ExecEnd
      <3>2. /\ pc'[p] = "idle" /\ held'[p] = Nil
            /\ \A q \in Proc \ {p} : pc'[q] = pc[q] /\ cur'[q] = cur[q] /\ held'[q] = held[q]
        BY <3>1 DEF Step, Forget, Typed, Base, TypeOK
      <3>3. \/ held[p] = Nil /\ UNCHANGED job
            \/ held[p] # Nil /\ job' = [job EXCEPT ![held[p]].st = "done"]
        BY <3>1
      <3> QED BY <1>1, <2>1, <3>2, <3>3, FinishAccounted
    <2> QED BY <2>2, <2>3 DEF Proc
  <1>6. CASE ExecStart(p) \/ ExecLoad(p) \/ ExecComplete(p) \/ ExecFail(p)
    BY <1>1, <1>2, <1>3, <1>6
    DEF ExecStart, ExecLoad, ExecComplete, ExecFail, queue, ghosts, Executing
  <1>7. CASE ExecNode(p)
    BY <1>3, <1>4, <1>7 DEF ExecNode, queue, ghosts, Executing
  <1>8. CASE ExecEnd(p) /\ ~Exists(r)
    BY <1>1, <1>2, <1>3, <1>8 DEF ExecEnd, queue, Executing
  <1> QED BY <1>5, <1>6, <1>7, <1>8 DEF Execute

LEMMA DbErrorAccounted ==
  ASSUME Typed, NEW p \in Proc, DbError(p) PROVE Accounted
  <1>0. UNCHANGED <<run, grants>>
    BY DEF DbError
  <1>1. CASE pc[p] \in {"nodes", "completed"}
    <2>1. PICK r \in Run : r = cur[p]
      BY <1>1 DEF Typed, Base, References, Working, Executing
    <2>2. Step(p, "failing") /\ UNCHANGED <<cur, job, held, lost>>
      BY <1>1 DEF DbError, queue
    <2>3. pc[p] \in Working /\ pc'[p] \in Working /\ \A q \in Proc \ {p} : pc'[q] = pc[q]
      BY <1>1, <2>2 DEF Step, Typed, Base, TypeOK, Working, Executing
    <2> QED BY <1>0, <2>1, <2>2, <2>3, WorkAccounted
  <1>2. CASE pc[p] \in {"start", "load", "failing", "failed"}
    <2>1. cur[p] \in Run /\ pc[p] \in Executing
      BY <1>2 DEF Typed, Base, References, Working, Executing
    <2>2. Throw(p, cur[p])
      BY <1>2 DEF DbError
    <2> QED BY <1>0, <2>1, <2>2, ThrowAccounted
  <1>3. CASE pc[p] \in {"run", "create", "answer", "retry", "cancel", "delete"}
    <2>1. Throw(p, Nil) /\ pc[p] \notin Working
      BY <1>3 DEF DbError, Working, Executing
    <2>2. UNCHANGED lost
      BY <2>1 DEF Throw
    <2>3. \A r \in Run : SameOwed(r) /\ Asked(r)' = Asked(r) - Bit(p \in CancelsOf(r)) /\ Asked(r) \in Nat /\ Owed(r) \in Nat
      BY <2>1, ThrowsIdle, CountsFinite
    <2>4. LostSome
      BY <1>0, <2>2, <2>3 DEF LostSome, SameStatus, SameOwed, Bit
    <2>5. \A r \in Run : grants'[r] >= grants[r]
      BY <1>0 DEF Typed, Base, TypeOK
    <2> QED BY <2>4, <2>5, LoseAccounted
  <1> QED BY <1>1, <1>2, <1>3 DEF DbError

LEMMA TakeAccounted ==
  ASSUME Typed, NEW s \in Slot, NEW j \in Job, TakeJob(s, j) PROVE Accounted
  <1>1. /\ s \in Proc /\ job[j].st = "waiting" /\ pc[s] = "idle" /\ held[s] = Nil
        /\ UNCHANGED <<run, lost, grants>>
    BY DEF TakeJob, Take, Proc, Typed, Base, LocksMatch, Executing, ghosts
  <1>2. /\ pc'[s] = "start" /\ cur'[s] = job[j].run /\ held'[s] = j
        /\ \A q \in Proc \ {s} : pc'[q] = pc[q] /\ cur'[q] = cur[q] /\ held'[q] = held[q]
        /\ job'[j].st = "active" /\ job'[j].run = job[j].run
        /\ \A i \in Job \ {j} : job'[i] = job[i]
    BY <1>1 DEF TakeJob, Take, Step, Typed, Base, TypeOK, JobState
  <1>3. Moves(s, j)
    BY <1>1, <1>2 DEF Moves, Proc
  <1>4. ASSUME NEW r \in Run PROVE SameOwed(r) /\ SameAsked(r)
    <2>1. /\ s \notin WorkersOf(r) /\ s \notin CancelsOf(r) /\ s \notin CancelsOf(r)'
          /\ s \in WorkersOf(r)' <=> r = job[j].run
      BY <1>1, <1>2 DEF WorkersOf, CancelsOf, Working, Executing
    <2>2. /\ j \in JobsOf(r) <=> r = job[j].run
          /\ j \notin JobsOf(r)'
      BY <1>1, <1>2 DEF JobsOf, Unlocked
    <2> QED BY <1>3, <2>1, <2>2, Counted DEF SameOwed, SameAsked, Bit
  <1>5. \A r \in Run : grants'[r] >= grants[r]
    BY <1>1 DEF Typed, Base, TypeOK
  <1> QED BY <1>1, <1>4, <1>5, QuietAccounted DEF Still, SameStatus, SameLost

LEMMA StalledAccounted ==
  ASSUME Typed, NEW j \in Job, StalledJob(j) PROVE Accounted
  <1>1. /\ job[j].st = "active" /\ Unlocked(j) /\ job[j].run \in Run /\ Requeue(j)
        /\ UNCHANGED <<run, pc, cur, held, grants>>
    BY DEF StalledJob, Unlocked, Typed, Base, References
  <1>2. /\ job'[j].run = job[j].run /\ \A i \in Job \ {j} : job'[i] = job[i]
        /\ job'[j].st = IF job[j].stalls < MaxStalled THEN "waiting" ELSE "dead"
    BY <1>1 DEF Requeue, Typed, Base, TypeOK, JobState
  <1>3. Moves(Nil, j)
    BY <1>1, <1>2 DEF Moves
  <1>4. ASSUME NEW r \in Run
        PROVE  /\ SameAsked(r) /\ Owed(r)' <= Owed(r)
               /\ r \in lost' <=> r \in lost \/ Owed(r)' < Owed(r)
    <2>1. /\ Nil \in WorkersOf(r) <=> Nil \in WorkersOf(r)'
          /\ Nil \in CancelsOf(r) <=> Nil \in CancelsOf(r)'
      BY <1>1 DEF WorkersOf, CancelsOf
    <2>2. /\ j \in JobsOf(r) <=> r = job[j].run
          /\ j \in JobsOf(r)' <=> r = job[j].run /\ job[j].stalls < MaxStalled
      BY <1>1, <1>2 DEF JobsOf, Unlocked
    <2>3. r \in lost' <=> r \in lost \/ (r = job[j].run /\ ~(job[j].stalls < MaxStalled))
      BY DEF StalledJob
    <2> QED BY <1>3, <2>1, <2>2, <2>3, Counted DEF SameAsked, Bit
  <1>5. LostSome
    BY <1>1, <1>4, CountsFinite DEF LostSome, SameStatus, SameAsked
  <1>6. \A r \in Run : grants'[r] >= grants[r]
    BY <1>1 DEF Typed, Base, TypeOK
  <1> QED BY <1>5, <1>6, LoseAccounted

LEMMA LostLockAccounted ==
  ASSUME Typed, NEW s \in Slot, LostLock(s) PROVE Accounted
  <1>1. PICK j \in Job, r \in Run :
          /\ s \in Proc /\ j = held[s] /\ job[j].st = "active" /\ job[j].run = r /\ cur[s] = r
          /\ pc[s] \in Executing /\ Requeue(j)
          /\ held' = [held EXCEPT ![s] = Nil] /\ grants' = [grants EXCEPT ![r] = @ + 1]
          /\ UNCHANGED <<run, pc, cur, lost>>
    <2>1. s \in Proc /\ held[s] \in Job /\ held[s] # Nil
      BY DEF LostLock, Proc, Typed, Base, TypeOK
    <2>2. pc[s] \in Executing /\ job[held[s]].st = "active" /\ job[held[s]].run = cur[s]
      BY <2>1 DEF Typed, Base, LocksMatch
    <2>3. cur[s] \in Run
      BY <2>1, <2>2 DEF Typed, Base, References, Working
    <2> QED BY <2>1, <2>2, <2>3 DEF LostLock
  <1>2. /\ job'[j].run = r /\ \A i \in Job \ {j} : job'[i] = job[i]
        /\ job'[j].st = IF job[j].stalls < MaxStalled THEN "waiting" ELSE "dead"
    BY <1>1 DEF Requeue, Typed, Base, TypeOK, JobState
  <1>3. Moves(s, j)
    BY <1>1, <1>2 DEF Moves, Typed, Base, TypeOK, Proc
  <1>4. ASSUME NEW q \in Run
        PROVE  /\ SameAsked(q) /\ Owed(q) \in Nat /\ grants[q] \in Nat
               /\ Owed(q)' = Owed(q) + Bit(q = r /\ job[j].stalls < MaxStalled)
    <2>1. /\ s \in WorkersOf(q) <=> s \in WorkersOf(q)'
          /\ s \in CancelsOf(q) <=> s \in CancelsOf(q)'
      BY <1>1 DEF WorkersOf, CancelsOf
    <2>2. /\ j \notin JobsOf(q)
          /\ j \in JobsOf(q)' <=> q = r /\ job[j].stalls < MaxStalled
      BY <1>1, <1>2 DEF JobsOf, Unlocked
    <2> QED BY <1>3, <2>1, <2>2, Counted DEF SameAsked, Bit, Typed, Base, TypeOK
  <1>5. grants'[r] = grants[r] + 1 /\ \A q \in Run \ {r} : grants'[q] = grants[q]
    BY <1>1 DEF Typed, Base, TypeOK
  <1>6. CASE job[j].stalls < MaxStalled
    <2>1. s \in WorkersOf(r)
      BY <1>1 DEF WorkersOf, Working
    <2>2. Redelivered(r)
      BY <1>1, <1>4, <1>6, <2>1, OwedTo DEF Redelivered, SameStatus, SameLost, Bit
    <2>3. \A q \in Run \ {r} : Still(q) /\ grants'[q] >= grants[q]
      BY <1>1, <1>4, <1>5 DEF Still, SameStatus, SameOwed, SameLost, Bit
    <2> QED BY <1>4, <1>5, <2>2, <2>3, OneAccounted DEF StepOf
  <1>7. CASE ~(job[j].stalls < MaxStalled)
    <2>1. \A q \in Run : Still(q) /\ grants'[q] >= grants[q]
      BY <1>1, <1>4, <1>5, <1>7 DEF Still, SameStatus, SameOwed, SameLost, Bit
    <2> QED BY <2>1, QuietAccounted
  <1> QED BY <1>6, <1>7

\* A crash takes the executions of the requests, and of the slots that had
\* lost their locks; the jobs of the other slots wait for the stalled check.
LEMMA CrashAccounted ==
  ASSUME Typed, NEW P \in SUBSET Proc, Crash(P) PROVE Accounted
  <1>1. /\ \A p \in Proc : /\ pc'[p] = IF p \in P THEN "idle" ELSE pc[p]
                           /\ cur'[p] = IF p \in P THEN Nil ELSE cur[p]
                           /\ held'[p] = IF p \in P THEN Nil ELSE held[p]
        /\ UNCHANGED <<run, job, grants>>
    BY DEF Crash
  <1>2. ASSUME NEW r \in Run
        PROVE  /\ Owed(r)' <= Owed(r) /\ Asked(r)' <= Asked(r)
               /\ r \in lost' <=> r \in lost \/ Owed(r)' < Owed(r)
    <2> DEFINE w == WorkersOf(r)
               i == JobsOf(r)
               w2 == WorkersOf(r)'
               i2 == JobsOf(r)'
               kept == {p \in w \cap P : held[p] # Nil}
               gone == {p \in w \cap P : held[p] = Nil}
               back == {held[p] : p \in kept}
    <2>1. /\ w2 \cap kept = {} /\ (w2 \cup kept) \cap gone = {} /\ w = (w2 \cup kept) \cup gone
      BY <1>1 DEF WorkersOf, Working, Executing
    <2>2. \A p \in kept : /\ p \in Slot /\ held[p] \in Job /\ job[held[p]].st = "active"
                          /\ job[held[p]].run = r /\ \A q \in Proc : held[q] = held[p] => q = p
      BY DEF Typed, Base, TypeOK, LocksMatch, WorkersOf
    <2>3. i \cap back = {}
      BY <2>2 DEF JobsOf, Unlocked
    <2>4. i2 = i \cup back
      <3>1. ASSUME NEW j \in i PROVE j \in i2
        BY <1>1, NilAssumption DEF JobsOf, Unlocked, Proc
      <3>2. ASSUME NEW j \in back PROVE j \in i2
        <4>1. PICK p \in kept : j = held[p]
          BY <3>2
        <4>2. j \in Job /\ job'[j].st = "active" /\ job'[j].run = r /\ p \in P
          BY <1>1, <2>2, <4>1
        <4>3. \A q \in Slot : held'[q] # j
          BY <1>1, <2>2, <4>1, <4>2, NilAssumption DEF Proc
        <4> QED BY <4>2, <4>3 DEF JobsOf, Unlocked
      <3>3. ASSUME NEW j \in i2, j \notin i PROVE j \in back
        <4>1. j \in Job /\ job[j].run = r /\ job[j].st = "active" /\ ~Unlocked(j) /\ Unlocked(j)'
          BY <1>1, <3>3 DEF JobsOf, Unlocked
        <4>2. PICK q \in Slot : held[q] = j /\ held'[q] # j
          BY <4>1 DEF Unlocked
        <4>3. q \in Proc /\ q \in P /\ held[q] # Nil
          BY <1>1, <4>1, <4>2, NilAssumption DEF Proc
        <4>4. pc[q] \in Working /\ cur[q] = r
          BY <4>1, <4>2, <4>3 DEF Typed, Base, LocksMatch, Working
        <4> QED BY <4>2, <4>3, <4>4 DEF WorkersOf
      <3> QED BY <3>1, <3>2, <3>3
    <2>5. IsFiniteSet(w) /\ IsFiniteSet(i) /\ IsFiniteSet(w2) /\ IsFiniteSet(i2)
      BY CountsFinite
    <2>6. IsFiniteSet(kept) /\ IsFiniteSet(gone) /\ IsFiniteSet(w2 \cup kept)
      <3>1. kept \in SUBSET w /\ gone \in SUBSET w /\ w2 \cup kept \in SUBSET w
        BY <2>1
      <3> QED BY <2>5, <3>1, FS_Subset
    <2>7. IsFiniteSet(back) /\ Cardinality(back) = Cardinality(kept)
      <3> DEFINE f == [p \in kept |-> held[p]]
      <3>1. f \in [kept -> back]
        OBVIOUS
      <3>2. \A p, q \in kept : f[p] = f[q] => p = q
        BY <2>2 DEF Proc
      <3>3. \A j \in back : \E p \in kept : f[p] = j
        OBVIOUS
      <3> HIDE DEF f, w, i, w2, i2, kept, gone, back
      <3>4. IsFiniteSet(kept)
        BY <2>6
      <3> QED BY <3>1, <3>2, <3>3, <3>4, ImageCount
    <2>8. lost' = lost \cup {cur[p] : p \in {q \in P : held[q] = Nil /\ pc[q] \in Working}}
      BY DEF Crash
    <2>9. r \in lost' <=> r \in lost \/ gone # {}
      BY <2>8 DEF WorkersOf
    <2>a. Owed(r) = Cardinality(w) + Cardinality(i) /\ Owed(r)' = Cardinality(w2) + Cardinality(i2)
      BY DEF Owed
    <2>b. Asked(r)' <= Asked(r)
      <3>1. CancelsOf(r)' \in SUBSET CancelsOf(r)
        BY <1>1 DEF CancelsOf, Proc
      <3> QED BY <3>1, CountsFinite, FS_Subset DEF Asked
    <2> HIDE DEF w, i, w2, i2, kept, gone, back
    <2>c. Cardinality(w) = (Cardinality(w2) + Cardinality(kept)) + Cardinality(gone)
      <3>1. Cardinality(w2 \cup kept) = Cardinality(w2) + Cardinality(kept)
        BY <2>1, <2>5, <2>6, DisjointUnion
      <3>2. Cardinality((w2 \cup kept) \cup gone) = Cardinality(w2 \cup kept) + Cardinality(gone)
        BY <2>1, <2>6, DisjointUnion
      <3> QED BY <2>1, <3>1, <3>2
    <2>d. Cardinality(i2) = Cardinality(i) + Cardinality(kept)
      BY <2>3, <2>4, <2>5, <2>7, DisjointUnion
    <2>e. /\ Cardinality(w2) \in Nat /\ Cardinality(i) \in Nat
          /\ Cardinality(kept) \in Nat /\ Cardinality(gone) \in Nat
          /\ Cardinality(gone) = 0 <=> gone = {}
      BY <2>5, <2>6, FS_CardinalityType, FS_EmptySet
    <2>f. Owed(r)' = Owed(r) - Cardinality(gone)
      BY <2>a, <2>c, <2>d, <2>e
    <2>g. Owed(r) \in Nat
      BY CountsFinite
    <2> QED BY <2>9, <2>b, <2>e, <2>f, <2>g
  <1>3. LostSome
    BY <1>1, <1>2 DEF LostSome, SameStatus
  <1>4. \A r \in Run : grants'[r] >= grants[r]
    BY <1>1 DEF Typed, Base, TypeOK
  <1> QED BY <1>3, <1>4, LoseAccounted

-----------------------------------------------------------------------------
LEMMA NextAccounted ==
  ASSUME Base, Blank, [Next]_vars PROVE Accounted
  <1>0. Typed
    BY NextBase DEF Typed
  <1>1. CASE UNCHANGED vars
    BY <1>0, <1>1, SameAccounted DEF vars
  <1> QED
    BY <1>0, <1>1, EditAccounted, ReceiveAccounted, HandleAccounted, ExecuteAccounted,
       DbErrorAccounted, TakeAccounted, CrashAccounted, StalledAccounted, LostLockAccounted
    DEF Next

\* Executions are granted to a run only when it is inserted or later.
LEMMA StepGrants ==
  ASSUME Base, Known, [Next]_vars, NEW r \in Run, run'[r].st = "none"
  PROVE  grants'[r] = grants[r]
  <1>1. run[r].st = "none"
    BY StepWritesRow, RowsPersist
  <1>2. \A p \in Proc : cur[p] # r
    BY <1>1, NilAssumption DEF Known
  <1>3. CASE Edit
    BY <1>3, EditsOnlyRows
    DEF OnlyRows, ghosts
  <1>4. ASSUME NEW h \in Handler, Receive(h) PROVE grants'[r] = grants[r]
    BY <1>4
    DEF Receive, RequestRun, TriggerEvent, Request, RetryRead, CancelRead, DeleteRead, Ready,
        ArchiveInstead, ArchiveWorkflow, OnlyRows, ghosts
  <1>5. ASSUME NEW h \in Handler, Handle(h) PROVE grants'[r] = grants[r]
    <2>1. CASE CreateRun(h)
      <3>1. CASE UNCHANGED grants
        BY <3>1
      <3>2. CASE ~UNCHANGED grants
        <4>1. PICK q \in Run :
                /\ run' = [run EXCEPT ![q] = [st |-> "PENDING", wf |-> ask[h].wf, key |-> ask[h].key]]
                /\ grants' = [grants EXCEPT ![q] = 1]
          BY <2>1, <3>2 DEF CreateRun
        <4>2. run'[q].st = "PENDING"
          BY <4>1 DEF Base, TypeOK
        <4> QED BY <4>1, <4>2 DEF Base, TypeOK
      <3> QED BY <3>1, <3>2
    <2>2. CASE RunWorkflow(h) \/ Answer(h) \/ CancelWrite(h) \/ DeleteWrite(h)
      BY <2>2 DEF RunWorkflow, Answer, CancelWrite, DeleteWrite
    <2>3. CASE EnqueueRun(h) \/ RetryWrite(h)
      <3>1. cur[h] # r
        BY <1>2 DEF Proc
      <3>2. UNCHANGED grants \/ grants' = [grants EXCEPT ![cur[h]] = @ + 1]
        BY <2>3 DEF EnqueueRun, RetryWrite
      <3> QED BY <3>1, <3>2 DEF Base, TypeOK
    <2> QED BY <1>5, <2>1, <2>2, <2>3 DEF Handle
  <1>6. ASSUME NEW p \in Proc, Execute(p) \/ DbError(p) PROVE grants'[r] = grants[r]
    BY <1>6
    DEF Execute, ExecStart, ExecLoad, ExecNode, ExecComplete, ExecFail, ExecEnd, DbError, ghosts
  <1>7. ASSUME NEW s \in Slot, LostLock(s) PROVE grants'[r] = grants[r]
    BY <1>2, <1>7 DEF LostLock, Base, TypeOK, Proc
  <1>8. CASE \/ \E s \in Slot, j \in Job : TakeJob(s, j)
             \/ \E P \in SUBSET Proc : Crash(P)
             \/ \E j \in Job : StalledJob(j)
             \/ UNCHANGED vars
    BY <1>8 DEF TakeJob, Take, Crash, StalledJob, vars, ghosts
  <1> QED BY <1>3, <1>4, <1>5, <1>6, <1>7, <1>8 DEF Next

LEMMA NextBlank == Base /\ Known /\ Blank /\ [Next]_vars => Blank'
  <1> SUFFICES ASSUME Base, Known, Blank, [Next]_vars, NEW r \in Run, run'[r].st = "none"
               PROVE  run'[r].wf = Nil /\ grants'[r] = 0
    BY DEF Blank
  <1>1. run[r].st = "none" /\ run'[r] = run[r]
    BY StepWritesRow, RowsPersist
  <1> QED BY <1>1, StepGrants DEF Blank

LEMMA InitBlank == Init => Blank
  BY DEF Init, Blank

LEMMA InitCounts == ASSUME Init PROVE \A r \in Run : Owed(r) = 0 /\ Asked(r) = 0
  <1> TAKE r \in Run
  <1>1. WorkersOf(r) = {} /\ JobsOf(r) = {} /\ CancelsOf(r) = {}
    BY NilAssumption DEF Init, WorkersOf, JobsOf, CancelsOf, Unlocked, Proc
  <1> QED BY <1>1, FS_EmptySet DEF Owed, Asked

LEMMA NextGranted ==
  Base /\ Blank /\ ExecutionsGranted /\ [Next]_vars => ExecutionsGranted'
  <1> SUFFICES ASSUME Base, Blank, ExecutionsGranted, [Next]_vars, NEW r \in Run
               PROVE  Owed(r)' <= grants'[r]
    BY DEF ExecutionsGranted, Owed
  <1>1. Owed(r) <= grants[r]
    BY DEF ExecutionsGranted, Owed
  <1>2. Owed(r)' + grants[r] <= Owed(r) + grants'[r]
    BY NextAccounted DEF Accounted, PaidFor
  <1>3. Owed(r) \in Nat /\ Owed(r)' \in Nat /\ grants[r] \in Nat /\ grants'[r] \in Nat
    BY CountsFinite, NextBase DEF Base, TypeOK
  <1> QED BY <1>1, <1>2, <1>3

(***************************************************************************)
(* In every behaviour, with any number of requests, slots, retries,        *)
(* crashes, database errors, lost replies and expired locks, the           *)
(* executions of a run that are under way or queued never exceed those     *)
(* that were granted to it.                                                *)
(***************************************************************************)
THEOREM ExecutionsAlwaysGranted == Spec => []ExecutionsGranted
  <1>1. Init => ExecutionsGranted
    BY InitCounts DEF ExecutionsGranted, Owed, Init
  <1> QED
    BY <1>1, InitBase, NextBase, InitKnown, NextKnown, InitBlank, NextBlank, NextGranted, PTL DEF Spec

(***************************************************************************)
(* The engine implements RunLifecycle: every step of a request, a slot,    *)
(* the queue or a fault is a step of it or leaves its variables alone.     *)
(***************************************************************************)
THEOREM EngineImplementsLifecycle == Spec => RunsRefineLifecycle
  <1>1. Init => Lifecycle!Init
    <2> SUFFICES ASSUME Init PROVE Lifecycle!Init
      OBVIOUS
    <2>1. \A r \in Run :
            /\ run[r].st = "none" /\ Cardinality(WorkersOf(r)) + Cardinality(JobsOf(r)) = 0
            /\ Cardinality({h \in Handler : pc[h] = "cancel" /\ cur[h] = r}) = 0
      BY InitCounts DEF Init, Owed, Asked, CancelsOf
    <2>2. lost = {}
      BY DEF Init
    <2> QED BY <2>1, <2>2 DEF Lifecycle!Init
  <1>2. Base /\ OpenCarried /\ Blank /\ [Next]_vars => [Lifecycle!Next]_(Lifecycle!vars)
    <2> SUFFICES ASSUME Base, OpenCarried, Blank, [Next]_vars PROVE Lifecycle!Next
      OBVIOUS
    <2>1. lost \subseteq Run /\ lost' \subseteq Run
      BY NextBase DEF Base, TypeOK
    <2> QED BY <2>1, NextAccounted, Implemented DEF Accounted
  <1> QED
    BY <1>1, <1>2, InitBase, NextBase, InitCarried, NextCarried, InitKnown, NextKnown, InitBlank,
       NextBlank, PTL DEF Spec, RunsRefineLifecycle, Lifecycle!Spec

(***************************************************************************)
(* What RunLifecycle promises, and with it every system that implements    *)
(* it: an open run is owed an execution, unless one was dropped.  It is    *)
(* stated for the engine's counts, and uses no more of the engine than     *)
(* that they are numbers.                                                  *)
(***************************************************************************)
THEOREM LifecycleForgetsNone == Lifecycle!Spec => []Lifecycle!NoneForgotten
  <1> DEFINE st == [r \in Run |-> run[r].st]
             owed == [r \in Run |-> Cardinality(WorkersOf(r)) + Cardinality(JobsOf(r))]
             Promise == \A r \in Run : st[r] \in Open => owed[r] > 0 \/ r \in lost
  <1>1. Lifecycle!NoneForgotten <=> Promise
    BY DEF Lifecycle!NoneForgotten, Lifecycle!Open, Open
  <1>2. owed \in [Run -> Nat] /\ owed' \in [Run -> Nat] /\ DOMAIN st = Run /\ DOMAIN st' = Run
    BY CountsFinite DEF Owed
  <1>3. Lifecycle!Init => Promise
    BY DEF Lifecycle!Init, Open
  <1>4. UNCHANGED Lifecycle!vars => UNCHANGED <<st, owed, lost>>
    BY DEF Lifecycle!vars
  <1> DEFINE Kept(r) == \/ st'[r] \notin Open
                        \/ owed'[r] > 0 \/ r \in lost'
                        \/ st'[r] = st[r] /\ (r \in lost => r \in lost') /\ owed'[r] >= owed[r]
  <1>5. ASSUME Lifecycle!Next, Promise, NEW r \in Run PROVE Kept(r)
    <2>1. ASSUME NEW q \in Run, Lifecycle!Create(q) PROVE Kept(r)
      <3>1. /\ st' = [st EXCEPT ![q] = "PENDING"]
            /\ owed' = [owed EXCEPT ![q] = @ + 1] /\ lost' = lost
        BY <2>1 DEF Lifecycle!Create
      <3> HIDE DEF st, owed
      <3> QED BY <1>2, <1>5, <3>1 DEF Open
    <2>2. ASSUME NEW q \in Run, Lifecycle!Retry(q) PROVE Kept(r)
      <3>1. /\ st' = [st EXCEPT ![q] = "PENDING"]
            /\ \/ owed' = [owed EXCEPT ![q] = @ + 1] /\ lost' = lost \ {q}
               \/ lost' = lost \cup {q} /\ owed' = owed
        BY <2>2 DEF Lifecycle!Retry
      <3> HIDE DEF st, owed
      <3> QED BY <1>2, <1>5, <3>1 DEF Open
    <2>3. ASSUME NEW q \in Run, Lifecycle!AskCancel(q) PROVE Kept(r)
      <3>1. st' = st /\ owed' = owed /\ lost' = lost
        BY <2>3 DEF Lifecycle!AskCancel
      <3> HIDE DEF st, owed
      <3> QED BY <1>2, <1>5, <3>1 DEF Open
    <2>4. ASSUME NEW q \in Run, Lifecycle!Cancel(q) PROVE Kept(r)
      <3>1. /\ st' = [st EXCEPT ![q] = "CANCELLED"]
            /\ owed' = owed /\ lost' = lost
        BY <2>4 DEF Lifecycle!Cancel
      <3> HIDE DEF st, owed
      <3> QED BY <1>2, <1>5, <3>1 DEF Open
    <2>5. ASSUME NEW q \in Run, Lifecycle!Work(q) PROVE Kept(r)
      <3>1. /\ owed[q] > 0 /\ \E x : st' = [st EXCEPT ![q] = x]
            /\ owed' = owed /\ lost' = lost
        BY <2>5 DEF Lifecycle!Work
      <3> HIDE DEF st, owed
      <3> QED BY <1>2, <1>5, <3>1 DEF Open
    <2>6. ASSUME NEW q \in Run, Lifecycle!Finish(q) PROVE Kept(r)
      <3>1. /\ st[q] \in Open => owed[q] > 1 \/ q \in lost
            /\ owed' = [owed EXCEPT ![q] = @ - 1]
            /\ st' = st /\ lost' = lost
        BY <2>6 DEF Lifecycle!Finish, Lifecycle!Open, Open
      <3> HIDE DEF st, owed
      <3> QED BY <1>2, <1>5, <3>1 DEF Open
    <2>7. ASSUME NEW q \in Run, Lifecycle!Redeliver(q) PROVE Kept(r)
      <3>1. /\ owed' = [owed EXCEPT ![q] = @ + 1]
            /\ st' = st /\ lost' = lost
        BY <2>7 DEF Lifecycle!Redeliver
      <3> HIDE DEF st, owed
      <3> QED BY <1>2, <1>5, <3>1 DEF Open
    <2>8. ASSUME NEW R, Lifecycle!Delete(R) PROVE Kept(r)
      <3>1. /\ st' = [x \in Run |-> IF x \in R THEN "gone" ELSE st[x]]
            /\ owed' = owed /\ lost' = lost
        BY <2>8 DEF Lifecycle!Delete
      <3> HIDE DEF st, owed
      <3> QED BY <1>2, <3>1 DEF Open
    <2>9. ASSUME Lifecycle!Lose PROVE Kept(r)
      <3>1. /\ owed'[r] <= owed[r] /\ st' = st
            /\ lost' = lost \cup {x \in Run : owed'[x] < owed[x]}
        BY <2>9 DEF Lifecycle!Lose
      <3> HIDE DEF st, owed
      <3> QED BY <1>2, <3>1
    <2> QED BY <1>5, <2>1, <2>2, <2>3, <2>4, <2>5, <2>6, <2>7, <2>8, <2>9 DEF Lifecycle!Next
  <1> HIDE DEF st, owed
  <1>6. Promise /\ Lifecycle!Next => Promise'
    BY <1>2, <1>5
  <1>7. Promise /\ UNCHANGED Lifecycle!vars => Promise'
    BY <1>4
  <1> HIDE DEF Promise
  <1> QED BY <1>1, <1>3, <1>6, <1>7, PTL DEF Lifecycle!Spec
-----------------------------------------------------------------------------
(***************************************************************************)
(* The console.  Its writes change the status of rows that exist and       *)
(* nothing else, whatever they checked before: every guarantee that does   *)
(* not speak of who carries an open run survives them.  OpenCarried does   *)
(* not, and with it NoneForgotten and the refinement.                      *)
(***************************************************************************)
SiteSound == /\ Base /\ RowsSound /\ Known /\ Listed /\ Blank
             /\ OnlyStopNodesFail /\ ExecutionsGranted
             /\ site \in [Console -> [op : {"none", "retry", "cancel"}, run : Run \cup {Nil}]]
             /\ \A c \in Console : site[c] # Away => site[c].run \in Run

LEMMA EngineSound ==
  ASSUME SiteSound, [Next]_vars
  PROVE  /\ Base' /\ RowsSound' /\ Known' /\ Listed' /\ Blank'
         /\ OnlyStopNodesFail' /\ ExecutionsGranted'
  BY NextBase, NextRows, NextKnown, NextListed, NextBlank, NextFails, NextGranted DEF SiteSound

LEMMA SiteReadSound ==
  ASSUME SiteSound, NEW c \in Console, NEW op \in {"retry", "cancel"}, NEW r \in Run,
         SiteRead(c, op, r)
  PROVE  SiteSound'
  <1>1. UNCHANGED vars /\ site' = [site EXCEPT ![c] = [op |-> op, run |-> r]]
    BY DEF SiteRead
  <1>2. /\ site' \in [Console -> [op : {"none", "retry", "cancel"}, run : Run \cup {Nil}]]
        /\ \A d \in Console : site'[d] # Away => site'[d].run \in Run
    BY <1>1 DEF SiteSound
  <1> QED BY <1>1, <1>2, EngineSound DEF SiteSound

LEMMA SiteWriteSound ==
  ASSUME SiteSound, NEW c \in Console, SiteWrite(c)
  PROVE  SiteSound'
  <1>1. PICK r \in Run : r = site[c].run
    BY DEF SiteSound, SiteWrite
  <1>2. UNCHANGED <<wf, nodes, kind, job, held, pc, cur, ask, todo, lost, grants, faults>>
    BY DEF SiteWrite, rows, queue, ghosts
  <1>3. \/ UNCHANGED run
        \/ \E st \in {"PENDING", "CANCELLED"} : Exists(r) /\ run' = [run EXCEPT ![r].st = st]
    BY <1>1 DEF SiteWrite
  <1>4. /\ site' \in [Console -> [op : {"none", "retry", "cancel"}, run : Run \cup {Nil}]]
        /\ \A d \in Console : site'[d] # Away => site'[d].run \in Run
    BY DEF SiteSound, SiteWrite, Away
  <1>5. run \in [Run -> RunState]
    BY DEF SiteSound, Base, TypeOK
  <1>6. CASE UNCHANGED run
    <2>1. UNCHANGED vars
      BY <1>2, <1>6 DEF vars
    <2> QED BY <1>4, <2>1, EngineSound DEF SiteSound
  <1>7. ASSUME NEW st \in {"PENDING", "CANCELLED"}, Exists(r), run' = [run EXCEPT ![r].st = st]
        PROVE  SiteSound'
    <2>1. /\ run' \in [Run -> RunState]
          /\ \A q \in Run : /\ run'[q].wf = run[q].wf /\ run'[q].key = run[q].key
                            /\ run'[q].st = "none" <=> run[q].st = "none"
                            /\ Exists(q)' <=> Exists(q)
      BY <1>5, <1>7 DEF RunState, RunStatus, Exists
    <2>2. Base'
      <3>1. TypeOK' /\ LocksMatch'
        BY <1>2, <2>1 DEF SiteSound, Base, TypeOK, LocksMatch
      <3>2. References'
        BY <1>2, <2>1 DEF SiteSound, Base, References
      <3> QED BY <3>1, <3>2 DEF Base
    <2>3. RowsSound'
      BY <1>2, <1>7, StatusKept, KeptSound DEF SiteSound
    <2>4. Known'
      <3>1. /\ \A p \in Proc : cur[p] # Nil => cur[p] \in Run
            /\ \A j \in Job : job[j].st # "none" => job[j].run \in Run
        BY DEF SiteSound, Base, TypeOK, References
      <3> QED BY <1>2, <2>1, <3>1 DEF SiteSound, Known
    <2>5. Listed' /\ Blank'
      BY <1>2, <2>1 DEF SiteSound, Listed, Blank
    <2>6. OnlyStopNodesFail'
      <3>1. \A p \in Proc : pc[p] = "failing" => cur[p] \in Run
        BY DEF SiteSound, Base, References, Working, Executing
      <3> QED BY <1>2, <2>1, <3>1 DEF SiteSound, OnlyStopNodesFail
    <2>7. ExecutionsGranted'
      BY <1>2 DEF SiteSound, ExecutionsGranted, WorkersOf, JobsOf, Unlocked
    <2> QED BY <1>4, <2>2, <2>3, <2>4, <2>5, <2>6, <2>7 DEF SiteSound
  <1> QED BY <1>3, <1>6, <1>7

LEMMA SiteInitSound == SiteInit => SiteSound
  <1> SUFFICES ASSUME SiteInit PROVE SiteSound
    OBVIOUS
  <1>1. Init
    BY DEF SiteInit
  <1>2. Base /\ RowsSound /\ Known /\ Listed /\ Blank
    BY <1>1, InitBase, InitRows, InitKnown, InitListed, InitBlank
  <1>3. OnlyStopNodesFail
    BY <1>1 DEF Init, OnlyStopNodesFail
  <1>4. ExecutionsGranted
    BY <1>1, InitCounts DEF ExecutionsGranted, Owed, Init
  <1>5. /\ site \in [Console -> [op : {"none", "retry", "cancel"}, run : Run \cup {Nil}]]
        /\ \A c \in Console : site[c] # Away => site[c].run \in Run
    BY DEF SiteInit, Away
  <1> QED BY <1>2, <1>3, <1>4, <1>5 DEF SiteSound

(***************************************************************************)
(* Beside any number of administrators who retry and cancel runs of every  *)
(* tenant from the console, by unguarded writes: keys stay idempotent,     *)
(* runs keep their workflow, job locks match, only STOP nodes fail a run,  *)
(* and no run is executed more often than it was granted.                  *)
(***************************************************************************)
THEOREM EngineSurvivesConsole ==
  SiteSpec => [](/\ TypeOK /\ LocksMatch /\ IdempotentKeys /\ RunsHaveWorkflow
                 /\ OnlyStopNodesFail /\ ExecutionsGranted)
  <1>1. SiteSound /\ [SiteNext]_siteVars => SiteSound'
    <2> SUFFICES ASSUME SiteSound, [SiteNext]_siteVars PROVE SiteSound'
      OBVIOUS
    <2>1. ASSUME [Next]_vars, UNCHANGED site PROVE SiteSound'
      BY <2>1, EngineSound DEF SiteSound
    <2> QED BY <2>1, SiteReadSound, SiteWriteSound DEF SiteNext, siteVars
  <1>2. SiteSound => /\ TypeOK /\ LocksMatch /\ IdempotentKeys /\ RunsHaveWorkflow
                     /\ OnlyStopNodesFail /\ ExecutionsGranted
    BY DEF SiteSound, Base, RowsSound
  <1> QED BY SiteInitSound, <1>1, <1>2, PTL DEF SiteSpec
=============================================================================

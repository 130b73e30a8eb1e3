--------------------------- MODULE RuntimeProofs ---------------------------
(***************************************************************************)
(* Proofs about Runtime: for any number of spawns, of future types, of     *)
(* items and any capacity of the channel, on each of the three adapters.   *)
(* The fairness of the specification is not used.                          *)
(***************************************************************************)
EXTENDS Runtime, FiniteSetTheorems, SequenceTheorems, WellFoundedInduction, TLAPS

Slots == Tasks \cup {None}

\* Every variable holds what its Rust counterpart may hold.
Types_OK ==
    /\ stack \in Stacks
    /\ future \in [Tasks -> {"unspawned", "running", "returned", "dropped"}]
    /\ finished \in [Tasks -> BOOLEAN]
    /\ result \in [Tasks -> {None, "Ok", "Cancelled"}]
    /\ handle \in [Tasks -> {"idle", "joining", "Ok", "Cancelled"}]
    /\ slots \in [Types -> Seq(Slots)] /\ peak \in [Types -> Nat]
    /\ queue \in Nat /\ senders \subseteq Tasks \cup {Owner}

-----------------------------------------------------------------------------
(* What the owner is told.                                                 *)

\* A join result waits only for a future that has ended that way.
ResultsTrue ==
    \A t \in Tasks : result[t] # None =>
        /\ result[t] = "Ok" => future[t] = "returned"
        /\ result[t] = "Cancelled" => future[t] = "dropped"

\* A running task holds a sender, and a channel that was reported Closed has no
\* sender left and nothing in it.
ClosedForGood ==
    /\ Running \subseteq senders
    /\ receiver = "closed" => queue = 0 /\ senders = {}

Truth == Types_OK /\ ResultsTrue /\ ClosedForGood /\ HandlesTruthful

-----------------------------------------------------------------------------
(* The storage pool.                                                       *)

\* The slots of a type that are busy hold its running tasks, each exactly one.
SlotsHoldRunning ==
    stack = "embassy" =>
        \A y \in Types :
            /\ \A i \in DOMAIN slots[y] : slots[y][i] # None => slots[y][i] \in RunningOf(y)
            /\ \A i, j \in DOMAIN slots[y] :
                  slots[y][i] # None /\ slots[y][i] = slots[y][j] => i = j
            /\ \A t \in RunningOf(y) : \E i \in DOMAIN slots[y] : slots[y][i] = t

\* There are no more slots than tasks of the type ever ran at once.
SlotsWithinPeak == stack = "embassy" => \A y \in Types : Len(slots[y]) <= peak[y]

Pool == Types_OK /\ SlotsHoldRunning /\ SlotsWithinPeak

-----------------------------------------------------------------------------
(* The operators.                                                          *)

\* A nonempty set of naturals has the least element that the search of spawn_wrapped
\* through the slots of a type stops at.
LEMMA LeastIndex ==
    ASSUME NEW S \in SUBSET Nat, S # {}
    PROVE  (CHOOSE i \in S : \A j \in S : i <= j) \in S
  <1> DEFINE R == {ss \in Nat \X Nat : ss[1] < ss[2]}
  <1>1. IsWellFoundedOn(R, Nat)
    BY NatLessThanWellFounded DEF OpToRel
  <1>2. \A i, j \in Nat : i < j => <<i, j>> \in R
    OBVIOUS
  <1> HIDE DEF R
  <1>3. PICK i \in S : \A j \in S : <<j, i>> \notin R
    BY <1>1, WFMin, Zenon
  <1>4. ASSUME NEW j \in S PROVE i <= j
    <2>1. i \in Nat /\ j \in Nat /\ <<j, i>> \notin R
      BY <1>3
    <2>2. ~(j < i)
      BY <1>2, <2>1, Zenon
    <2> QED BY <2>1, <2>2
  <1> QED BY <1>4

\* The slots after a task has ended (Ends): as many as before, its own is free.
LEMMA FreedSlots ==
    ASSUME NEW q \in Seq(Slots), NEW t, NEW r,
           r = [i \in DOMAIN q |-> IF q[i] = t THEN None ELSE q[i]]
    PROVE  r \in Seq(Slots) /\ Len(r) = Len(q) /\ DOMAIN r = DOMAIN q
  <1>1. Len(q) \in Nat /\ q \in [1..Len(q) -> Slots] /\ DOMAIN q = 1..Len(q)
    BY LenProperties
  <1>2. r \in [1..Len(q) -> Slots] /\ DOMAIN r = 1..Len(q)
    BY <1>1 DEF Slots
  <1>3. r \in Seq(Slots)
    BY <1>1, <1>2
  <1>4. Len(r) = Len(q)
    BY <1>1, <1>2, <1>3
  <1> QED BY <1>1, <1>2, <1>3, <1>4

\* Every task has a type, and the tasks of a type that run are finitely many.
LEMMA RunningFinite ==
    /\ \A t \in Tasks : TypeOf[t] \in Types
    /\ \A y : IsFiniteSet(RunningOf(y)) /\ Cardinality(RunningOf(y)) \in Nat
  <1>1. \A t \in Tasks : TypeOf[t] \in Types
    BY RuntimeAssumptions DEF Tasks, Types
  <1>2. IsFiniteSet(Tasks)
    BY RuntimeAssumptions, FS_Interval DEF Tasks
  <1>3. ASSUME NEW y PROVE IsFiniteSet(RunningOf(y)) /\ Cardinality(RunningOf(y)) \in Nat
    <2>1. RunningOf(y) \in SUBSET Tasks
      BY DEF RunningOf, Running
    <2>2. IsFiniteSet(RunningOf(y))
      BY <1>2, <2>1, FS_Subset
    <2> QED BY <2>2, FS_CardinalityType
  <1> QED BY <1>1, <1>3

\* spawn_wrapped puts the task into a free slot of its type, or, when every slot is
\* busy, into a new one behind them.
LEMMA PlacedInSlot ==
    ASSUME Types_OK, NEW t \in Tasks, SpawnWrapped(t)
    PROVE  LET y == TypeOf[t] IN
           /\ slots' \in [Types -> Seq(Slots)]
           /\ \A z \in Types : z # y => slots'[z] = slots[z]
           /\ \/ \E k \in DOMAIN slots[y] : slots[y][k] = None /\ slots'[y] = [slots[y] EXCEPT ![k] = t]
              \/ (\A i \in DOMAIN slots[y] : slots[y][i] # None) /\ slots'[y] = Append(slots[y], t)
  <1> DEFINE y == TypeOf[t]
             q == slots[y]
             free == {i \in DOMAIN q : q[i] = None}
             slot == CHOOSE i \in free : \A j \in free : i <= j
             r == IF free = {} THEN Append(q, t) ELSE [q EXCEPT ![slot] = t]
  <1>1. y \in Types /\ q \in Seq(Slots)
    BY RunningFinite DEF Types_OK
  <1>2. slots' = [slots EXCEPT ![y] = r]
    BY DEF SpawnWrapped
  <1>3. t \in Slots
    BY DEF Slots
  <1>4. Len(q) \in Nat /\ DOMAIN q = 1..Len(q) /\ q \in [1..Len(q) -> Slots]
    BY <1>1, LenProperties
  <1>5. CASE free = {}
    <2>1. r = Append(q, t) /\ r \in Seq(Slots)
      BY <1>1, <1>3, <1>5
    <2>2. slots' \in [Types -> Seq(Slots)] /\ slots'[y] = r /\ \A z \in Types : z # y => slots'[z] = slots[z]
      BY <1>1, <1>2, <2>1 DEF Types_OK
    <2>3. \A i \in DOMAIN q : q[i] # None
      BY <1>5
    <2> QED BY <2>1, <2>2, <2>3
  <1>6. CASE free # {}
    <2>1. free \in SUBSET Nat
      BY <1>4
    <2>2. slot \in free
      BY <1>6, <2>1, LeastIndex
    <2> HIDE DEF slot
    <2>3. r = [q EXCEPT ![slot] = t]
      BY <1>6
    <2>4. r \in [1..Len(q) -> Slots]
      BY <1>3, <1>4, <2>3
    <2>5. r \in Seq(Slots)
      BY <1>4, <2>4
    <2>6. slots' \in [Types -> Seq(Slots)] /\ slots'[y] = r /\ \A z \in Types : z # y => slots'[z] = slots[z]
      BY <1>1, <1>2, <2>5 DEF Types_OK
    <2>7. slot \in DOMAIN q /\ q[slot] = None
      BY <2>2
    <2> QED BY <2>3, <2>6, <2>7
  <1> QED BY <1>5, <1>6

\* The end of a future (Ends), whatever ends it, keeps every variable in its type.
LEMMA EndsTypes ==
    ASSUME Types_OK, NEW t \in Tasks, NEW how \in {"returned", "dropped"},
           NEW outcome \in {"Ok", "Cancelled"}, Ends(t, how, outcome),
           UNCHANGED <<stack, handle, queue, peak>>
    PROVE  Types_OK'
  <1>1. TypeOf[t] \in Types /\ slots[TypeOf[t]] \in Seq(Slots)
    BY RunningFinite DEF Types_OK
  <1> DEFINE q == slots[TypeOf[t]]
             r == [i \in DOMAIN q |-> IF q[i] = t THEN None ELSE q[i]]
  <1>2. r \in Seq(Slots)
    BY <1>1, FreedSlots
  <1>3. slots' = [slots EXCEPT ![TypeOf[t]] = r]
    BY DEF Ends
  <1> HIDE DEF r
  <1>4. slots' \in [Types -> Seq(Slots)]
    BY <1>1, <1>2, <1>3 DEF Types_OK
  <1>5. future' \in [Tasks -> {"unspawned", "running", "returned", "dropped"}]
    BY DEF Ends, Types_OK
  <1>6. finished' \in [Tasks -> BOOLEAN]
    BY Zenon DEF Ends, Types_OK
  <1>7. result' \in [Tasks -> {None, "Ok", "Cancelled"}]
    BY DEF Ends, Types_OK
  <1>8. senders' \subseteq Tasks \cup {Owner}
    BY DEF Ends, Types_OK
  <1>9. /\ stack' \in Stacks /\ peak' \in [Types -> Nat] /\ queue' \in Nat
        /\ handle' \in [Tasks -> {"idle", "joining", "Ok", "Cancelled"}]
    BY DEF Types_OK
  <1> QED BY <1>4, <1>5, <1>6, <1>7, <1>8, <1>9 DEF Types_OK

\* Every step keeps every variable in its type.
LEMMA TypesStep == Types_OK /\ [Next]_vars => Types_OK'
  <1> SUFFICES ASSUME Types_OK, [Next]_vars PROVE Types_OK'
    OBVIOUS
  <1>1. ASSUME NEW t \in Tasks, Spawn(t) PROVE Types_OK'
    <2>1. slots' \in [Types -> Seq(Slots)]
      <3>1. CASE stack = "embassy"
        BY <1>1, <3>1, PlacedInSlot DEF Spawn
      <3>2. CASE stack # "embassy"
        BY <1>1, <3>2 DEF Spawn, Types_OK
      <3> QED BY <3>1, <3>2
    <2>2. peak' \in [Types -> Nat]
      <3> DEFINE y == TypeOf[t]
                 n == Cardinality(RunningOf(y))
      <3>1. y \in Types /\ n \in Nat
        BY RunningFinite
      <3>2. peak' = [peak EXCEPT ![y] = IF @ > n THEN @ ELSE 1 + n]
        BY <1>1 DEF Spawn
      <3> HIDE DEF n, y
      <3> QED BY <3>1, <3>2 DEF Types_OK
    <2>3. future' \in [Tasks -> {"unspawned", "running", "returned", "dropped"}]
      BY <1>1 DEF Spawn, Types_OK
    <2>4. senders' \subseteq Tasks \cup {Owner}
      BY <1>1 DEF Spawn, Types_OK
    <2>5. UNCHANGED <<stack, finished, result, handle, queue>>
      BY <1>1 DEF Spawn
    <2> QED BY <2>1, <2>2, <2>3, <2>4, <2>5 DEF Types_OK
  <1>2. ASSUME NEW t \in Tasks, Return(t) PROVE Types_OK'
    BY <1>2, EndsTypes DEF Return
  <1>3. ASSUME NEW t \in Tasks, Cancel(t) PROVE Types_OK'
    BY <1>3, EndsTypes DEF Cancel
  <1>4. ASSUME NEW t \in Tasks, OpenFails(t) PROVE Types_OK'
    BY <1>4, EndsTypes DEF OpenFails
  <1>5. ASSUME NEW t \in Tasks, Abort(t) PROVE Types_OK'
    BY <1>5 DEF Abort, Types_OK
  <1>6. ASSUME NEW t \in Tasks, Join(t) PROVE Types_OK'
    BY <1>6 DEF Join, Types_OK, task
  <1>7. ASSUME NEW t \in Tasks, JoinReturns(t) PROVE Types_OK'
    <2>1. handle' \in [Tasks -> {"idle", "joining", "Ok", "Cancelled"}]
      BY <1>7 DEF JoinReturns, Types_OK
    <2>2. result' \in [Tasks -> {None, "Ok", "Cancelled"}]
      BY <1>7 DEF JoinReturns, Types_OK
    <2> QED BY <1>7, <2>1, <2>2 DEF JoinReturns, Types_OK
  <1>8. ASSUME NEW t \in Tasks, Send(t) PROVE Types_OK'
    BY <1>8 DEF Send, Types_OK, task
  <1>9. ASSUME NEW t \in Tasks, Open(t) PROVE Types_OK'
    BY <1>9 DEF Open, Types_OK, task
  <1>10. CASE Recv
    BY <1>10 DEF Recv, Types_OK, task
  <1>11. CASE RecvClosed
    BY <1>11 DEF RecvClosed, Types_OK, task
  <1>12. CASE DropReceiver
    BY <1>12 DEF DropReceiver, Types_OK, task
  <1>13. CASE DropOwner
    BY <1>13 DEF DropOwner, Types_OK, task
  <1>14. CASE UNCHANGED vars
    BY <1>14 DEF vars, Types_OK
  <1> QED BY <1>1, <1>2, <1>3, <1>4, <1>5, <1>6, <1>7, <1>8, <1>9, <1>10, <1>11, <1>12, <1>13, <1>14 DEF Next

-----------------------------------------------------------------------------
(* What the owner is told is true.                                         *)

\* It is so initially: no future runs, no result waits.
LEMMA TruthInit == Init => Truth
  <1> SUFFICES ASSUME Init PROVE Truth
    OBVIOUS
  <1>1. Types_OK
    BY DEF Init, Types_OK
  <1>2. ResultsTrue
    BY DEF Init, ResultsTrue
  <1>3. ClosedForGood
    BY DEF Init, ClosedForGood, Running
  <1>4. HandlesTruthful
    BY DEF Init, HandlesTruthful
  <1> QED BY <1>1, <1>2, <1>3, <1>4 DEF Truth

\* A future that ends leaves the result of the way it ended, and no sender.
LEMMA EndsTruth ==
    ASSUME Truth, NEW t \in Tasks, future[t] = "running", NEW how, NEW outcome,
           <<how, outcome>> \in {<<"returned", "Ok">>, <<"dropped", "Cancelled">>},
           Ends(t, how, outcome), UNCHANGED <<handle, queue, receiver>>
    PROVE  ResultsTrue' /\ ClosedForGood' /\ HandlesTruthful'
  <1>1. \/ how = "returned" /\ outcome = "Ok"
        \/ how = "dropped" /\ outcome = "Cancelled"
    OBVIOUS
  <1>2. /\ future'[t] = how /\ result'[t] = outcome
        /\ \A u \in Tasks : u # t => future'[u] = future[u] /\ result'[u] = result[u]
        /\ \A u \in Tasks : u # t => finished'[u] = finished[u]
    BY DEF Truth, Types_OK, Ends
  <1>3. ResultsTrue'
    BY <1>1, <1>2 DEF Truth, ResultsTrue
  <1>4. Running' = Running \ {t} /\ senders' = senders \ {t}
    BY <1>1, <1>2 DEF Running, Ends
  <1>5. ClosedForGood'
    BY <1>4 DEF Truth, ClosedForGood
  <1>6. \A u \in Tasks : /\ handle'[u] = "Ok" => future'[u] = "returned"
                         /\ handle'[u] = "Cancelled" => future'[u] = "dropped"
    BY <1>2 DEF Truth, HandlesTruthful
  <1>7. \A u \in Tasks : finished'[u] => future'[u] \in {"returned", "dropped"}
    <2> SUFFICES ASSUME NEW u \in Tasks, finished'[u] PROVE future'[u] \in {"returned", "dropped"}
      OBVIOUS
    <2>1. CASE u = t
      BY <1>1, <1>2, <2>1
    <2>2. CASE u # t
      BY <1>2, <2>2, Zenon DEF Truth, HandlesTruthful
    <2> QED BY <2>1, <2>2
  <1>8. receiver' = "closed" => queue' = 0 /\ \A u \in Running' : FALSE
    BY <1>4 DEF Truth, HandlesTruthful
  <1> QED BY <1>3, <1>5, <1>6, <1>7, <1>8 DEF HandlesTruthful

\* Steps that leave tasks and handles alone can make only the word on the channel untrue.
LEMMA SameTasksTruth ==
    ASSUME Truth, UNCHANGED <<future, finished, result, handle>>
    PROVE  ClosedForGood' => ResultsTrue' /\ HandlesTruthful'
  <1> SUFFICES ASSUME ClosedForGood' PROVE ResultsTrue' /\ HandlesTruthful'
    OBVIOUS
  <1>1. ResultsTrue'
    BY DEF Truth, ResultsTrue
  <1>2. \A t \in Tasks : /\ handle'[t] = "Ok" => future'[t] = "returned"
                         /\ handle'[t] = "Cancelled" => future'[t] = "dropped"
                         /\ finished'[t] => future'[t] \in {"returned", "dropped"}
    BY Zenon DEF Truth, HandlesTruthful
  <1>3. receiver' = "closed" => queue' = 0 /\ \A t \in Running' : FALSE
    BY DEF ClosedForGood
  <1> QED BY <1>1, <1>2, <1>3 DEF HandlesTruthful

\* Every step keeps it so.
LEMMA TruthStep == Truth /\ [Next]_vars => Truth'
  <1> SUFFICES ASSUME Truth, [Next]_vars PROVE ResultsTrue' /\ ClosedForGood' /\ HandlesTruthful'
    BY TypesStep DEF Truth
  <1> USE DEF Truth
  <1>1. ASSUME NEW t \in Tasks, Spawn(t) PROVE ResultsTrue' /\ ClosedForGood' /\ HandlesTruthful'
    <2>1. /\ future[t] = "unspawned" /\ future'[t] = "running"
          /\ \A u \in Tasks : u # t => future'[u] = future[u]
          /\ UNCHANGED <<finished, result, handle, queue, receiver>>
          /\ Owner \in senders /\ senders' = senders \cup {t}
      BY <1>1 DEF Spawn, Types_OK
    <2>2. ResultsTrue'
      BY <2>1 DEF ResultsTrue, Types_OK
    <2>3. Running' = Running \cup {t}
      BY <2>1 DEF Running
    <2>4. receiver # "closed"
      BY <2>1 DEF ClosedForGood
    <2>5. ClosedForGood'
      BY <2>1, <2>3, <2>4 DEF ClosedForGood
    <2>6. \A u \in Tasks : /\ handle'[u] = "Ok" => future'[u] = "returned"
                           /\ handle'[u] = "Cancelled" => future'[u] = "dropped"
      BY <2>1 DEF HandlesTruthful
    <2>7. \A u \in Tasks : finished'[u] => future'[u] \in {"returned", "dropped"}
      <3>1. ~ finished[t]
        BY <2>1 DEF HandlesTruthful
      <3> QED BY <2>1, <3>1, Zenon DEF HandlesTruthful
    <2> QED BY <2>1, <2>2, <2>4, <2>5, <2>6, <2>7 DEF HandlesTruthful
  <1>2. ASSUME NEW t \in Tasks, Return(t) PROVE ResultsTrue' /\ ClosedForGood' /\ HandlesTruthful'
    BY <1>2, EndsTruth DEF Return
  <1>3. ASSUME NEW t \in Tasks, Cancel(t) PROVE ResultsTrue' /\ ClosedForGood' /\ HandlesTruthful'
    BY <1>3, EndsTruth DEF Cancel
  <1>4. ASSUME NEW t \in Tasks, OpenFails(t) PROVE ResultsTrue' /\ ClosedForGood' /\ HandlesTruthful'
    BY <1>4, EndsTruth DEF OpenFails
  <1>5. ASSUME NEW t \in Tasks, Abort(t) PROVE ResultsTrue' /\ ClosedForGood' /\ HandlesTruthful'
    <2>1. ClosedForGood'
      BY <1>5 DEF Abort, ClosedForGood, Running
    <2> QED BY <1>5, <2>1, SameTasksTruth DEF Abort
  <1>6. ASSUME NEW t \in Tasks, Join(t) PROVE ResultsTrue' /\ ClosedForGood' /\ HandlesTruthful'
    <2>1. /\ UNCHANGED <<future, finished, result, queue, senders, receiver>>
          /\ handle'[t] = "joining" /\ \A u \in Tasks : u # t => handle'[u] = handle[u]
      BY <1>6 DEF Join, task, Types_OK
    <2>2. ResultsTrue' /\ ClosedForGood'
      BY <2>1 DEF ResultsTrue, ClosedForGood, Running
    <2>3. \A u \in Tasks : /\ handle'[u] = "Ok" => future'[u] = "returned"
                           /\ handle'[u] = "Cancelled" => future'[u] = "dropped"
      BY <2>1 DEF HandlesTruthful
    <2>4. \A u \in Tasks : finished'[u] => future'[u] \in {"returned", "dropped"}
      BY <2>1, Zenon DEF HandlesTruthful
    <2> QED BY <2>1, <2>2, <2>3, <2>4 DEF HandlesTruthful, Running
  <1>7. ASSUME NEW t \in Tasks, JoinReturns(t) PROVE ResultsTrue' /\ ClosedForGood' /\ HandlesTruthful'
    <2>1. /\ UNCHANGED <<future, finished, queue, senders, receiver>>
          /\ result[t] # None
          /\ handle'[t] = result[t] /\ \A u \in Tasks : u # t => handle'[u] = handle[u]
          /\ result'[t] = None /\ \A u \in Tasks : u # t => result'[u] = result[u]
      BY <1>7 DEF JoinReturns, Types_OK
    <2>2. ResultsTrue' /\ ClosedForGood'
      BY <2>1 DEF ResultsTrue, ClosedForGood, Running
    <2>3. \A u \in Tasks : /\ handle'[u] = "Ok" => future'[u] = "returned"
                           /\ handle'[u] = "Cancelled" => future'[u] = "dropped"
      BY <2>1 DEF HandlesTruthful, ResultsTrue
    <2>4. \A u \in Tasks : finished'[u] => future'[u] \in {"returned", "dropped"}
      BY <2>1, Zenon DEF HandlesTruthful
    <2> QED BY <2>1, <2>2, <2>3, <2>4 DEF HandlesTruthful, Running
  <1>8. ASSUME NEW t \in Tasks, Send(t) PROVE ResultsTrue' /\ ClosedForGood' /\ HandlesTruthful'
    <2>1. t \in senders /\ UNCHANGED <<future, senders, receiver>>
      BY <1>8 DEF Send, task, ClosedForGood, Running
    <2>2. ClosedForGood'
      BY <2>1 DEF ClosedForGood, Running
    <2> QED BY <1>8, <2>2, SameTasksTruth DEF Send, task
  <1>9. ASSUME NEW t \in Tasks, Open(t) PROVE ResultsTrue' /\ ClosedForGood' /\ HandlesTruthful'
    <2>1. ClosedForGood'
      BY <1>9 DEF Open, task, ClosedForGood, Running
    <2> QED BY <1>9, <2>1, SameTasksTruth DEF Open, task
  <1>10. CASE Recv
    <2>1. ClosedForGood'
      BY <1>10 DEF Recv, task, ClosedForGood, Running
    <2> QED BY <1>10, <2>1, SameTasksTruth DEF Recv, task
  <1>11. CASE RecvClosed
    <2>1. ClosedForGood'
      BY <1>11 DEF RecvClosed, task, ClosedForGood, Running
    <2> QED BY <1>11, <2>1, SameTasksTruth DEF RecvClosed, task
  <1>12. CASE DropReceiver
    <2>1. ClosedForGood'
      BY <1>12 DEF DropReceiver, task, ClosedForGood, Running
    <2> QED BY <1>12, <2>1, SameTasksTruth DEF DropReceiver, task
  <1>13. CASE DropOwner
    <2>1. Owner \notin Running
      BY RuntimeAssumptions DEF Running, Tasks
    <2>2. ClosedForGood'
      BY <1>13, <2>1 DEF DropOwner, task, ClosedForGood, Running
    <2> QED BY <1>13, <2>2, SameTasksTruth DEF DropOwner, task
  <1>14. CASE UNCHANGED vars
    <2>1. ClosedForGood'
      BY <1>14 DEF vars, ClosedForGood, Running
    <2> QED BY <1>14, <2>1, SameTasksTruth DEF vars
  <1> QED BY <1>1, <1>2, <1>3, <1>4, <1>5, <1>6, <1>7, <1>8, <1>9, <1>10, <1>11, <1>12, <1>13, <1>14 DEF Next

\* For any number of tasks on each of the adapters, whatever sequence of spawns,
\* aborts and joins: join, is_finished and the Closed of the channel tell the truth.
THEOREM HandlesAreTruthful == Spec => []HandlesTruthful
  <1>1. Truth => HandlesTruthful
    BY DEF Truth
  <1> QED BY <1>1, TruthInit, TruthStep, PTL DEF Spec

-----------------------------------------------------------------------------
(* The storage pool is bounded.                                            *)

\* Initially no slot is leaked and no task runs.
LEMMA PoolInit == Init => Pool
  <1> SUFFICES ASSUME Init PROVE Pool
    OBVIOUS
  <1>1. Types_OK
    BY DEF Init, Types_OK
  <1>2. \A y \in Types : slots[y] = <<>> /\ peak[y] = 0 /\ RunningOf(y) = {}
    BY DEF Init, RunningOf, Running
  <1>3. SlotsHoldRunning
    BY <1>2 DEF SlotsHoldRunning
  <1>4. SlotsWithinPeak
    BY <1>2 DEF SlotsWithinPeak
  <1> QED BY <1>1, <1>3, <1>4 DEF Pool

\* When every slot of a type is busy there are at most as many as tasks of the type run.
LEMMA BusySlots ==
    ASSUME Pool, stack = "embassy", NEW y \in Types, \A i \in DOMAIN slots[y] : slots[y][i] # None
    PROVE  Len(slots[y]) <= Cardinality(RunningOf(y))
  <1> DEFINE q == slots[y]
  <1>1. q \in Seq(Slots)
    BY DEF Pool, Types_OK
  <1>2. Len(q) \in Nat /\ DOMAIN q = 1..Len(q) /\ q \in [1..Len(q) -> Slots]
    BY <1>1, LenProperties
  <1>3. \A i \in 1..Len(q) : q[i] \in RunningOf(y)
    BY <1>2 DEF Pool, SlotsHoldRunning
  <1>4. \A i, j \in 1..Len(q) : q[i] = q[j] => i = j
    BY <1>2 DEF Pool, SlotsHoldRunning
  <1>5. q \in [1..Len(q) -> RunningOf(y)]
    BY <1>2, <1>3
  <1>6. q \in Injection(1..Len(q), RunningOf(y))
    BY <1>4, <1>5 DEF Injection, IsInjective
  <1>7. Cardinality(1..Len(q)) <= Cardinality(RunningOf(y))
    BY <1>6, RunningFinite, FS_Injection
  <1>8. Cardinality(1..Len(q)) = Len(q)
    BY <1>2, FS_Interval
  <1> QED BY <1>7, <1>8

\* After a spawn the busy slots of its type hold its running tasks, each exactly one,
\* and a new slot was leaked only with every other slot busy.
LEMMA SpawnedSlots ==
    ASSUME Pool, stack = "embassy", NEW t \in Tasks, Spawn(t)
    PROVE  LET y == TypeOf[t] IN
           /\ \A i \in DOMAIN slots'[y] : slots'[y][i] # None => slots'[y][i] \in RunningOf(y)'
           /\ \A i, j \in DOMAIN slots'[y] :
                 slots'[y][i] # None /\ slots'[y][i] = slots'[y][j] => i = j
           /\ \A u \in RunningOf(y)' : \E i \in DOMAIN slots'[y] : slots'[y][i] = u
           /\ Len(slots'[y]) <= peak'[y]
  <1> DEFINE y == TypeOf[t]
             q == slots[y]
             r == slots'[y]
  <1>1. y \in Types /\ q \in Seq(Slots) /\ Types_OK
    BY RunningFinite DEF Pool, Types_OK
  <1>2. Len(q) \in Nat /\ DOMAIN q = 1..Len(q) /\ q \in [1..Len(q) -> Slots]
    BY <1>1, LenProperties
  <1>3. RunningOf(y)' = RunningOf(y) \cup {t} /\ t \notin RunningOf(y)
    BY DEF Spawn, Pool, Types_OK, RunningOf, Running
  <1>4. t # None
    BY RuntimeAssumptions DEF Tasks
  <1>5. /\ \A i \in DOMAIN q : q[i] # None => q[i] \in RunningOf(y)
        /\ \A i, j \in DOMAIN q : q[i] # None /\ q[i] = q[j] => i = j
        /\ \A u \in RunningOf(y) : \E i \in DOMAIN q : q[i] = u
        /\ Len(q) <= peak[y]
    BY <1>1 DEF Pool, SlotsHoldRunning, SlotsWithinPeak
  <1>6. peak[y] \in Nat /\ Cardinality(RunningOf(y)) \in Nat
    BY <1>1, RunningFinite DEF Types_OK
  <1>7. peak'[y] = IF peak[y] > Cardinality(RunningOf(y)) THEN peak[y] ELSE 1 + Cardinality(RunningOf(y))
    BY <1>1 DEF Spawn, Types_OK
  <1>8. \/ \E k \in DOMAIN q : q[k] = None /\ r = [q EXCEPT ![k] = t]
        \/ (\A i \in DOMAIN q : q[i] # None) /\ r = Append(q, t)
    BY <1>1, PlacedInSlot DEF Spawn
  <1>9. CASE \E k \in DOMAIN q : q[k] = None /\ r = [q EXCEPT ![k] = t]
    <2>1. PICK k \in DOMAIN q : q[k] = None /\ r = [q EXCEPT ![k] = t]
      BY <1>9
    <2>2. DOMAIN r = DOMAIN q /\ r[k] = t /\ \A i \in DOMAIN q : i # k => r[i] = q[i]
      BY <1>2, <2>1
    <2>3. r \in Seq(Slots) /\ Len(r) = Len(q)
      <3>1. r \in [1..Len(q) -> Slots]
        BY <1>2, <2>1 DEF Slots
      <3>2. r \in Seq(Slots)
        BY <1>2, <3>1
      <3> QED BY <1>2, <3>1, <3>2
    <2> HIDE DEF r, q, y
    <2>4. \A i \in DOMAIN r : r[i] # None => r[i] \in RunningOf(y) \cup {t}
      BY <1>5, <2>2
    <2>5. \A i, j \in DOMAIN r : r[i] # None /\ r[i] = r[j] => i = j
      BY <1>3, <1>5, <2>2, <1>4
    <2>6. \A u \in RunningOf(y) \cup {t} : \E i \in DOMAIN r : r[i] = u
      <3>1. RunningOf(y) \subseteq Tasks
        BY DEF RunningOf, Running
      <3>2. None \notin RunningOf(y)
        BY <3>1, RuntimeAssumptions DEF Tasks
      <3> QED BY <1>5, <2>1, <2>2, <3>2
    <2>7. Len(r) <= peak'[y]
      BY <1>2, <1>5, <1>6, <1>7, <2>3
    <2> QED BY <1>3, <2>4, <2>5, <2>6, <2>7 DEF r, q, y
  <1>10. CASE (\A i \in DOMAIN q : q[i] # None) /\ r = Append(q, t)
    <2>1. Len(q) <= Cardinality(RunningOf(y))
      BY <1>1, <1>10, BusySlots
    <2>2. Len(r) = Len(q) + 1 /\ DOMAIN r = 1..(Len(q) + 1)
      BY <1>1, <1>10
    <2>3. r[Len(q) + 1] = t /\ \A i \in 1..Len(q) : r[i] = q[i]
      BY <1>1, <1>2, <1>10
    <2> HIDE DEF r, q, y
    <2>4. \A i \in DOMAIN r : r[i] # None => r[i] \in RunningOf(y) \cup {t}
      BY <1>2, <1>5, <2>2, <2>3
    <2>5. \A i, j \in DOMAIN r : r[i] # None /\ r[i] = r[j] => i = j
      BY <1>2, <1>3, <1>5, <1>10, <2>2, <2>3
    <2>6. \A u \in RunningOf(y) \cup {t} : \E i \in DOMAIN r : r[i] = u
      BY <1>2, <1>5, <2>2, <2>3
    <2>7. Len(r) <= peak'[y]
      BY <1>2, <1>6, <1>7, <2>1, <2>2
    <2> QED BY <1>3, <2>4, <2>5, <2>6, <2>7 DEF r, q, y
  <1> QED BY <1>8, <1>9, <1>10

\* The end of a future frees its slot and no other.
LEMMA EndsPool ==
    ASSUME Pool, NEW t \in Tasks, future[t] = "running", NEW how \in {"returned", "dropped"}, NEW outcome,
           Ends(t, how, outcome), UNCHANGED <<stack, peak>>
    PROVE  SlotsHoldRunning' /\ SlotsWithinPeak'
  <1> SUFFICES ASSUME stack = "embassy" PROVE SlotsHoldRunning' /\ SlotsWithinPeak'
    BY DEF SlotsHoldRunning, SlotsWithinPeak
  <1>1. t # None /\ TypeOf[t] \in Types /\ slots \in [Types -> Seq(Slots)]
    BY RunningFinite, RuntimeAssumptions DEF Tasks, Pool, Types_OK
  <1>2. \A y : RunningOf(y)' = RunningOf(y) \ {t}
    BY DEF RunningOf, Running, Ends, Pool, Types_OK
  <1>3. \A y \in Types : DOMAIN slots'[y] = DOMAIN slots[y] /\ Len(slots'[y]) = Len(slots[y])
    <2> SUFFICES ASSUME NEW y \in Types PROVE DOMAIN slots'[y] = DOMAIN slots[y] /\ Len(slots'[y]) = Len(slots[y])
      OBVIOUS
    <2>1. CASE y = TypeOf[t]
      <3>1. slots'[y] = [i \in DOMAIN slots[y] |-> IF slots[y][i] = t THEN None ELSE slots[y][i]]
        BY <1>1, <2>1 DEF Ends
      <3> QED BY <1>1, <3>1, FreedSlots
    <2>2. CASE y # TypeOf[t]
      BY <1>1, <2>2 DEF Ends
    <2> QED BY <2>1, <2>2
  <1>4. \A y \in Types : \A i \in DOMAIN slots[y] : slots'[y][i] = IF slots[y][i] = t THEN None ELSE slots[y][i]
    <2> SUFFICES ASSUME NEW y \in Types, NEW i \in DOMAIN slots[y]
                 PROVE  slots'[y][i] = IF slots[y][i] = t THEN None ELSE slots[y][i]
      OBVIOUS
    <2>1. CASE y = TypeOf[t]
      BY <1>1, <2>1 DEF Ends
    <2>2. CASE y # TypeOf[t]
      <3>1. slots[y][i] # t
        BY <1>1, <2>2 DEF Pool, SlotsHoldRunning, RunningOf
      <3> QED BY <1>1, <2>2, <3>1 DEF Ends
    <2> QED BY <2>1, <2>2
  <1>5. SlotsWithinPeak'
    BY <1>3 DEF Pool, SlotsWithinPeak
  <1>6. ASSUME NEW y \in Types
        PROVE  /\ \A i \in DOMAIN slots'[y] : slots'[y][i] # None => slots'[y][i] \in RunningOf(y)'
               /\ \A i, j \in DOMAIN slots'[y] :
                     slots'[y][i] # None /\ slots'[y][i] = slots'[y][j] => i = j
               /\ \A u \in RunningOf(y)' : \E i \in DOMAIN slots'[y] : slots'[y][i] = u
    <2>1. /\ \A i \in DOMAIN slots[y] : slots[y][i] # None => slots[y][i] \in RunningOf(y)
          /\ \A i, j \in DOMAIN slots[y] : slots[y][i] # None /\ slots[y][i] = slots[y][j] => i = j
          /\ \A u \in RunningOf(y) : \E i \in DOMAIN slots[y] : slots[y][i] = u
      BY DEF Pool, SlotsHoldRunning
    <2>2. /\ DOMAIN slots'[y] = DOMAIN slots[y]
          /\ \A i \in DOMAIN slots[y] : slots'[y][i] = IF slots[y][i] = t THEN None ELSE slots[y][i]
      BY <1>3, <1>4
    <2>3. \A i \in DOMAIN slots'[y] : slots'[y][i] # None => slots'[y][i] \in RunningOf(y)'
      BY <1>2, <2>1, <2>2
    <2>4. \A i, j \in DOMAIN slots'[y] : slots'[y][i] # None /\ slots'[y][i] = slots'[y][j] => i = j
      BY <2>1, <2>2
    <2>5. \A u \in RunningOf(y)' : \E i \in DOMAIN slots'[y] : slots'[y][i] = u
      BY <1>2, <2>1, <2>2
    <2> QED BY <2>3, <2>4, <2>5
  <1>7. SlotsHoldRunning'
    BY <1>6 DEF SlotsHoldRunning
  <1> QED BY <1>5, <1>7

\* Every step keeps the slots and the running tasks together.
LEMMA PoolStep == Pool /\ [Next]_vars => Pool'
  <1> SUFFICES ASSUME Pool, [Next]_vars PROVE SlotsHoldRunning' /\ SlotsWithinPeak'
    BY TypesStep DEF Pool
  <1>1. ASSUME NEW t \in Tasks, Spawn(t) PROVE SlotsHoldRunning' /\ SlotsWithinPeak'
    <2> SUFFICES ASSUME stack = "embassy" PROVE SlotsHoldRunning' /\ SlotsWithinPeak'
      BY <1>1 DEF SlotsHoldRunning, SlotsWithinPeak, Spawn
    <2>1. \A z \in Types : z # TypeOf[t] => /\ slots'[z] = slots[z] /\ peak'[z] = peak[z]
                                            /\ RunningOf(z)' = RunningOf(z)
      <3>1. \A z \in Types : z # TypeOf[t] => slots'[z] = slots[z]
        BY <1>1, PlacedInSlot DEF Spawn, Pool
      <3>2. \A z \in Types : z # TypeOf[t] => peak'[z] = peak[z]
        BY <1>1 DEF Spawn, Pool, Types_OK
      <3>3. \A z \in Types : z # TypeOf[t] => RunningOf(z)' = RunningOf(z)
        BY <1>1 DEF Spawn, Pool, Types_OK, RunningOf, Running
      <3> QED BY <3>1, <3>2, <3>3
    <2>2. ASSUME NEW y \in Types
          PROVE  /\ \A i \in DOMAIN slots'[y] : slots'[y][i] # None => slots'[y][i] \in RunningOf(y)'
                 /\ \A i, j \in DOMAIN slots'[y] :
                       slots'[y][i] # None /\ slots'[y][i] = slots'[y][j] => i = j
                 /\ \A u \in RunningOf(y)' : \E i \in DOMAIN slots'[y] : slots'[y][i] = u
                 /\ Len(slots'[y]) <= peak'[y]
      <3>1. CASE y = TypeOf[t]
        BY <1>1, <3>1, SpawnedSlots
      <3>2. CASE y # TypeOf[t]
        BY <2>1, <3>2 DEF Pool, SlotsHoldRunning, SlotsWithinPeak
      <3> QED BY <3>1, <3>2
    <2> QED BY <2>2 DEF SlotsHoldRunning, SlotsWithinPeak
  <1>2. ASSUME NEW t \in Tasks, Return(t) PROVE SlotsHoldRunning' /\ SlotsWithinPeak'
    BY <1>2, EndsPool DEF Return
  <1>3. ASSUME NEW t \in Tasks, Cancel(t) PROVE SlotsHoldRunning' /\ SlotsWithinPeak'
    BY <1>3, EndsPool DEF Cancel
  <1>4. ASSUME NEW t \in Tasks, OpenFails(t) PROVE SlotsHoldRunning' /\ SlotsWithinPeak'
    BY <1>4, EndsPool DEF OpenFails
  <1>5. ASSUME UNCHANGED <<stack, future, slots, peak>> PROVE SlotsHoldRunning' /\ SlotsWithinPeak'
    BY <1>5 DEF Pool, SlotsHoldRunning, SlotsWithinPeak, RunningOf, Running
  <1>6. ASSUME NEW t \in Tasks, Abort(t) \/ Join(t) \/ JoinReturns(t) \/ Send(t) \/ Open(t)
        PROVE  SlotsHoldRunning' /\ SlotsWithinPeak'
    BY <1>5, <1>6 DEF Abort, Join, JoinReturns, Send, Open, task
  <1>7. CASE Recv \/ RecvClosed \/ DropReceiver \/ DropOwner
    BY <1>5, <1>7 DEF Recv, RecvClosed, DropReceiver, DropOwner, task
  <1>8. CASE UNCHANGED vars
    BY <1>5, <1>8 DEF vars
  <1> QED BY <1>1, <1>2, <1>3, <1>4, <1>6, <1>7, <1>8 DEF Next

\* For any number of tasks and of future types: the memory embassy's storage pool
\* leaks is bounded by the peak of running tasks per type, and every running task has
\* a slot of its own.
THEOREM PoolIsBounded == Spec => []PoolBounded
  <1>1. Pool => PoolBounded
    <2> SUFFICES ASSUME Pool, stack = "embassy", NEW y \in Types
                 PROVE  /\ Len(slots[y]) <= peak[y]
                        /\ \A t \in RunningOf(y) : Cardinality({i \in DOMAIN slots[y] : slots[y][i] = t}) = 1
      BY DEF PoolBounded
    <2>1. Len(slots[y]) <= peak[y]
      BY DEF Pool, SlotsWithinPeak
    <2>2. ASSUME NEW t \in RunningOf(y)
          PROVE  Cardinality({i \in DOMAIN slots[y] : slots[y][i] = t}) = 1
      <3>1. t # None
        BY RuntimeAssumptions DEF RunningOf, Running, Tasks
      <3>2. PICK k \in DOMAIN slots[y] : slots[y][k] = t
        BY DEF Pool, SlotsHoldRunning
      <3>3. {i \in DOMAIN slots[y] : slots[y][i] = t} = {k}
        BY <3>1, <3>2 DEF Pool, SlotsHoldRunning
      <3> QED BY <3>3, FS_Singleton
    <2> QED BY <2>1, <2>2
  <1> QED BY <1>1, PoolInit, PoolStep, PTL DEF Spec
=============================================================================

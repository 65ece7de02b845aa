-------------------------- MODULE SeedRunnerProofs --------------------------
(***************************************************************************)
(* That seeders run after those they depend on, that a key has one record, *)
(* that others see whole transactions, and that a run that succeeds leaves *)
(* the last item of every key, for any programs, processes and numbers of  *)
(* runs.  The registry, the order of a run and its items are folds: what   *)
(* they keep at every step is proved by induction over the prefixes of a   *)
(* sequence.                                                               *)
(***************************************************************************)
EXTENDS SeedRunner, FiniteSetTheorems, WellFoundedInduction, TLAPS

\* Registries as Register leaves them.
GoodRegistry(reg) ==
    /\ reg = [order |-> reg.order, seeders |-> reg.seeders]
    /\ reg.order \in Seq(Nat)
    /\ reg.seeders = [n \in DOMAIN reg.seeders |-> reg.seeders[n]]
    /\ \A n \in DOMAIN reg.seeders : reg.seeders[n] \in Seeder /\ reg.seeders[n].name = n
    /\ Range(reg.order) = DOMAIN reg.seeders
    /\ IsInjective(reg.order)

RunState ==
    [pc : {"idle", "next", "find", "create", "update", "return", "ok", "failed"}, mode : Mode,
     todo : Seq(Seeder), done : Seq(Nat), current : Seeder, item : Nat, alone : BOOLEAN]

\* The seeders that will have returned when the next one begins.
Behind(r) == Range(r.done) \cup IF r.pc = "next" THEN {} ELSE {r.current.name}

\* The dependencies of the seeder that runs have returned, and those of a seeder to
\* come have, or come before it.
InOrder(r) ==
    /\ r.current.deps \subseteq Range(r.done)
    /\ \A j \in 1..Len(r.todo) :
           r.todo[j].deps \subseteq Behind(r) \cup {r.todo[h].name : h \in 1..j-1}

GoodRun(r) ==
    /\ r \in RunState
    /\ r.pc \in {"find", "create", "update"} => r.item \in 1..Len(r.current.items)
    /\ r.mode # "direct" => InOrder(r)

\* A row that a transaction has written is there, and had the same key before.
DatabaseInv(R, U) ==
    /\ R \in [Id -> Row \cup {Nothing}]
    /\ U = [p \in Process |-> U[p]]
    /\ \A p \in Process :
          /\ DOMAIN U[p] \subseteq Id
          /\ U[p] \in [DOMAIN U[p] -> Row \cup {Nothing}]
          /\ \A i \in DOMAIN U[p] : /\ R[i] # Nothing
                                    /\ U[p][i] # Nothing => U[p][i].key = R[i].key
    /\ \A p \in Process : \A q \in Process \ {p} : DOMAIN U[p] \cap DOMAIN U[q] = {}

OneRuns == ~ overlapped => \A p \in Process, q \in Process : Ended(p) \/ Ended(q) \/ p = q

\* No transaction is open outside of runs, in Sync with the database itself, and
\* between seeders with one each.
NoTransaction(r) ==
    \/ r.pc \in {"idle", "ok", "failed"}
    \/ r.mode = "direct"
    \/ r.mode = "per_seeder" /\ r.pc = "next"

NothingToUndo == \A p \in Process : NoTransaction(run[p]) => DOMAIN undo[p] = {}

AllLive(R, U) ==
    /\ \A i \in Id : R[i] # Nothing => R[i].live
    /\ \A p \in Process : \A i \in DOMAIN U[p] : U[p][i] # Nothing => U[p][i].live

KeysDiffer(R) ==
    \A i \in Id, j \in Id : R[i] # Nothing /\ R[j] # Nothing /\ R[i].key = R[j].key => i = j

\* What SyncFind did not find is not there when SyncCreate writes.
LookupHolds ==
    \A p \in Process : run[p].pc = "create" =>
        \A i \in Id : rows[i] # Nothing => rows[i].key # Item(p).key

Undisturbed == ~ overlapped /\ deletions = 0

RunInv == run \in [Process -> RunState] /\ \A p \in Process : GoodRun(run[p])
RegistryInv ==
    registry = [p \in Process |-> registry[p]] /\ \A p \in Process : GoodRegistry(registry[p])
CountersInv ==
    deletions \in 0..MaxDelete /\ runs \in 0..MaxRun /\ unique \in BOOLEAN /\ overlapped \in BOOLEAN

IInv ==
    /\ RegistryInv
    /\ RunInv
    /\ CountersInv
    /\ DatabaseInv(rows, undo)
    /\ OneRuns
    /\ NothingToUndo
    /\ deletions = 0 => AllLive(rows, undo)
    /\ unique \/ Undisturbed => KeysDiffer(rows)
    /\ Undisturbed => LookupHolds

-----------------------------------------------------------------------------
\* Folds over sequences

LEMMA LeastOf ==
    ASSUME NEW S \in SUBSET Nat, S # {}
    PROVE  Min(S) \in S /\ \A x \in S : Min(S) <= x
  <1>1. PICK x \in S : \A y \in S : ~ (<<y, x>> \in OpToRel(<, Nat))
    BY NatLessThanWellFounded, WFMin
  <1>2. ASSUME NEW y \in S, y < x PROVE FALSE
    <2> DEFINE pair == <<y, x>>
    <2>1. pair \in Nat \X Nat /\ pair[1] = y /\ pair[2] = x
      OBVIOUS
    <2> HIDE DEF pair
    <2>2. pair \in OpToRel(<, Nat)
      BY <1>2, <2>1 DEF OpToRel
    <2> QED
      BY <1>1, <2>2 DEF pair
  <1>3. \A y \in S : x <= y
    BY <1>2
  <1> QED
    BY <1>3 DEF Min

\* Induction up to n, with the numbers it holds for as a set.
LEMMA UpTo ==
    ASSUME NEW n \in Nat, NEW T, 0 \in T, \A k \in 0..n-1 : k \in T => k + 1 \in T
    PROVE  n \in T
  <1> DEFINE missing == {k \in 0..n : k \notin T}
  <1> SUFFICES ASSUME missing # {} PROVE FALSE
    OBVIOUS
  <1>1. missing \in SUBSET Nat
    OBVIOUS
  <1>2. Min(missing) \in missing /\ \A x \in missing : Min(missing) <= x
    BY <1>1, LeastOf
  <1> DEFINE k == Min(missing) - 1
  <1>3. k \in 0..n-1 /\ k + 1 = Min(missing)
    BY <1>2
  <1>4. k \in T
    BY <1>2, <1>3
  <1> QED
    BY <1>2, <1>3, <1>4

LEMMA GreatestOf ==
    ASSUME NEW n \in Nat, NEW s, s \subseteq 1..n, s # {}
    PROVE  Max(s) \in s /\ \A x \in s : Max(s) >= x
  <1> DEFINE above == {m \in Nat : \A x \in s : m >= x}
  <1>1. above \in SUBSET Nat /\ n \in above
    OBVIOUS
  <1> DEFINE m == Min(above)
  <1>2. m \in above /\ \A x \in above : m <= x
    BY <1>1, LeastOf
  <1> HIDE DEF m
  <1>3. m \in s
    <2> SUFFICES ASSUME m \notin s PROVE FALSE
      OBVIOUS
    <2>1. \A x \in s : x \in Nat /\ x >= 1 /\ m > x
      BY <1>2
    <2>2. m \in Nat /\ m > 0
      <3>1. PICK x \in s : TRUE
        OBVIOUS
      <3>2. m \in Nat
        BY <1>2
      <3> QED
        BY <2>1, <3>1, <3>2
    <2>3. m - 1 \in Nat /\ \A x \in s : m - 1 >= x
      BY <2>1, <2>2
    <2>4. m - 1 \in above
      BY <2>3
    <2> QED
      BY <1>2, <2>2, <2>4
  <1>4. \A x \in s : m >= x
    BY <1>2
  <1> QED
    BY <1>3, <1>4 DEF Max

LEMMA GreatestOfPrefix ==
    ASSUME NEW n \in Nat, NEW k \in 0..n-1
    PROVE  /\ 1..k+1 \in SUBSET (1..n) /\ 1..k+1 # {} /\ k + 1 \in 1..n
           /\ k + 1 = Max(1..k+1) /\ 1..k = (1..k+1) \ {k + 1}
  <1>1. k \in Nat /\ k + 1 \in 1..n /\ 1..k+1 \subseteq 1..n
    OBVIOUS
  <1>2. k + 1 \in 1..k+1
    BY <1>1
  <1>3. Max(1..k+1) \in 1..k+1 /\ \A x \in 1..k+1 : Max(1..k+1) >= x
    BY <1>1, <1>2, GreatestOf
  <1> QED
    BY <1>1, <1>2, <1>3

\* f is the iteration of step over the sets of numbers up to n, greatest last.
Iterates(f, n, base, step) ==
    \A s \in SUBSET (1..n) :
        f[s] = IF s = {} THEN base ELSE step[<<Max(s), f[s \ {Max(s)}]>>]

LEMMA IterationExtends ==
    ASSUME NEW n \in Nat, NEW V, NEW base \in V, NEW m \in 0..n-1, NEW step \in [(1..n) \X V -> V],
           NEW f \in [SUBSET (1..m) -> V], Iterates(f, m, base, step)
    PROVE  \E g \in [SUBSET (1..m+1) -> V] : Iterates(g, m + 1, base, step)
  <1> DEFINE g == [s \in SUBSET (1..m+1) |->
                      IF s \in SUBSET (1..m) THEN f[s] ELSE step[<<Max(s), f[s \ {Max(s)}]>>]]
  <1>1. ASSUME NEW s \in SUBSET (1..m+1), s \notin SUBSET (1..m)
        PROVE  Max(s) = m + 1 /\ s \ {m + 1} \in SUBSET (1..m) /\ s # {}
    <2>1. m + 1 \in s /\ s # {} /\ m + 1 \in Nat /\ s \subseteq 1..m+1
      BY <1>1
    <2>2. Max(s) \in s /\ \A x \in s : Max(s) >= x
      BY <2>1, GreatestOf
    <2> HIDE DEF g
    <2>3. Max(s) \in 1..m+1
      BY <2>1, <2>2
    <2>4. Max(s) >= m + 1
      BY <2>1, <2>2
    <2>5. m \in Nat
      OBVIOUS
    <2> DEFINE greatest == Max(s)
    <2>6. greatest \in 1..m+1 /\ greatest >= m + 1
      BY <2>3, <2>4
    <2> HIDE DEF greatest
    <2>7. greatest = m + 1
      BY <2>5, <2>6
    <2> QED
      BY <2>1, <2>7 DEF greatest
  <1>2. \A s \in SUBSET (1..m) : g[s] = f[s] /\ f[s] \in V
    OBVIOUS
  <1>3. \A s \in SUBSET (1..m+1) : s \notin SUBSET (1..m) => g[s] = step[<<m + 1, f[s \ {m + 1}]>>]
    BY <1>1
  <1>4. \A s \in SUBSET (1..m+1) : s \notin SUBSET (1..m) => g[s] \in V
    <2>1. m + 1 \in 1..n
      OBVIOUS
    <2> QED
      BY <1>1, <1>2, <1>3, <2>1
  <1>5. g \in [SUBSET (1..m+1) -> V]
    BY <1>2, <1>4
  <1> HIDE DEF g
  <1>6. ASSUME NEW s \in SUBSET (1..m+1)
        PROVE  g[s] = IF s = {} THEN base ELSE step[<<Max(s), g[s \ {Max(s)}]>>]
    <2>1. CASE s \in SUBSET (1..m)
      <3>1. s \ {Max(s)} \in SUBSET (1..m)
        BY <2>1
      <3> QED
        BY <1>2, <2>1, <3>1 DEF Iterates
    <2>2. CASE s \notin SUBSET (1..m)
      BY <1>1, <1>2, <1>3, <2>2
    <2> QED
      BY <2>1, <2>2
  <1> QED
    BY <1>5, <1>6 DEF Iterates

\* Iteration from the greatest number down is defined on every set of numbers.
LEMMA IterationExists ==
    ASSUME NEW n \in Nat, NEW V, NEW base \in V, NEW step \in [(1..n) \X V -> V]
    PROVE  \E f \in [SUBSET (1..n) -> V] : Iterates(f, n, base, step)
  <1> DEFINE Done(m) == m <= n => \E f \in [SUBSET (1..m) -> V] : Iterates(f, m, base, step)
             T == {m \in Nat : Done(m)}
  <1>1. Done(0)
    <2> DEFINE f == [s \in SUBSET (1..0) |-> base]
    <2>1. f \in [SUBSET (1..0) -> V] /\ \A s \in SUBSET (1..0) : s = {} /\ f[s] = base
      OBVIOUS
    <2>2. Iterates(f, 0, base, step)
      BY <2>1 DEF Iterates
    <2> QED
      BY <2>1, <2>2
  <1>2. ASSUME NEW m \in 0..n-1, Done(m) PROVE Done(m + 1)
    <2>1. m <= n
      OBVIOUS
    <2>2. PICK f \in [SUBSET (1..m) -> V] : Iterates(f, m, base, step)
      BY <1>2, <2>1
    <2>3. \E g \in [SUBSET (1..m+1) -> V] : Iterates(g, m + 1, base, step)
      BY <2>2, IterationExtends
    <2> QED
      BY <2>3
  <1> HIDE DEF Done
  <1>3. n \in T
    <2>1. 0 \in T /\ \A m \in 0..n-1 : m \in T => m + 1 \in T
      BY <1>1, <1>2
    <2> HIDE DEF T
    <2> QED
      BY <2>1, UpTo
  <1>4. n <= n
    OBVIOUS
  <1>5. Done(n)
    BY <1>3
  <1> QED
    BY <1>4, <1>5 DEF Done

-----------------------------------------------------------------------------
\* The registry

Registries ==
    {reg \in [order : Seq(Nat), seeders : UNION {[D -> Seeder] : D \in SUBSET Nat}] : GoodRegistry(reg)}

LEMMA GoodRegistries == ASSUME NEW reg PROVE reg \in Registries <=> GoodRegistry(reg)
  <1> SUFFICES ASSUME GoodRegistry(reg)
               PROVE  reg \in [order : Seq(Nat), seeders : UNION {[D -> Seeder] : D \in SUBSET Nat}]
    BY DEF Registries
  <1>1. reg.order \in Seq(Nat) /\ DOMAIN reg.order = 1..Len(reg.order)
    BY DEF GoodRegistry
  <1>2. DOMAIN reg.seeders \in SUBSET Nat
    BY <1>1 DEF GoodRegistry, Range
  <1>3. reg.seeders \in [DOMAIN reg.seeders -> Seeder]
    BY DEF GoodRegistry
  <1>4. reg.seeders \in UNION {[D -> Seeder] : D \in SUBSET Nat}
    BY <1>2, <1>3
  <1> QED
    BY <1>1, <1>4 DEF GoodRegistry

LEMMA NoRegistryIsGood == GoodRegistry(NoRegistry)
  BY DEF GoodRegistry, NoRegistry, Range, IsInjective

LEMMA RegisteredIsGood ==
    ASSUME NEW reg, GoodRegistry(reg), NEW seeder \in Seeder
    PROVE  GoodRegistry(Registered(reg, seeder))
  <1> DEFINE n == seeder.name
             new == Registered(reg, seeder)
  <1>1. n \in Nat /\ reg.order \in Seq(Nat) /\ Range(reg.order) = DOMAIN reg.seeders
    BY DEF GoodRegistry, Seeder
  <1>2. /\ new = [order |-> new.order, seeders |-> new.seeders]
        /\ new.order = IF n \in DOMAIN reg.seeders THEN reg.order ELSE Append(reg.order, n)
        /\ new.seeders = Over([x \in {n} |-> seeder], reg.seeders)
    BY DEF Registered
  <1>3. /\ DOMAIN new.seeders = DOMAIN reg.seeders \cup {n}
        /\ new.seeders = [x \in DOMAIN new.seeders |-> new.seeders[x]]
        /\ new.seeders[n] = seeder
        /\ \A x \in DOMAIN reg.seeders : x # n => new.seeders[x] = reg.seeders[x]
    BY <1>2 DEF Over
  <1> HIDE DEF new
  <1>4. \A x \in DOMAIN new.seeders : new.seeders[x] \in Seeder /\ new.seeders[x].name = x
    BY <1>3 DEF GoodRegistry
  <1> SUFFICES /\ new.order \in Seq(Nat) /\ IsInjective(new.order)
                /\ Range(new.order) = DOMAIN new.seeders
    BY <1>2, <1>3, <1>4 DEF GoodRegistry, new
  <1>5. CASE n \in DOMAIN reg.seeders
    <2>1. new.order = reg.order /\ DOMAIN new.seeders = DOMAIN reg.seeders
      BY <1>2, <1>3, <1>5
    <2> QED
      BY <1>1, <2>1 DEF GoodRegistry
  <1>6. CASE n \notin DOMAIN reg.seeders
    <2>1. /\ new.order = Append(reg.order, n)
          /\ new.order \in Seq(Nat)
          /\ Len(new.order) = Len(reg.order) + 1
          /\ new.order[Len(reg.order) + 1] = n
          /\ \A i \in 1..Len(reg.order) : new.order[i] = reg.order[i]
      BY <1>1, <1>2, <1>6
    <2>2. DOMAIN new.order = 1..Len(reg.order) + 1 /\ DOMAIN reg.order = 1..Len(reg.order) /\ Len(reg.order) \in Nat
      BY <1>1, <2>1
    <2>3. \A i \in DOMAIN new.order : i \in DOMAIN reg.order \/ i = Len(reg.order) + 1
      BY <2>2
    <2>4. Range(new.order) = Range(reg.order) \cup {n}
      <3>1. Range(new.order) \subseteq Range(reg.order) \cup {n}
        BY <2>1, <2>2, <2>3 DEF Range
      <3>2. Range(reg.order) \subseteq Range(new.order)
        BY <2>1, <2>2 DEF Range
      <3>3. Len(reg.order) + 1 \in DOMAIN new.order
        BY <2>2
      <3>4. n \in Range(new.order)
        BY <2>1, <3>3 DEF Range
      <3> QED
        BY <3>1, <3>2, <3>4
    <2>5. IsInjective(new.order)
      <3>1. \A i \in DOMAIN reg.order : reg.order[i] # n
        BY <1>1, <1>6 DEF Range
      <3>2. IsInjective(reg.order)
        BY DEF GoodRegistry
      <3> QED
        BY <2>1, <2>2, <2>3, <3>1, <3>2 DEF IsInjective
    <2> QED
      BY <1>1, <1>3, <2>1, <2>4, <2>5
  <1> QED
    BY <1>5, <1>6

\* Register leaves a good registry, whatever the program registers.
LEMMA ProgramsRegister ==
    ASSUME NEW program \in Seq(Seeder)
    PROVE  GoodRegistry(FoldLeft(Registered, NoRegistry, program))
  <1> DEFINE n == Len(program)
             IsFold(f) == f = [s \in SUBSET DOMAIN program |->
                                 IF s = {} THEN NoRegistry
                                 ELSE Registered(f[s \ {Max(s)}], program[Max(s)])]
             fold == CHOOSE f : IsFold(f)
             step == [x \in (1..n) \X Registries |-> Registered(x[2], program[x[1]])]
  <1>1. n \in Nat /\ DOMAIN program = 1..n /\ \A k \in 1..n : program[k] \in Seeder
    OBVIOUS
  <1>2. NoRegistry \in Registries
    BY NoRegistryIsGood, GoodRegistries
  <1>3. \A reg \in Registries, k \in 1..n : Registered(reg, program[k]) \in Registries
    BY <1>1, RegisteredIsGood, GoodRegistries
  <1>4. step \in [(1..n) \X Registries -> Registries]
    BY <1>3
  <1>5. \A k \in 1..n, reg \in Registries : step[<<k, reg>>] = Registered(reg, program[k])
    OBVIOUS
  <1> HIDE DEF step
  <1>6. IsFold(fold)
    <2>1. PICK f \in [SUBSET (1..n) -> Registries] : Iterates(f, n, NoRegistry, step)
      BY <1>1, <1>2, <1>4, IterationExists
    <2>2. ASSUME NEW s \in SUBSET (1..n), s # {}
          PROVE  f[s] = Registered(f[s \ {Max(s)}], program[Max(s)])
      <3>1. Max(s) \in 1..n
        BY <1>1, <2>2, GreatestOf
      <3>2. f[s \ {Max(s)}] \in Registries
        OBVIOUS
      <3> QED
        BY <1>5, <2>1, <2>2, <3>1, <3>2 DEF Iterates
    <2>3. f[{}] = NoRegistry
      BY <2>1 DEF Iterates
    <2>4. IsFold(f)
      BY <1>1, <2>2, <2>3
    <2> QED
      BY <2>4
  <1>7. FoldLeft(Registered, NoRegistry, program) = fold[1..n]
    BY <1>1 DEF FoldLeft, MapThenFoldSet
  <1> HIDE DEF fold
  <1>8. fold[1..0] = NoRegistry
    BY <1>1, <1>6
  <1>9. ASSUME NEW k \in 0..n-1 PROVE fold[1..k+1] = Registered(fold[1..k], program[k+1])
    <2>1. /\ 1..k+1 \in SUBSET (1..n) /\ 1..k+1 # {} /\ k + 1 \in 1..n
          /\ k + 1 = Max(1..k+1) /\ 1..k = (1..k+1) \ {k + 1}
      BY <1>1, GreatestOfPrefix
    <2> QED
      BY <1>1, <1>6, <2>1
  <1> HIDE DEF IsFold
  <1> DEFINE T == {k \in 0..n : fold[1..k] \in Registries}
  <1>10. 0 \in T
    BY <1>1, <1>2, <1>8
  <1>11. \A k \in 0..n-1 : k \in T => k + 1 \in T
    BY <1>1, <1>3, <1>9
  <1>12. n \in T
    <2> HIDE DEF T
    <2> QED
      BY <1>1, <1>10, <1>11, UpTo
  <1> QED
    BY <1>7, <1>12, GoodRegistries

\* The orders of seeders of reg in which those a seeder depends on stand before it.
Orders(reg) ==
    {order \in Seq(DOMAIN reg.seeders) :
        \A j \in 1..Len(order) : reg.seeders[order[j]].deps \subseteq {order[h] : h \in 1..j-1}}

\* An order with one more seeder, if there is one to place.
Placed(reg, order) ==
    IF Placeable(reg, Range(order)) = {} THEN order
    ELSE Append(order, Min(Placeable(reg, Range(order))))

LEMMA PlacedIsInOrder ==
    ASSUME NEW reg, GoodRegistry(reg), NEW order \in Orders(reg)
    PROVE  Placed(reg, order) \in Orders(reg)
  <1> DEFINE ready == Placeable(reg, Range(order))
             n == Min(ready)
             new == Append(order, n)
  <1> SUFFICES ASSUME ready # {} PROVE new \in Orders(reg)
    BY DEF Placed
  <1>1. ready \in SUBSET Nat
    <2>1. DOMAIN reg.seeders = Range(reg.order) /\ reg.order \in Seq(Nat)
      BY DEF GoodRegistry
    <2> QED
      BY <2>1 DEF Placeable, Range
  <1>2. n \in ready
    BY <1>1, LeastOf
  <1>3. n \in DOMAIN reg.seeders /\ reg.seeders[n].deps \subseteq Range(order)
    BY <1>2 DEF Placeable
  <1>4. order \in Seq(DOMAIN reg.seeders)
    BY DEF Orders
  <1> HIDE DEF n, ready
  <1>5. /\ new \in Seq(DOMAIN reg.seeders) /\ Len(new) = Len(order) + 1
        /\ new[Len(order) + 1] = n /\ Len(order) \in Nat
        /\ \A h \in 1..Len(order) : new[h] = order[h]
    BY <1>3, <1>4
  <1>6. Range(order) = {order[h] : h \in 1..Len(order)}
    BY <1>4 DEF Range
  <1> HIDE DEF new
  <1>7. ASSUME NEW j \in 1..Len(new)
        PROVE  reg.seeders[new[j]].deps \subseteq {new[h] : h \in 1..j-1}
    <2>1. CASE j = Len(order) + 1
      <3>1. {order[h] : h \in 1..Len(order)} \subseteq {new[h] : h \in 1..j-1}
        BY <1>5, <2>1
      <3> QED
        BY <1>3, <1>5, <1>6, <2>1, <3>1
    <2>2. CASE j # Len(order) + 1
      <3>1. j \in 1..Len(order)
        BY <1>5, <2>2
      <3>2. reg.seeders[order[j]].deps \subseteq {order[h] : h \in 1..j-1}
        BY <3>1 DEF Orders
      <3>3. {order[h] : h \in 1..j-1} \subseteq {new[h] : h \in 1..j-1}
        BY <1>5, <3>1
      <3> QED
        BY <1>5, <3>1, <3>2, <3>3
    <2> QED
      BY <2>1, <2>2
  <1> QED
    BY <1>5, <1>7 DEF Orders

\* resolveSeederOrder places a seeder after those it depends on.
LEMMA ResolutionIsInOrder ==
    ASSUME NEW reg, GoodRegistry(reg)
    PROVE  Resolution(reg) \in Orders(reg)
  <1> DEFINE seq == reg.order
             n == Len(seq)
             V == Orders(reg)
             IsFold(f) == f = [s \in SUBSET DOMAIN seq |->
                                 IF s = {} THEN <<>> ELSE Placed(reg, f[s \ {Max(s)}])]
             fold == CHOOSE f : IsFold(f)
             step == [x \in (1..n) \X V |-> Placed(reg, x[2])]
  <1>1. n \in Nat /\ DOMAIN seq = 1..n
    BY DEF GoodRegistry
  <1>2. <<>> \in V
    BY DEF Orders
  <1>3. \A order \in V : Placed(reg, order) \in V
    BY PlacedIsInOrder
  <1>4. step \in [(1..n) \X V -> V]
    BY <1>3
  <1>5. \A k \in 1..n, order \in V : step[<<k, order>>] = Placed(reg, order)
    OBVIOUS
  <1> HIDE DEF step, V
  <1>6. IsFold(fold)
    <2>1. PICK f \in [SUBSET (1..n) -> V] : Iterates(f, n, <<>>, step)
      BY <1>1, <1>2, <1>4, IterationExists
    <2>2. ASSUME NEW s \in SUBSET (1..n), s # {}
          PROVE  f[s] = Placed(reg, f[s \ {Max(s)}])
      <3>1. Max(s) \in 1..n
        BY <1>1, <2>2, GreatestOf
      <3>2. f[s \ {Max(s)}] \in V
        OBVIOUS
      <3> QED
        BY <1>5, <2>1, <2>2, <3>1, <3>2 DEF Iterates
    <2>3. f[{}] = <<>>
      BY <2>1 DEF Iterates
    <2>4. IsFold(f)
      BY <1>1, <2>2, <2>3
    <2> QED
      BY <2>4
  <1>7. Resolution(reg) = fold[1..n]
    BY <1>1 DEF Resolution, FoldLeft, MapThenFoldSet, Placed
  <1> HIDE DEF fold
  <1>8. fold[1..0] = <<>>
    BY <1>1, <1>6
  <1>9. ASSUME NEW k \in 0..n-1 PROVE fold[1..k+1] = Placed(reg, fold[1..k])
    <2>1. /\ 1..k+1 \in SUBSET (1..n) /\ 1..k+1 # {} /\ k + 1 \in 1..n
          /\ k + 1 = Max(1..k+1) /\ 1..k = (1..k+1) \ {k + 1}
      BY <1>1, GreatestOfPrefix
    <2> QED
      BY <1>1, <1>6, <2>1
  <1> HIDE DEF IsFold
  <1> DEFINE T == {k \in 0..n : fold[1..k] \in V}
  <1>10. 0 \in T
    BY <1>1, <1>2, <1>8
  <1>11. \A k \in 0..n-1 : k \in T => k + 1 \in T
    BY <1>1, <1>3, <1>9
  <1>12. n \in T
    <2> HIDE DEF T
    <2> QED
      BY <1>1, <1>10, <1>11, UpTo
  <1> QED
    BY <1>7, <1>12 DEF V

-----------------------------------------------------------------------------
\* What runs keep

LEMMA SeederTypes == NoSeeder \in Seeder /\ NoSeeder.deps = {} /\ <<>> \in Seq(Seeder)
  BY DEF NoSeeder, Seeder

LEMMA IdleTypes ==
    /\ Idle \in RunState /\ Idle.current = NoSeeder
    /\ Idle.todo = <<>> /\ Idle.done = <<>> /\ Idle.pc = "idle"
  BY SeederTypes DEF Idle, RunState, Mode

\* A run with nothing before it.
LEMMA BareRunIsGood ==
    ASSUME NEW r \in RunState, r.pc \notin {"find", "create", "update"},
           r.todo = <<>>, r.current = NoSeeder
    PROVE  GoodRun(r)
  <1>1. Len(r.todo) = 0
    OBVIOUS
  <1>2. InOrder(r)
    BY <1>1, SeederTypes DEF InOrder
  <1> QED
    BY <1>2 DEF GoodRun

LEMMA IdleIsGood == GoodRun(Idle)
  BY IdleTypes, BareRunIsGood

LEMMA FailedIsGood == GoodRun([Idle EXCEPT !.pc = "failed"])
  <1> DEFINE r == [Idle EXCEPT !.pc = "failed"]
  <1>1. r \in RunState /\ r.pc = "failed" /\ r.todo = <<>> /\ r.current = NoSeeder
    BY IdleTypes DEF RunState
  <1> QED
    BY <1>1, BareRunIsGood

LEMMA LessAlone ==
    ASSUME NEW r, GoodRun(r), NEW b \in BOOLEAN
    PROVE  GoodRun([r EXCEPT !.alone = b])
  BY DEF GoodRun, RunState, InOrder, Behind

\* A run begins with the seeders of its registry, resolved.
LEMMA ResolvedRunIsGood ==
    ASSUME NEW reg, GoodRegistry(reg), NEW mode \in Mode
    PROVE  GoodRun([Idle EXCEPT
                        !.pc = "next", !.mode = mode,
                        !.todo = [i \in DOMAIN Resolution(reg) |-> reg.seeders[Resolution(reg)[i]]]])
  <1> DEFINE order == Resolution(reg)
             todo == [i \in DOMAIN order |-> reg.seeders[order[i]]]
             r == [Idle EXCEPT !.pc = "next", !.mode = mode, !.todo = todo]
  <1>1. /\ order \in Seq(DOMAIN reg.seeders)
        /\ \A j \in 1..Len(order) : reg.seeders[order[j]].deps \subseteq {order[h] : h \in 1..j-1}
    BY ResolutionIsInOrder DEF Orders
  <1> HIDE DEF order
  <1>2. /\ DOMAIN order = 1..Len(order) /\ Len(order) \in Nat
        /\ \A j \in 1..Len(order) : order[j] \in DOMAIN reg.seeders
    BY <1>1
  <1>3. \A n \in DOMAIN reg.seeders : reg.seeders[n] \in Seeder /\ reg.seeders[n].name = n
    BY DEF GoodRegistry
  <1>4. todo \in Seq(Seeder) /\ Len(todo) = Len(order)
    BY <1>2, <1>3
  <1>5. \A j \in 1..Len(order) : todo[j] = reg.seeders[order[j]] /\ todo[j].name = order[j]
    BY <1>2, <1>3
  <1> HIDE DEF todo
  <1>6. /\ r.pc = "next" /\ r.mode = mode /\ r.todo = todo /\ r.done = <<>>
        /\ r.current = NoSeeder /\ r \in RunState
    BY <1>4, IdleTypes DEF RunState
  <1>7. ASSUME NEW j \in 1..Len(todo)
        PROVE  todo[j].deps \subseteq {todo[h].name : h \in 1..j-1}
    <2>1. \A h \in 1..j-1 : h \in 1..Len(order)
      BY <1>2, <1>4
    <2>2. {order[h] : h \in 1..j-1} = {todo[h].name : h \in 1..j-1}
      BY <1>5, <2>1
    <2> QED
      BY <1>1, <1>4, <1>5, <2>2
  <1> HIDE DEF r
  <1>8. GoodRun(r)
    BY <1>6, <1>7, SeederTypes DEF GoodRun, InOrder
  <1> QED
    BY <1>8 DEF r, todo, order

\* Sync with the database itself depends on no seeder.
LEMMA DirectRunIsGood ==
    ASSUME NEW seeder \in Seeder
    PROVE  GoodRun([Idle EXCEPT !.pc = "next", !.mode = "direct", !.todo = <<[seeder EXCEPT !.deps = {}]>>])
  <1> DEFINE todo == <<[seeder EXCEPT !.deps = {}]>>
             r == [Idle EXCEPT !.pc = "next", !.mode = "direct", !.todo = todo]
  <1>1. [seeder EXCEPT !.deps = {}] \in Seeder
    BY DEF Seeder
  <1>2. todo \in Seq(Seeder)
    BY <1>1
  <1> HIDE DEF todo
  <1>3. r \in RunState /\ r.pc = "next" /\ r.mode = "direct"
    BY <1>2, IdleTypes DEF RunState, Mode
  <1>4. GoodRun(r)
    BY <1>3 DEF GoodRun
  <1> QED
    BY <1>4 DEF todo

LEMMA NextSeederIsGood ==
    ASSUME NEW r, GoodRun(r), r.pc = "next", r.todo # <<>>
    PROVE  GoodRun([r EXCEPT !.pc = IF Head(r.todo).items = <<>> THEN "return" ELSE "find",
                             !.item = 1, !.current = Head(r.todo), !.todo = Tail(@)])
  <1> DEFINE new == [r EXCEPT !.pc = IF Head(r.todo).items = <<>> THEN "return" ELSE "find",
                              !.item = 1, !.current = Head(r.todo), !.todo = Tail(@)]
             seeder == Head(r.todo)
             rest == Tail(r.todo)
  <1>1. r \in RunState /\ r.todo \in Seq(Seeder)
    BY DEF GoodRun, RunState
  <1>2. /\ seeder \in Seeder /\ rest \in Seq(Seeder)
        /\ seeder = r.todo[1] /\ Len(r.todo) \in Nat /\ Len(r.todo) > 0 /\ Len(rest) = Len(r.todo) - 1
        /\ \A j \in 1..Len(rest) : rest[j] = r.todo[j + 1]
    BY <1>1
  <1> HIDE DEF seeder, rest
  <1>3. /\ new \in RunState /\ new.mode = r.mode /\ new.done = r.done
        /\ new.current = seeder /\ new.todo = rest /\ new.item = 1
        /\ new.pc = IF seeder.items = <<>> THEN "return" ELSE "find"
    BY <1>1, <1>2 DEF RunState, seeder, rest
  <1> HIDE DEF new
  <1>4. new.pc # "return" => new.item \in 1..Len(new.current.items)
    <2>1. seeder.items \in Seq([id : Id, key : Key, value : Value])
      BY <1>2 DEF Seeder
    <2> QED
      BY <1>3, <2>1
  <1>5. ASSUME r.mode # "direct" PROVE InOrder(new)
    <2>1. \A j \in 1..Len(r.todo) : r.todo[j].deps \subseteq Range(r.done) \cup {r.todo[h].name : h \in 1..j-1}
      BY <1>5 DEF GoodRun, InOrder, Behind
    <2>2. new.current.deps \subseteq Range(new.done)
      <3>1. 1 \in 1..Len(r.todo) /\ {r.todo[h].name : h \in 1..1-1} = {}
        BY <1>2
      <3> QED
        BY <1>2, <1>3, <2>1, <3>1
    <2>3. ASSUME NEW j \in 1..Len(rest)
          PROVE  rest[j].deps \subseteq Range(r.done) \cup {seeder.name} \cup {rest[h].name : h \in 1..j-1}
      <3>1. j + 1 \in 1..Len(r.todo) /\ rest[j] = r.todo[j + 1] /\ (j + 1) - 1 = j
        BY <1>2
      <3>2. ASSUME NEW h \in 1..j
            PROVE  r.todo[h].name \in {seeder.name} \cup {rest[x].name : x \in 1..j-1}
        <4>1. CASE h = 1
          BY <1>2, <4>1
        <4>2. CASE h # 1
          <5>1. h - 1 \in 1..j-1 /\ h - 1 \in 1..Len(rest) /\ (h - 1) + 1 = h
            BY <1>2, <4>2
          <5>2. rest[h - 1] = r.todo[h]
            BY <1>2, <5>1
          <5> QED
            BY <5>1, <5>2
        <4> QED
          BY <4>1, <4>2
      <3>3. {r.todo[h].name : h \in 1..(j+1)-1} \subseteq {seeder.name} \cup {rest[x].name : x \in 1..j-1}
        BY <3>1, <3>2
      <3>4. r.todo[j + 1].deps \subseteq Range(r.done) \cup {r.todo[h].name : h \in 1..(j+1)-1}
        BY <2>1, <3>1
      <3> QED
        BY <3>1, <3>3, <3>4
    <2> QED
      BY <1>3, <2>2, <2>3 DEF InOrder, Behind
  <1>6. GoodRun(new)
    BY <1>3, <1>4, <1>5 DEF GoodRun
  <1> QED
    BY <1>6 DEF new

LEMMA ItemIsGood ==
    ASSUME NEW r, GoodRun(r), r.pc \in {"find", "create", "update"}
    PROVE  /\ \A pc \in {"create", "update"} : GoodRun([r EXCEPT !.pc = pc])
           /\ r.item < Len(r.current.items) => GoodRun([r EXCEPT !.pc = "find", !.item = @ + 1])
           /\ GoodRun([r EXCEPT !.pc = "return"])
           /\ r.current.items[r.item] \in [id : Id, key : Key, value : Value]
  <1>1. /\ r \in RunState /\ r.item \in 1..Len(r.current.items)
        /\ r.current.items \in Seq([id : Id, key : Key, value : Value])
    BY DEF GoodRun, RunState, Seeder
  <1>2. Len(r.current.items) \in Nat /\ r.item \in Nat
    BY <1>1
  <1>3. ASSUME NEW pc \in {"find", "create", "update", "return"}, NEW item \in 1..Len(r.current.items)
        PROVE  GoodRun([r EXCEPT !.pc = pc, !.item = item])
    <2> DEFINE new == [r EXCEPT !.pc = pc, !.item = item]
    <2>i. item \in Nat
      BY <1>2
    <2>1. /\ new \in RunState /\ new.pc = pc /\ new.item = item /\ new.mode = r.mode
          /\ new.current = r.current /\ new.done = r.done /\ new.todo = r.todo
      BY <1>1, <2>i DEF RunState
    <2> HIDE DEF new
    <2>2. r.mode # "direct" => InOrder(new)
      BY <2>1 DEF GoodRun, InOrder, Behind
    <2>3. GoodRun(new)
      BY <2>1, <2>2 DEF GoodRun
    <2> QED
      BY <2>3 DEF new
  <1>4. ASSUME NEW pc \in {"find", "create", "update", "return"} PROVE GoodRun([r EXCEPT !.pc = pc])
    <2>1. [r EXCEPT !.pc = pc] = [r EXCEPT !.pc = pc, !.item = r.item]
      BY <1>1 DEF RunState
    <2> QED
      BY <1>1, <1>3, <2>1
  <1>5. ASSUME r.item < Len(r.current.items) PROVE GoodRun([r EXCEPT !.pc = "find", !.item = @ + 1])
    <2>1. r.item + 1 \in 1..Len(r.current.items)
      BY <1>1, <1>2, <1>5
    <2> QED
      BY <1>3, <2>1
  <1>6. r.current.items[r.item] \in [id : Id, key : Key, value : Value]
    <2> DEFINE Record == [id : Id, key : Key, value : Value]
               items == r.current.items
    <2>1. items \in Seq(Record) /\ r.item \in 1..Len(items)
      BY <1>1
    <2> HIDE DEF Record, items
    <2>2. items[r.item] \in Record
      BY <2>1
    <2> QED
      BY <2>2 DEF Record, items
  <1> QED
    BY <1>4, <1>5, <1>6

LEMMA ReturnIsGood ==
    ASSUME NEW r, GoodRun(r), r.pc = "return"
    PROVE  GoodRun([r EXCEPT !.pc = "next", !.done = Append(@, r.current.name),
                             !.current = NoSeeder, !.item = 0])
  <1> DEFINE new == [r EXCEPT !.pc = "next", !.done = Append(@, r.current.name),
                              !.current = NoSeeder, !.item = 0]
             done == Append(r.done, r.current.name)
  <1>1. r \in RunState /\ r.done \in Seq(Nat) /\ r.current.name \in Nat
    BY DEF GoodRun, RunState, Seeder
  <1>2. /\ done \in Seq(Nat) /\ Len(done) = Len(r.done) + 1 /\ Len(r.done) \in Nat
        /\ done[Len(r.done) + 1] = r.current.name
        /\ \A i \in 1..Len(r.done) : done[i] = r.done[i]
    BY <1>1
  <1>3. Range(r.done) \cup {r.current.name} \subseteq Range(done)
    <2>1. DOMAIN r.done = 1..Len(r.done) /\ DOMAIN done = 1..Len(r.done) + 1
      BY <1>1, <1>2
    <2>2. Len(r.done) + 1 \in DOMAIN done /\ \A i \in DOMAIN r.done : i \in DOMAIN done
      BY <1>2, <2>1
    <2> QED
      BY <1>2, <2>1, <2>2 DEF Range
  <1> HIDE DEF done
  <1>4. /\ new \in RunState /\ new.mode = r.mode /\ new.done = done
        /\ new.current = NoSeeder /\ new.todo = r.todo /\ new.pc = "next"
    BY <1>1, <1>2, SeederTypes DEF RunState, done
  <1> HIDE DEF new
  <1>5. ASSUME r.mode # "direct" PROVE InOrder(new)
    <2>1. \A j \in 1..Len(r.todo) :
             r.todo[j].deps \subseteq Range(r.done) \cup {r.current.name} \cup {r.todo[h].name : h \in 1..j-1}
      BY <1>5 DEF GoodRun, InOrder, Behind
    <2> QED
      BY <1>3, <1>4, <2>1, SeederTypes DEF InOrder, Behind
  <1>6. GoodRun(new)
    BY <1>4, <1>5 DEF GoodRun
  <1> QED
    BY <1>6 DEF new

LEMMA EndIsGood ==
    ASSUME NEW r, GoodRun(r)
    PROVE  /\ r.todo = <<>> /\ r.pc = "next" => GoodRun([r EXCEPT !.pc = "ok"])
           /\ GoodRun([r EXCEPT !.pc = "failed", !.current = NoSeeder, !.item = 0, !.todo = <<>>])
  <1>1. r \in RunState
    BY DEF GoodRun
  <1>2. ASSUME r.todo = <<>>, r.pc = "next" PROVE GoodRun([r EXCEPT !.pc = "ok"])
    <2> DEFINE new == [r EXCEPT !.pc = "ok"]
    <2>1. /\ new \in RunState /\ new.pc = "ok" /\ new.todo = <<>> /\ new.mode = r.mode
          /\ new.current = r.current /\ new.done = r.done
      BY <1>1, <1>2 DEF RunState
    <2> HIDE DEF new
    <2>2. Len(new.todo) = 0
      BY <2>1
    <2>3. GoodRun(new)
      BY <2>1, <2>2 DEF GoodRun, InOrder
    <2> QED
      BY <2>3 DEF new
  <1>3. GoodRun([r EXCEPT !.pc = "failed", !.current = NoSeeder, !.item = 0, !.todo = <<>>])
    <2> DEFINE new == [r EXCEPT !.pc = "failed", !.current = NoSeeder, !.item = 0, !.todo = <<>>]
    <2>1. new \in RunState /\ new.pc = "failed" /\ new.todo = <<>> /\ new.current = NoSeeder
      BY <1>1, SeederTypes DEF RunState
    <2> QED
      BY <2>1, BareRunIsGood
  <1> QED
    BY <1>2, <1>3

-----------------------------------------------------------------------------
\* What writes and transactions do

LEMMA WriteFields ==
    ASSUME DatabaseInv(rows, undo), NEW p \in Process, NEW new, DOMAIN new \subseteq Id, Write(p, new)
    PROVE  /\ rows' = [i \in Id |-> IF i \in DOMAIN new THEN new[i] ELSE rows[i]]
           /\ undo' = [q \in Process |-> undo'[q]]
           /\ \A q \in Process \ {p} : undo'[q] = undo[q]
           /\ run[p].mode = "direct" => undo'[p] = undo[p]
           /\ run[p].mode # "direct" =>
                 undo'[p] = [i \in DOMAIN undo[p] \cup DOMAIN new |->
                                IF i \in DOMAIN undo[p] THEN undo[p][i] ELSE rows[i]]
  <1>1. DOMAIN rows = Id /\ undo = [q \in Process |-> undo[q]]
    BY DEF DatabaseInv
  <1>2. rows' = [i \in Id |-> IF i \in DOMAIN new THEN new[i] ELSE rows[i]]
    BY <1>1 DEF Write, Over
  <1>3. undo' = [undo EXCEPT ![p] = IF run[p].mode = "direct" THEN @
                                    ELSE Over(@, [i \in DOMAIN new |-> rows[i]])]
    BY DEF Write
  <1>4. Over(undo[p], [i \in DOMAIN new |-> rows[i]]) =
          [i \in DOMAIN undo[p] \cup DOMAIN new |->
              IF i \in DOMAIN undo[p] THEN undo[p][i] ELSE rows[i]]
    BY DEF Over
  <1> QED
    BY <1>1, <1>2, <1>3, <1>4

LEMMA RollBackFields ==
    ASSUME DatabaseInv(rows, undo), NEW p \in Process, RollBack(p)
    PROVE  /\ rows' = [i \in Id |-> IF i \in DOMAIN undo[p] THEN undo[p][i] ELSE rows[i]]
           /\ undo' = [q \in Process |-> undo'[q]]
           /\ \A q \in Process \ {p} : undo'[q] = undo[q]
           /\ undo'[p] = <<>>
  <1>1. DOMAIN rows = Id /\ DOMAIN undo[p] \subseteq Id /\ undo = [q \in Process |-> undo[q]]
    BY DEF DatabaseInv
  <1> QED
    BY <1>1 DEF RollBack, Over

LEMMA CommitFields ==
    ASSUME DatabaseInv(rows, undo), NEW p \in Process, Commit(p)
    PROVE  /\ rows' = rows
           /\ undo' = [q \in Process |-> undo'[q]]
           /\ \A q \in Process \ {p} : undo'[q] = undo[q]
           /\ undo'[p] = <<>>
  BY DEF Commit, DatabaseInv

LEMMA OthersWrites ==
    ASSUME NEW p \in Process, NEW i
    PROVE  i \in WrittenByOthers(p) <=> \E q \in Process \ {p} : i \in DOMAIN undo[q]
  BY DEF WrittenByOthers, Others

\* A write of rows that nobody else has written, or of a new row.
LEMMA WriteKeeps ==
    ASSUME DatabaseInv(rows, undo), NEW p \in Process, NEW new, DOMAIN new \subseteq Id, Write(p, new),
           \A i \in DOMAIN new : /\ new[i] \in Row
                                 /\ rows[i] # Nothing => new[i].key = rows[i].key
                                 /\ i \notin WrittenByOthers(p)
    PROVE  /\ DatabaseInv(rows', undo')
           /\ AllLive(rows, undo) /\ (\A i \in DOMAIN new : new[i].live) => AllLive(rows', undo')
  <1>1. /\ rows' = [i \in Id |-> IF i \in DOMAIN new THEN new[i] ELSE rows[i]]
        /\ undo' = [q \in Process |-> undo'[q]]
        /\ \A q \in Process \ {p} : undo'[q] = undo[q]
        /\ \/ undo'[p] = undo[p]
           \/ undo'[p] = [i \in DOMAIN undo[p] \cup DOMAIN new |->
                             IF i \in DOMAIN undo[p] THEN undo[p][i] ELSE rows[i]]
    BY WriteFields
  <1>2. /\ rows \in [Id -> Row \cup {Nothing}]
        /\ \A q \in Process :
              /\ DOMAIN undo[q] \subseteq Id
              /\ undo[q] \in [DOMAIN undo[q] -> Row \cup {Nothing}]
              /\ \A i \in DOMAIN undo[q] : /\ rows[i] # Nothing
                                           /\ undo[q][i] # Nothing => undo[q][i].key = rows[i].key
        /\ \A q \in Process : \A r \in Process \ {q} : DOMAIN undo[q] \cap DOMAIN undo[r] = {}
    BY DEF DatabaseInv
  <1>3. \A i \in DOMAIN new : new[i] # Nothing /\ \A q \in Process \ {p} : i \notin DOMAIN undo[q]
    BY OthersWrites, NothingAssumption DEF Row
  <1>4. rows' \in [Id -> Row \cup {Nothing}]
    BY <1>1, <1>2
  <1>5. /\ DOMAIN undo'[p] \subseteq Id
        /\ undo'[p] \in [DOMAIN undo'[p] -> Row \cup {Nothing}]
        /\ \A i \in DOMAIN undo'[p] :
              \/ i \in DOMAIN undo[p] /\ undo'[p][i] = undo[p][i]
              \/ i \in DOMAIN new /\ undo'[p][i] = rows[i]
    <2>1. CASE undo'[p] = undo[p]
      BY <1>2, <2>1
    <2>2. CASE undo'[p] = [i \in DOMAIN undo[p] \cup DOMAIN new |->
                             IF i \in DOMAIN undo[p] THEN undo[p][i] ELSE rows[i]]
      <3>1. DOMAIN undo'[p] = DOMAIN undo[p] \cup DOMAIN new
        BY <2>2
      <3>2. \A i \in DOMAIN undo'[p] :
               undo'[p][i] = IF i \in DOMAIN undo[p] THEN undo[p][i] ELSE rows[i]
        BY <2>2
      <3>3. \A i \in DOMAIN undo'[p] : undo'[p][i] \in Row \cup {Nothing}
        BY <1>2, <3>1, <3>2
      <3>4. undo'[p] = [i \in DOMAIN undo'[p] |-> undo'[p][i]]
        BY <2>2
      <3> QED
        BY <1>2, <3>1, <3>2, <3>3, <3>4
    <2> QED
      BY <1>1, <2>1, <2>2
  <1>6. \A i \in Id : /\ i \in DOMAIN new => rows'[i] = new[i]
                      /\ i \notin DOMAIN new => rows'[i] = rows[i]
    BY <1>1
  <1>7. \A i \in DOMAIN undo'[p] : /\ rows'[i] # Nothing
                                   /\ undo'[p][i] # Nothing => undo'[p][i].key = rows'[i].key
    BY <1>2, <1>3, <1>5, <1>6
  <1>8. \A q \in Process \ {p} : \A i \in DOMAIN undo[q] : rows'[i] = rows[i]
    BY <1>2, <1>3, <1>6
  <1>9. \A q \in Process \ {p} : DOMAIN undo'[p] \cap DOMAIN undo'[q] = {}
    BY <1>1, <1>2, <1>3, <1>5
  <1>10. DatabaseInv(rows', undo')
    <2>1. ASSUME NEW q \in Process
          PROVE  /\ DOMAIN undo'[q] \subseteq Id
                 /\ undo'[q] \in [DOMAIN undo'[q] -> Row \cup {Nothing}]
                 /\ \A i \in DOMAIN undo'[q] :
                       /\ rows'[i] # Nothing
                       /\ undo'[q][i] # Nothing => undo'[q][i].key = rows'[i].key
      <3>1. CASE q = p
        BY <1>5, <1>7, <3>1
      <3>2. CASE q # p
        <4>1. undo'[q] = undo[q] /\ \A i \in DOMAIN undo[q] : rows'[i] = rows[i]
          BY <1>1, <1>8, <3>2
        <4> QED
          BY <1>2, <4>1
      <3> QED
        BY <3>1, <3>2
    <2>2. ASSUME NEW q \in Process, NEW r \in Process \ {q}
          PROVE  DOMAIN undo'[q] \cap DOMAIN undo'[r] = {}
      BY <1>1, <1>2, <1>9
    <2> QED
      BY <1>1, <1>4, <2>1, <2>2 DEF DatabaseInv
  <1>11. ASSUME AllLive(rows, undo), \A i \in DOMAIN new : new[i].live PROVE AllLive(rows', undo')
    <2>1. \A i \in Id : rows'[i] # Nothing => rows'[i].live
      BY <1>6, <1>11 DEF AllLive
    <2>2. \A i \in DOMAIN undo'[p] : undo'[p][i] # Nothing => undo'[p][i].live
      BY <1>5, <1>11 DEF AllLive
    <2>3. \A q \in Process \ {p} : \A i \in DOMAIN undo'[q] : undo'[q][i] # Nothing => undo'[q][i].live
      BY <1>1, <1>11 DEF AllLive
    <2> QED
      BY <2>1, <2>2, <2>3 DEF AllLive
  <1> QED
    BY <1>10, <1>11

\* The end of a transaction, either way.
LEMMA EndKeeps ==
    ASSUME DatabaseInv(rows, undo), NEW p \in Process, Commit(p) \/ RollBack(p)
    PROVE  /\ DatabaseInv(rows', undo')
           /\ AllLive(rows, undo) => AllLive(rows', undo')
           /\ KeysDiffer(rows) => KeysDiffer(rows')
           /\ DOMAIN undo'[p] = {}
           /\ \A q \in Process \ {p} : undo'[q] = undo[q]
  <1>1. /\ undo' = [q \in Process |-> undo'[q]]
        /\ \A q \in Process \ {p} : undo'[q] = undo[q]
        /\ DOMAIN undo'[p] = {}
        /\ undo'[p] \in [{} -> Row \cup {Nothing}]
    <2>1. undo'[p] = <<>>
      BY CommitFields, RollBackFields
    <2> QED
      BY <2>1, CommitFields, RollBackFields
  <1>2. /\ rows \in [Id -> Row \cup {Nothing}]
        /\ \A q \in Process :
              /\ DOMAIN undo[q] \subseteq Id
              /\ undo[q] \in [DOMAIN undo[q] -> Row \cup {Nothing}]
              /\ \A i \in DOMAIN undo[q] : /\ rows[i] # Nothing
                                           /\ undo[q][i] # Nothing => undo[q][i].key = rows[i].key
        /\ \A q \in Process : \A r \in Process \ {q} : DOMAIN undo[q] \cap DOMAIN undo[r] = {}
    BY DEF DatabaseInv
  <1>3. /\ rows' \in [Id -> Row \cup {Nothing}]
        /\ \A i \in Id : \/ rows'[i] = rows[i]
                         \/ i \in DOMAIN undo[p] /\ rows'[i] = undo[p][i]
    <2>1. CASE Commit(p)
      BY <1>2, <2>1, CommitFields
    <2>2. CASE RollBack(p)
      <3>1. rows' = [i \in Id |-> IF i \in DOMAIN undo[p] THEN undo[p][i] ELSE rows[i]]
        BY <2>2, RollBackFields
      <3> QED
        BY <1>2, <3>1
    <2> QED
      BY <2>1, <2>2
  <1>4. \A i \in Id : rows'[i] # Nothing => rows[i] # Nothing /\ rows'[i].key = rows[i].key
    BY <1>2, <1>3
  <1>5. \A q \in Process \ {p} : \A i \in DOMAIN undo[q] : rows'[i] = rows[i]
    BY <1>2, <1>3
  <1>6. DatabaseInv(rows', undo')
    <2>1. ASSUME NEW q \in Process
          PROVE  /\ DOMAIN undo'[q] \subseteq Id
                 /\ undo'[q] \in [DOMAIN undo'[q] -> Row \cup {Nothing}]
                 /\ \A i \in DOMAIN undo'[q] :
                       /\ rows'[i] # Nothing
                       /\ undo'[q][i] # Nothing => undo'[q][i].key = rows'[i].key
      <3>1. CASE q = p
        BY <1>1, <3>1
      <3>2. CASE q # p
        <4>1. undo'[q] = undo[q] /\ \A i \in DOMAIN undo[q] : rows'[i] = rows[i]
          BY <1>1, <1>5, <3>2
        <4> QED
          BY <1>2, <4>1
      <3> QED
        BY <3>1, <3>2
    <2>2. ASSUME NEW q \in Process, NEW r \in Process \ {q}
          PROVE  DOMAIN undo'[q] \cap DOMAIN undo'[r] = {}
      BY <1>1, <1>2
    <2> QED
      BY <1>1, <1>3, <2>1, <2>2 DEF DatabaseInv
  <1>7. AllLive(rows, undo) => AllLive(rows', undo')
    BY <1>1, <1>3 DEF AllLive
  <1>8. KeysDiffer(rows) => KeysDiffer(rows')
    BY <1>4 DEF KeysDiffer
  <1> QED
    BY <1>1, <1>6, <1>7, <1>8

-----------------------------------------------------------------------------
\* The steps of a process in a run

\* A write of p that keeps keys apart: to rows that are there, or of a new one.
Extends(p, new) ==
    /\ DOMAIN new \subseteq Id
    /\ \A i \in DOMAIN new : /\ new[i] \in Row
                             /\ new[i].live
                             /\ rows[i] # Nothing => new[i].key = rows[i].key
                             /\ i \notin WrittenByOthers(p)
    /\ \/ \A i \in DOMAIN new : rows[i] # Nothing
       \/ \E i \in Id : /\ DOMAIN new = {i}
                        /\ unique \/ Undisturbed =>
                              \A j \in Id : rows[j] # Nothing => rows[j].key # new[i].key

\* What a step of p does to the database when p goes on with r.
NothingWritten(p, r) ==
    /\ UNCHANGED dbVars
    /\ r.pc \in {"next", "find", "update", "return"}
    /\ r.pc = "next" => run[p].mode # "per_seeder"
NothingFound(p, r) ==
    /\ UNCHANGED dbVars
    /\ r.pc = "create"
    /\ Existing(p) = {}
    /\ r.current.items[r.item] = Item(p)
Written(p, r) == r.pc \in {"find", "return"} /\ \E new : Extends(p, new) /\ Write(p, new)
TransactionEnds(p, r) == r.pc \in {"next", "ok", "failed"} /\ (Commit(p) \/ RollBack(p))

GoesOn(p, r) ==
    /\ GoodRun(r)
    /\ r.mode = run[p].mode
    /\ ChangeRun(p, r)
    /\ \/ NothingWritten(p, r)
       \/ NothingFound(p, r)
       \/ Written(p, r)
       \/ TransactionEnds(p, r)

LEMMA ItemTypes ==
    ASSUME RunInv, NEW p \in Process, run[p].pc \in {"find", "create", "update"}
    PROVE  Item(p) \in [id : Id, key : Key, value : Value]
  BY ItemIsGood DEF RunInv, Item

LEMMA RunFields ==
    ASSUME RunInv, NEW p \in Process
    PROVE  GoodRun(run[p]) /\ run[p] \in RunState
  BY DEF RunInv

LEMMA NewRowExtends ==
    ASSUME IInv, NEW p \in Process, run[p].pc = "create", InTheWay(p) = {}
    PROVE  Extends(p, [i \in {Item(p).id} |-> [key |-> Item(p).key, value |-> Item(p).value, live |-> TRUE]])
  <1> DEFINE item == Item(p)
             row == [key |-> item.key, value |-> item.value, live |-> TRUE]
             new == [i \in {item.id} |-> row]
  <1>1. item \in [id : Id, key : Key, value : Value]
    BY ItemTypes DEF IInv
  <1>2. \A j \in Id : rows[j] # Nothing => j # item.id /\ (unique => rows[j].key # item.key)
    BY DEF InTheWay
  <1>3. Undisturbed => \A j \in Id : rows[j] # Nothing => rows[j].key # item.key
    BY DEF IInv, LookupHolds
  <1>4. item.id \notin WrittenByOthers(p)
    <2>1. \A q \in Process : \A i \in DOMAIN undo[q] : i \in Id /\ rows[i] # Nothing
      BY DEF IInv, DatabaseInv
    <2> QED
      BY <1>2, <2>1, OthersWrites
  <1> HIDE DEF item
  <1>5. row \in Row /\ row.live /\ row.key = item.key
    BY <1>1 DEF Row
  <1> HIDE DEF row
  <1>6. DOMAIN new = {item.id} /\ new[item.id] = row /\ item.id \in Id
    BY <1>1
  <1> HIDE DEF new
  <1>7. Extends(p, new)
    BY <1>2, <1>3, <1>4, <1>5, <1>6 DEF Extends
  <1> QED
    BY <1>7 DEF new, row, item

LEMMA UpdateExtends ==
    ASSUME IInv, NEW p \in Process, run[p].pc = "update", Awaited(p) = {}
    PROVE  Extends(p, [i \in Targets(p) |-> [rows[i] EXCEPT !.value = Item(p).value, !.live = TRUE]])
  <1> DEFINE new == [i \in Targets(p) |-> [rows[i] EXCEPT !.value = Item(p).value, !.live = TRUE]]
  <1>1. Item(p) \in [id : Id, key : Key, value : Value]
    BY ItemTypes DEF IInv
  <1>2. Targets(p) \cap WrittenByOthers(p) = {}
    BY DEF Awaited
  <1>3. ASSUME NEW i \in Targets(p) PROVE i \in Id /\ i \notin WrittenByOthers(p) /\ rows[i] # Nothing
    BY <1>2 DEF Targets, Visible
  <1>4. rows \in [Id -> Row \cup {Nothing}]
    BY DEF IInv, DatabaseInv
  <1>5. \A i \in Targets(p) : rows[i] \in Row
    BY <1>3, <1>4
  <1>6. ASSUME NEW i \in Targets(p)
        PROVE  new[i] \in Row /\ new[i].live /\ new[i].key = rows[i].key
    <2>1. new[i] = [rows[i] EXCEPT !.value = Item(p).value, !.live = TRUE]
      OBVIOUS
    <2> QED
      BY <1>1, <1>5, <2>1 DEF Row
  <1>7. DOMAIN new = Targets(p)
    OBVIOUS
  <1> HIDE DEF new
  <1>8. Extends(p, new)
    BY <1>3, <1>6, <1>7 DEF Extends
  <1> QED
    BY <1>8 DEF new

LEMMA AfterItemIsGood ==
    ASSUME RunInv, NEW p \in Process, run[p].pc \in {"find", "create", "update"}
    PROVE  /\ GoodRun(AfterItem(p)) /\ AfterItem(p).mode = run[p].mode
           /\ AfterItem(p).pc \in {"find", "return"}
  <1>1. GoodRun(run[p]) /\ run[p] \in RunState
    BY RunFields
  <1>2. GoodRun(AfterItem(p))
    BY <1>1, ItemIsGood DEF AfterItem
  <1> QED
    BY <1>1, <1>2 DEF AfterItem, RunState

\* An error ends the run and its transaction.
LEMMA FailGoesOn ==
    ASSUME RunInv, NEW p \in Process, Fail(p)
    PROVE  \E r : GoesOn(p, r)
  <1> DEFINE r == [run[p] EXCEPT !.pc = "failed", !.current = NoSeeder, !.item = 0, !.todo = <<>>]
  <1>1. GoodRun(run[p]) /\ run[p] \in RunState
    BY RunFields
  <1>2. GoodRun(r)
    BY <1>1, EndIsGood
  <1>3. r.mode = run[p].mode /\ r.pc = "failed"
    BY <1>1 DEF RunState
  <1>4. ChangeRun(p, r) /\ RollBack(p)
    BY DEF Fail
  <1> HIDE DEF r
  <1> QED
    BY <1>2, <1>3, <1>4 DEF GoesOn, TransactionEnds

LEMMA StepGoesOn ==
    ASSUME IInv, NEW p \in Process, Step(p) \/ SeederFails(p)
    PROVE  ~ Ended(p) /\ \E r : GoesOn(p, r)
  <1>1. RunInv /\ GoodRun(run[p]) /\ run[p] \in RunState
    BY RunFields DEF IInv
  <1>2. CASE NextSeeder(p)
    <2> DEFINE r == [run[p] EXCEPT !.pc = IF Head(run[p].todo).items = <<>> THEN "return" ELSE "find",
                                   !.item = 1, !.current = Head(run[p].todo), !.todo = Tail(@)]
    <2>1. run[p].pc = "next" /\ run[p].todo # <<>> /\ ChangeRun(p, r) /\ UNCHANGED dbVars
      BY <1>2 DEF NextSeeder
    <2>2. GoodRun(r)
      BY <1>1, <2>1, NextSeederIsGood
    <2>3. r.mode = run[p].mode /\ r.pc \in {"find", "return"}
      BY <1>1 DEF RunState
    <2> HIDE DEF r
    <2> QED
      BY <2>1, <2>2, <2>3 DEF GoesOn, NothingWritten, Ended
  <1>3. CASE SyncFind(p)
    <2>1. run[p].pc = "find" /\ UNCHANGED dbVars
      BY <1>3 DEF SyncFind
    <2>2. CASE Existing(p) = {}
      <3> DEFINE r == [run[p] EXCEPT !.pc = "create"]
      <3>1. ChangeRun(p, r)
        BY <1>3, <2>2 DEF SyncFind
      <3>2. GoodRun(r)
        BY <1>1, <2>1, ItemIsGood
      <3>3. r.mode = run[p].mode /\ r.pc = "create" /\ r.current.items[r.item] = Item(p)
        BY <1>1 DEF RunState, Item
      <3> HIDE DEF r
      <3> QED
        BY <2>1, <2>2, <3>1, <3>2, <3>3 DEF GoesOn, NothingFound, Ended
    <2>3. CASE Existing(p) # {}
      <3> DEFINE r == [run[p] EXCEPT !.pc = "update"]
      <3>1. ChangeRun(p, AfterItem(p)) \/ ChangeRun(p, r)
        BY <1>3, <2>3 DEF SyncFind
      <3>2. GoodRun(r)
        BY <1>1, <2>1, ItemIsGood
      <3>3. r.mode = run[p].mode /\ r.pc = "update"
        BY <1>1 DEF RunState
      <3> HIDE DEF r
      <3>4. /\ GoodRun(AfterItem(p)) /\ AfterItem(p).mode = run[p].mode
            /\ AfterItem(p).pc \in {"find", "return"}
        BY <1>1, <2>1, AfterItemIsGood
      <3> QED
        BY <2>1, <3>1, <3>2, <3>3, <3>4 DEF GoesOn, NothingWritten, Ended
    <2> QED
      BY <2>2, <2>3
  <1>4. CASE SyncCreate(p)
    <2>1. /\ run[p].pc = "create" /\ InTheWay(p) = {} /\ ChangeRun(p, AfterItem(p))
          /\ Write(p, [i \in {Item(p).id} |-> [key |-> Item(p).key, value |-> Item(p).value, live |-> TRUE]])
      BY <1>4 DEF SyncCreate
    <2>2. /\ GoodRun(AfterItem(p)) /\ AfterItem(p).mode = run[p].mode
          /\ AfterItem(p).pc \in {"find", "return"}
      BY <1>1, <2>1, AfterItemIsGood
    <2>3. Written(p, AfterItem(p))
      BY <2>1, <2>2, NewRowExtends DEF Written
    <2> QED
      BY <2>1, <2>2, <2>3 DEF GoesOn, Ended
  <1>5. CASE SyncUpdate(p)
    <2>1. /\ run[p].pc = "update" /\ Awaited(p) = {} /\ ChangeRun(p, AfterItem(p))
          /\ Write(p, [i \in Targets(p) |-> [rows[i] EXCEPT !.value = Item(p).value, !.live = TRUE]])
      BY <1>5 DEF SyncUpdate
    <2>2. /\ GoodRun(AfterItem(p)) /\ AfterItem(p).mode = run[p].mode
          /\ AfterItem(p).pc \in {"find", "return"}
      BY <1>1, <2>1, AfterItemIsGood
    <2>3. Written(p, AfterItem(p))
      BY <2>1, <2>2, UpdateExtends DEF Written
    <2> QED
      BY <2>1, <2>2, <2>3 DEF GoesOn, Ended
  <1>6. CASE SeederReturns(p)
    <2> DEFINE r == [run[p] EXCEPT !.pc = "next", !.done = Append(@, run[p].current.name),
                                   !.current = NoSeeder, !.item = 0]
    <2>1. /\ run[p].pc = "return" /\ ChangeRun(p, r)
          /\ IF run[p].mode = "per_seeder" THEN Commit(p) ELSE UNCHANGED dbVars
      BY <1>6 DEF SeederReturns, CommitsEachSeeder
    <2>2. GoodRun(r)
      BY <1>1, <2>1, ReturnIsGood
    <2>3. r.mode = run[p].mode /\ r.pc = "next"
      BY <1>1 DEF RunState
    <2> HIDE DEF r
    <2> QED
      BY <2>1, <2>2, <2>3 DEF GoesOn, NothingWritten, TransactionEnds, Ended
  <1>7. CASE RunEnds(p)
    <2> DEFINE r == [run[p] EXCEPT !.pc = "ok"]
    <2>1. run[p].pc = "next" /\ run[p].todo = <<>> /\ ChangeRun(p, r) /\ Commit(p)
      BY <1>7 DEF RunEnds
    <2>2. GoodRun(r)
      BY <1>1, <2>1, EndIsGood
    <2>3. r.mode = run[p].mode /\ r.pc = "ok"
      BY <1>1 DEF RunState
    <2> HIDE DEF r
    <2> QED
      BY <2>1, <2>2, <2>3 DEF GoesOn, TransactionEnds, Ended
  <1>8. CASE SyncConflict(p) \/ DuplicateKey(p) \/ SeederFails(p)
    BY <1>1, <1>8, FailGoesOn DEF SyncConflict, DuplicateKey, SeederFails, Ended
  <1>9. CASE DeadlockDetected(p)
    <2>1. Awaited(p) # {} /\ Fail(p)
      BY <1>9 DEF DeadlockDetected, Deadlocked
    <2>2. run[p].pc \in {"create", "update"}
      BY <2>1 DEF Awaited
    <2> QED
      BY <1>1, <2>1, <2>2, FailGoesOn DEF Ended
  <1> QED
    BY <1>2, <1>3, <1>4, <1>5, <1>6, <1>7, <1>8, <1>9 DEF Step

\* While runs do not overlap, nobody else has written what p does not see.
LEMMA AloneSeesAll ==
    ASSUME IInv, NEW p \in Process, ~ Ended(p), ~ overlapped
    PROVE  /\ \A q \in Process \ {p} : Ended(q)
           /\ \A i : Visible(p, i) = rows[i]
  <1>1. \A q \in Process \ {p} : Ended(q)
    BY DEF IInv, OneRuns
  <1>2. \A q \in Process \ {p} : DOMAIN undo[q] = {}
    BY <1>1 DEF IInv, NothingToUndo, NoTransaction, Ended
  <1>3. \A i : i \notin WrittenByOthers(p)
    BY <1>2, OthersWrites
  <1> QED
    BY <1>1, <1>3 DEF Visible

LEMMA WrittenKeysDiffer ==
    ASSUME DatabaseInv(rows, undo), KeysDiffer(rows), unique \/ Undisturbed,
           NEW p \in Process, NEW new, Extends(p, new), Write(p, new)
    PROVE  KeysDiffer(rows')
  <1>d. DOMAIN new \subseteq Id
    BY DEF Extends
  <1>1. rows' = [i \in Id |-> IF i \in DOMAIN new THEN new[i] ELSE rows[i]]
    BY <1>d, WriteFields
  <1>2. \A i \in Id : /\ i \in DOMAIN new => rows'[i] = new[i]
                      /\ i \notin DOMAIN new => rows'[i] = rows[i]
    BY <1>1
  <1>3. \A i \in DOMAIN new : rows[i] # Nothing => new[i].key = rows[i].key
    BY DEF Extends
  <1>4. CASE \A i \in DOMAIN new : rows[i] # Nothing
    <2>1. \A i \in Id : rows'[i] # Nothing => rows[i] # Nothing /\ rows'[i].key = rows[i].key
      BY <1>2, <1>3, <1>4
    <2> QED
      BY <2>1 DEF KeysDiffer
  <1>5. CASE \E i \in Id : /\ DOMAIN new = {i}
                           /\ unique \/ Undisturbed =>
                                 \A j \in Id : rows[j] # Nothing => rows[j].key # new[i].key
    <2>1. PICK i \in Id : /\ DOMAIN new = {i}
                          /\ \A j \in Id : rows[j] # Nothing => rows[j].key # new[i].key
      BY <1>5
    <2>2. \A j \in Id \ {i} : rows'[j] = rows[j]
      BY <1>2, <2>1
    <2>3. rows'[i].key = new[i].key
      BY <1>2, <2>1
    <2> QED
      BY <2>1, <2>2, <2>3 DEF KeysDiffer
  <1> QED
    BY <1>4, <1>5 DEF Extends

LEMMA GoesOnDatabase ==
    ASSUME IInv, NEW p \in Process, NEW r, GoesOn(p, r)
    PROVE  /\ DatabaseInv(rows', undo')
           /\ AllLive(rows, undo) => AllLive(rows', undo')
           /\ (unique \/ Undisturbed) /\ KeysDiffer(rows) => KeysDiffer(rows')
           /\ \A q \in Process \ {p} : undo'[q] = undo[q]
           /\ \/ DOMAIN undo'[p] = {}
              \/ /\ run[p].mode = "direct" => undo'[p] = undo[p]
                 /\ NoTransaction(r) => r.mode = "direct"
  <1>1. DatabaseInv(rows, undo)
    BY DEF IInv
  <1>2. CASE NothingWritten(p, r) \/ NothingFound(p, r)
    <2>1. rows' = rows /\ undo' = undo /\ (NoTransaction(r) => r.mode = "direct")
      BY <1>2 DEF NothingWritten, NothingFound, dbVars, NoTransaction, GoesOn
    <2> QED
      BY <1>1, <2>1
  <1>3. CASE Written(p, r)
    <2>1. PICK new : Extends(p, new) /\ Write(p, new)
      BY <1>3 DEF Written
    <2>2. NoTransaction(r) => r.mode = "direct"
      BY <1>3 DEF Written, NoTransaction
    <2>3. /\ DatabaseInv(rows', undo')
          /\ AllLive(rows, undo) => AllLive(rows', undo')
      BY <1>1, <2>1, WriteKeeps DEF Extends
    <2>4. (unique \/ Undisturbed) /\ KeysDiffer(rows) => KeysDiffer(rows')
      BY <1>1, <2>1, WrittenKeysDiffer
    <2>5. /\ \A q \in Process \ {p} : undo'[q] = undo[q]
          /\ run[p].mode = "direct" => undo'[p] = undo[p]
      BY <1>1, <2>1, WriteFields DEF Extends
    <2> QED
      BY <2>2, <2>3, <2>4, <2>5
  <1>4. CASE TransactionEnds(p, r)
    BY <1>1, <1>4, EndKeeps DEF TransactionEnds
  <1> QED
    BY <1>2, <1>3, <1>4 DEF GoesOn

LEMMA GoesOnKeeps ==
    ASSUME IInv, NEW p \in Process, ~ Ended(p), NEW r, GoesOn(p, r)
    PROVE  IInv'
  <1>1. /\ RunInv /\ OneRuns /\ NothingToUndo
        /\ run \in [Process -> RunState]
    BY DEF IInv, RunInv
  <1>2. /\ run' = [run EXCEPT ![p] = r] /\ GoodRun(r) /\ r.mode = run[p].mode
        /\ UNCHANGED <<registry, unique, deletions, runs, overlapped>>
    BY DEF GoesOn, ChangeRun
  <1>3. /\ r \in RunState /\ run' \in [Process -> RunState] /\ run'[p] = r
        /\ \A q \in Process : q # p => run'[q] = run[q]
    BY <1>1, <1>2 DEF GoodRun
  <1>4. /\ DatabaseInv(rows', undo')
        /\ AllLive(rows, undo) => AllLive(rows', undo')
        /\ (unique \/ Undisturbed) /\ KeysDiffer(rows) => KeysDiffer(rows')
        /\ \A q \in Process \ {p} : undo'[q] = undo[q]
        /\ \/ DOMAIN undo'[p] = {}
           \/ /\ run[p].mode = "direct" => undo'[p] = undo[p]
              /\ NoTransaction(r) => r.mode = "direct"
    BY GoesOnDatabase
  <1>5. RegistryInv' /\ CountersInv'
    BY <1>2 DEF IInv, RegistryInv, CountersInv
  <1>6. RunInv'
    BY <1>1, <1>2, <1>3 DEF RunInv
  <1>7. DatabaseInv(rows, undo)'
    BY <1>4 DEF DatabaseInv
  <1>8. OneRuns'
    <2>1. ~ overlapped => \A q \in Process : q # p => Ended(q)
      BY DEF IInv, OneRuns
    <2>2. \A q \in Process : q # p /\ Ended(q) => Ended(q)'
      BY <1>3 DEF Ended
    <2> QED
      BY <1>2, <2>1, <2>2 DEF OneRuns
  <1>9. NothingToUndo'
    <2>1. ASSUME NEW q \in Process, NoTransaction(run'[q])
          PROVE  DOMAIN undo'[q] = {}
      <3>1. CASE q = p
        <4>1. r.mode = "direct" => DOMAIN undo[p] = {}
          BY <1>1, <1>2 DEF NothingToUndo, NoTransaction
        <4> QED
          BY <1>2, <1>3, <1>4, <2>1, <3>1, <4>1
      <3>2. CASE q # p
        BY <1>1, <1>3, <1>4, <2>1, <3>2 DEF NothingToUndo
      <3> QED
        BY <3>1, <3>2
    <2> QED
      BY <2>1 DEF NothingToUndo, NoTransaction
  <1>10. (deletions = 0 => AllLive(rows, undo))'
    BY <1>2, <1>4 DEF IInv, AllLive
  <1>11. (unique \/ Undisturbed => KeysDiffer(rows))'
    BY <1>2, <1>4 DEF IInv, KeysDiffer, Undisturbed
  <1>12. (Undisturbed => LookupHolds)'
    <2> SUFFICES ASSUME Undisturbed, NEW q \in Process, run'[q].pc = "create",
                        NEW i \in Id, rows'[i] # Nothing
                 PROVE  rows'[i].key # Item(q)'.key
      BY <1>2 DEF LookupHolds, Undisturbed
    <2>1. /\ \A x \in Process \ {p} : Ended(x)
          /\ Visible(p, i) = rows[i]
      BY AloneSeesAll DEF Undisturbed
    <2>2. q = p
      BY <1>3, <2>1 DEF Ended
    <2>3. NothingFound(p, r)
      BY <1>3, <2>2 DEF GoesOn, NothingWritten, Written, TransactionEnds
    <2>4. rows' = rows /\ Existing(p) = {} /\ Item(q)' = Item(p)
      BY <1>3, <2>2, <2>3 DEF NothingFound, dbVars, Item
    <2>5. rows[i].live
      BY <2>4 DEF IInv, AllLive, Undisturbed
    <2> QED
      BY <2>1, <2>4, <2>5 DEF Existing
  <1> QED
    BY <1>5, <1>6, <1>7, <1>8, <1>9, <1>10, <1>11, <1>12 DEF IInv

-----------------------------------------------------------------------------
\* Every step preserves the invariant

\* A step that leaves the database alone, in which runs stay ended or are disturbed.
LEMMA DatabaseAside ==
    ASSUME IInv, UNCHANGED <<rows, undo, unique, deletions>>, RegistryInv', RunInv', CountersInv', OneRuns',
           \A q \in Process : NoTransaction(run'[q]) => NoTransaction(run[q]),
           Undisturbed' => /\ Undisturbed
                           /\ \A q \in Process : run'[q].pc = "create" =>
                                 run[q].pc = "create" /\ Item(q)' = Item(q)
    PROVE  IInv'
  <1>1. DatabaseInv(rows, undo)'
    BY DEF IInv, DatabaseInv
  <1>2. NothingToUndo'
    BY DEF IInv, NothingToUndo, NoTransaction
  <1>3. (deletions = 0 => AllLive(rows, undo))'
    BY DEF IInv, AllLive
  <1>4. (unique \/ Undisturbed => KeysDiffer(rows))'
    BY DEF IInv, KeysDiffer
  <1>5. (Undisturbed => LookupHolds)'
    BY DEF IInv, LookupHolds
  <1> QED
    BY <1>1, <1>2, <1>3, <1>4, <1>5 DEF IInv

LEMMA RegisterKeeps ==
    ASSUME IInv, NEW p \in Process, NEW program \in Programs, Register(p, program)
    PROVE  IInv'
  <1>1. /\ registry' = [registry EXCEPT ![p] = FoldLeft(Registered, @, program)]
        /\ registry[p] = NoRegistry
        /\ UNCHANGED <<run, rows, undo, unique, deletions, runs, overlapped>>
    BY DEF Register, dbVars
  <1>2. GoodRegistry(FoldLeft(Registered, NoRegistry, program))
    BY ProgramsAssumption, ProgramsRegister
  <1>3. RegistryInv'
    BY <1>1, <1>2 DEF IInv, RegistryInv
  <1>4. RunInv' /\ CountersInv' /\ OneRuns'
    BY <1>1 DEF IInv, RunInv, CountersInv, OneRuns, Ended
  <1> QED
    BY <1>1, <1>3, <1>4, DatabaseAside DEF Undisturbed, Item

LEMMA ResetKeeps ==
    ASSUME IInv, NEW p \in Process, Reset(p)
    PROVE  IInv'
  <1>1. /\ registry' = [registry EXCEPT ![p] = NoRegistry] /\ Ended(p)
        /\ run' = [run EXCEPT ![p] = Idle]
        /\ UNCHANGED <<rows, undo, unique, deletions, runs, overlapped>>
    BY DEF Reset, dbVars, Ended
  <1>2. /\ run'[p] = Idle /\ Idle.pc = "idle" /\ Idle.mode = "single"
        /\ \A q \in Process : q # p => run'[q] = run[q]
    BY <1>1 DEF IInv, RunInv, Idle
  <1>3. RegistryInv'
    BY <1>1, NoRegistryIsGood DEF IInv, RegistryInv
  <1>4. RunInv'
    BY <1>1, IdleIsGood, IdleTypes DEF IInv, RunInv
  <1>5. CountersInv'
    BY <1>1 DEF IInv, CountersInv
  <1>6. \A q \in Process : Ended(q)' <=> Ended(q)
    BY <1>1, <1>2 DEF Ended
  <1>7. OneRuns'
    BY <1>1, <1>6 DEF IInv, OneRuns
  <1>8. \A q \in Process : run'[q].pc = "create" => run[q].pc = "create" /\ Item(q)' = Item(q)
    BY <1>2 DEF Item
  <1>9. \A q \in Process : NoTransaction(run'[q]) => NoTransaction(run[q])
    BY <1>1, <1>2 DEF NoTransaction, Ended
  <1> QED
    BY <1>1, <1>3, <1>4, <1>5, <1>6, <1>7, <1>8, <1>9, DatabaseAside DEF Undisturbed

LEMMA StartedKeeps ==
    ASSUME IInv, NEW p \in Process, Ended(p), NEW new, GoodRun(new), new.pc \in {"next", "failed"},
           Started(p, new), UNCHANGED <<registry, rows, undo, unique, deletions>>
    PROVE  IInv'
  <1> DEFINE others == {q \in Others(p) : ~ Ended(q)}
  <1>1. /\ run' = [q \in Process |-> IF q = p THEN [new EXCEPT !.alone = others = {}]
                                     ELSE [run[q] EXCEPT !.alone = FALSE]]
        /\ overlapped' = (overlapped \/ others # {})
        /\ runs < MaxRun /\ runs' = runs + 1
    BY DEF Started
  <1>2. GoodRun([new EXCEPT !.alone = others = {}]) /\ new \in RunState
    BY LessAlone DEF GoodRun
  <1>3. \A q \in Process : GoodRun(run[q]) /\ run[q] \in RunState /\ GoodRun([run[q] EXCEPT !.alone = FALSE])
    BY LessAlone DEF IInv, RunInv
  <1>4. /\ run'[p] = [new EXCEPT !.alone = others = {}]
        /\ \A q \in Process : q # p => run'[q] = [run[q] EXCEPT !.alone = FALSE]
    BY <1>1
  <1>5. RunInv'
    <2>1. \A q \in Process : GoodRun(run'[q])
      BY <1>2, <1>3, <1>4
    <2>2. run' \in [Process -> RunState]
      BY <1>1, <2>1 DEF GoodRun
    <2>3. \A q \in Process : GoodRun(run[q])'
      BY <2>1 DEF GoodRun, InOrder, Behind
    <2> QED
      BY <2>2, <2>3 DEF RunInv
  <1>6. /\ run'[p].pc = new.pc
        /\ \A q \in Process : q # p => /\ run'[q].pc = run[q].pc /\ run'[q].mode = run[q].mode
                                       /\ run'[q].current = run[q].current /\ run'[q].item = run[q].item
    <2>1. run'[p].pc = new.pc
      BY <1>2, <1>4 DEF RunState
    <2>2. ASSUME NEW q \in Process, q # p
          PROVE  /\ run'[q].pc = run[q].pc /\ run'[q].mode = run[q].mode
                 /\ run'[q].current = run[q].current /\ run'[q].item = run[q].item
      <3>1. run[q] \in RunState /\ run'[q] = [run[q] EXCEPT !.alone = FALSE]
        BY <1>3, <1>4, <2>2
      <3> QED
        BY <3>1 DEF RunState
    <2> QED
      BY <2>1, <2>2
  <1>7. CountersInv'
    BY <1>1, BoundAssumption DEF IInv, CountersInv
  <1>8. RegistryInv'
    BY DEF IInv, RegistryInv
  <1>9. OneRuns'
    <2>1. ~ overlapped' => \A q \in Process : q # p => Ended(q)
      BY <1>1 DEF Others
    <2>2. \A q \in Process : q # p /\ Ended(q) => Ended(q)'
      BY <1>6 DEF Ended
    <2> QED
      BY <2>1, <2>2 DEF OneRuns
  <1>10. \A q \in Process : NoTransaction(run'[q]) => NoTransaction(run[q])
    BY <1>6 DEF NoTransaction, Ended
  <1>11. \A q \in Process : run'[q].pc = "create" => run[q].pc = "create" /\ Item(q)' = Item(q)
    BY <1>6 DEF Item
  <1>12. Undisturbed' => Undisturbed
    BY <1>1 DEF Undisturbed
  <1> QED
    BY <1>5, <1>7, <1>8, <1>9, <1>10, <1>11, <1>12, DatabaseAside

LEMMA RunKeeps ==
    ASSUME IInv, NEW p \in Process, NEW mode \in {"single", "per_seeder"}, Run(p, mode)
    PROVE  IInv'
  <1> DEFINE order == Resolution(registry[p])
             new == IF Resolvable(registry[p])
                    THEN [Idle EXCEPT !.pc = "next", !.mode = mode,
                                      !.todo = [i \in DOMAIN order |-> registry[p].seeders[order[i]]]]
                    ELSE [Idle EXCEPT !.pc = "failed"]
  <1>1. /\ Ended(p) /\ Started(p, new)
        /\ UNCHANGED <<registry, rows, undo, unique, deletions>>
    BY DEF Run, dbVars
  <1>2. GoodRegistry(registry[p]) /\ mode \in Mode
    BY DEF IInv, RegistryInv, Mode
  <1>3. GoodRun(new)
    BY <1>2, ResolvedRunIsGood, FailedIsGood
  <1>4. new.pc \in {"next", "failed"}
    BY DEF Idle
  <1> HIDE DEF new
  <1> QED
    BY <1>1, <1>3, <1>4, StartedKeeps

LEMMA SyncDirectlyKeeps ==
    ASSUME IInv, NEW p \in Process, NEW program \in Programs, SyncDirectly(p, Head(program))
    PROVE  IInv'
  <1> DEFINE seeder == Head(program)
             new == [Idle EXCEPT !.pc = "next", !.mode = "direct", !.todo = <<[seeder EXCEPT !.deps = {}]>>]
  <1>1. /\ Ended(p) /\ Started(p, new)
        /\ UNCHANGED <<registry, rows, undo, unique, deletions>>
    BY DEF SyncDirectly, dbVars
  <1>2. seeder \in Seeder
    BY ProgramsAssumption
  <1> HIDE DEF seeder
  <1>3. GoodRun(new)
    BY <1>2, DirectRunIsGood
  <1>4. new.pc \in {"next", "failed"}
    BY DEF Idle
  <1> HIDE DEF new
  <1> QED
    BY <1>1, <1>3, <1>4, StartedKeeps

\* A row that the application deletes keeps its key.
LEMMA SoftDeleteKeeps ==
    ASSUME IInv, NEW i \in Id, SoftDelete(i)
    PROVE  IInv'
  <1>1. /\ rows[i] # Nothing /\ rows' = [rows EXCEPT ![i].live = FALSE]
        /\ deletions < MaxDelete /\ deletions' = deletions + 1
        /\ \A p \in Process : i \notin DOMAIN undo[p]
        /\ run' = [p \in Process |-> [run[p] EXCEPT !.alone = FALSE]]
        /\ UNCHANGED <<registry, undo, unique, runs, overlapped>>
    BY DEF SoftDelete
  <1>2. rows \in [Id -> Row \cup {Nothing}] /\ deletions \in 0..MaxDelete /\ MaxDelete \in Nat
    BY BoundAssumption DEF IInv, DatabaseInv, CountersInv
  <1>3. rows[i] \in Row /\ rows'[i] = [rows[i] EXCEPT !.live = FALSE]
    BY <1>1, <1>2
  <1>4. /\ rows'[i] \in Row /\ rows'[i].key = rows[i].key
        /\ \A j \in Id : j # i => rows'[j] = rows[j]
        /\ rows' = [j \in Id |-> rows'[j]]
    BY <1>1, <1>2, <1>3 DEF Row
  <1>5. rows' \in [Id -> Row \cup {Nothing}]
    BY <1>2, <1>4
  <1>6. \A j \in Id : /\ rows'[j] # Nothing => rows[j] # Nothing
                      /\ rows'[j].key = rows[j].key
    BY <1>1, <1>4
  <1>7. DatabaseInv(rows, undo)'
    <2>1. \A p \in Process : \A j \in DOMAIN undo[p] : j \in Id /\ j # i
      BY <1>1 DEF IInv, DatabaseInv
    <2> QED
      BY <1>1, <1>4, <1>5, <2>1 DEF IInv, DatabaseInv
  <1>8. deletions' # 0 /\ deletions' \in 0..MaxDelete
    BY <1>1, <1>2
  <1>9. (unique \/ Undisturbed => KeysDiffer(rows))'
    BY <1>1, <1>6, <1>8 DEF IInv, KeysDiffer, Undisturbed
  <1>10. \A p \in Process : GoodRun(run[p]) /\ run[p] \in RunState /\ GoodRun([run[p] EXCEPT !.alone = FALSE])
    BY LessAlone DEF IInv, RunInv
  <1>11. RunInv'
    <2>1. \A p \in Process : GoodRun(run'[p])
      BY <1>1, <1>10
    <2>2. run' \in [Process -> RunState]
      BY <1>1, <2>1 DEF GoodRun
    <2>3. \A p \in Process : GoodRun(run[p])'
      BY <2>1 DEF GoodRun, InOrder, Behind
    <2> QED
      BY <2>2, <2>3 DEF RunInv
  <1>12. \A p \in Process : run'[p].pc = run[p].pc /\ run'[p].mode = run[p].mode
    BY <1>1, <1>10 DEF RunState
  <1>13. OneRuns' /\ NothingToUndo'
    BY <1>1, <1>12 DEF IInv, OneRuns, NothingToUndo, NoTransaction, Ended
  <1>14. RegistryInv' /\ CountersInv'
    BY <1>1, <1>8 DEF IInv, RegistryInv, CountersInv
  <1> QED
    BY <1>7, <1>8, <1>9, <1>11, <1>13, <1>14 DEF IInv, Undisturbed

LEMMA InitIInv == Init => IInv
  <1> SUFFICES ASSUME Init PROVE IInv
    OBVIOUS
  <1>1. RegistryInv
    BY NoRegistryIsGood DEF Init, RegistryInv
  <1>2. RunInv
    BY IdleIsGood, IdleTypes DEF Init, RunInv
  <1>3. CountersInv
    <2>1. 0 \in 0..MaxDelete /\ 0 \in 0..MaxRun
      BY BoundAssumption
    <2> QED
      BY <2>1 DEF Init, CountersInv
  <1>4. \A p \in Process : undo[p] = <<>> /\ DOMAIN undo[p] = {} /\ undo[p] \in [{} -> Row \cup {Nothing}]
    BY DEF Init
  <1>5. \A i \in Id : rows[i] = Nothing
    BY DEF Init
  <1>6. rows \in [Id -> Row \cup {Nothing}] /\ undo = [p \in Process |-> undo[p]]
    BY DEF Init
  <1>7. DatabaseInv(rows, undo)
    BY <1>4, <1>6 DEF DatabaseInv
  <1>8. OneRuns /\ NothingToUndo
    BY <1>4, IdleTypes DEF Init, OneRuns, NothingToUndo, Ended
  <1>9. AllLive(rows, undo) /\ KeysDiffer(rows)
    BY <1>4, <1>5 DEF AllLive, KeysDiffer
  <1>10. LookupHolds
    BY <1>5 DEF LookupHolds
  <1> QED
    BY <1>1, <1>2, <1>3, <1>7, <1>8, <1>9, <1>10 DEF IInv

LEMMA Stutter == ASSUME IInv, UNCHANGED vars PROVE IInv'
  <1>1. UNCHANGED <<registry, run, rows, undo, unique, deletions, runs, overlapped>>
    BY DEF vars
  <1>2. RegistryInv' /\ RunInv' /\ CountersInv' /\ OneRuns'
    BY <1>1 DEF IInv, RegistryInv, RunInv, CountersInv, OneRuns, Ended
  <1> QED
    BY <1>1, <1>2, DatabaseAside DEF Undisturbed, Item

LEMMA NextIInv == ASSUME IInv, [Next]_vars PROVE IInv'
  <1>1. ASSUME NEW p \in Process, NEW program \in Programs, Register(p, program) PROVE IInv'
    BY <1>1, RegisterKeeps
  <1>2. ASSUME NEW p \in Process, Reset(p) PROVE IInv'
    BY <1>2, ResetKeeps
  <1>3. ASSUME NEW p \in Process, NEW mode \in {"single", "per_seeder"}, Run(p, mode) PROVE IInv'
    BY <1>3, RunKeeps
  <1>4. ASSUME NEW p \in Process, NEW program \in Programs, SyncDirectly(p, Head(program)) PROVE IInv'
    BY <1>4, SyncDirectlyKeeps
  <1>5. ASSUME NEW p \in Process, Step(p) \/ SeederFails(p) PROVE IInv'
    BY <1>5, StepGoesOn, GoesOnKeeps
  <1>6. ASSUME NEW i \in Id, SoftDelete(i) PROVE IInv'
    BY <1>6, SoftDeleteKeeps
  <1>7. CASE UNCHANGED vars
    BY <1>7, Stutter
  <1> QED
    BY <1>1, <1>2, <1>3, <1>4, <1>5, <1>6, <1>7 DEF Next

LEMMA Invariance == Spec => []IInv
  <1>1. IInv /\ [Next]_vars => IInv'
    BY NextIInv
  <1> QED
    BY <1>1, InitIInv, PTL DEF Spec

-----------------------------------------------------------------------------
\* Registries, runs, the table and the open transactions are well-formed.
THEOREM TypeCorrect == Spec => []TypeOK
  <1>1. ASSUME IInv PROVE TypeOK
    <2>1. ASSUME NEW p \in Process
          PROVE  /\ Range(registry[p].order) = DOMAIN registry[p].seeders
                 /\ IsInjective(registry[p].order)
      BY <1>1 DEF IInv, RegistryInv, GoodRegistry
    <2>2. ASSUME NEW p \in Process
          PROVE  /\ run[p].pc \in {"idle", "next", "find", "create", "update", "return", "ok", "failed"}
                 /\ run[p].mode \in Mode
                 /\ run[p].pc \in {"find", "create", "update"} =>
                       run[p].item \in DOMAIN run[p].current.items
      <3>1. GoodRun(run[p]) /\ run[p] \in RunState
        BY <1>1, RunFields DEF IInv
      <3>2. run[p].current.items \in Seq([id : Id, key : Key, value : Value])
        BY <3>1 DEF RunState, Seeder
      <3> QED
        BY <3>1, <3>2 DEF GoodRun, RunState
    <2>3. ASSUME NEW p \in Process
          PROVE  /\ undo[p] \in [DOMAIN undo[p] -> Row \cup {Nothing}]
                 /\ DOMAIN undo[p] \subseteq Id
                 /\ \A q \in Process \ {p} : DOMAIN undo[p] \cap DOMAIN undo[q] = {}
      BY <1>1 DEF IInv, DatabaseInv
    <2>4. rows \in [Id -> Row \cup {Nothing}] /\ deletions \in 0..MaxDelete /\ runs \in 0..MaxRun
      BY <1>1 DEF IInv, DatabaseInv, CountersInv
    <2> QED
      BY <2>1, <2>2, <2>3, <2>4 DEF TypeOK
  <1> QED
    BY <1>1, Invariance, PTL

\* A seeder runs when those it depends on have returned, however they were
\* registered.
THEOREM DependenciesGoFirst == Spec => []DependenciesFirst
  <1>1. IInv => DependenciesFirst
    BY DEF IInv, RunInv, GoodRun, InOrder, DependenciesFirst
  <1> QED
    BY <1>1, Invariance, PTL

\* With a unique index, or without overlapping runs and deletions, a key has one
\* live record for whoever looks.
THEOREM KeysHaveOneRecord == Spec => []OneRecordPerKey
  <1>1. ASSUME IInv, unique \/ (~ overlapped /\ deletions = 0), NEW p \in Process, NEW k \in Key
        PROVE  Cardinality({i \in Id : /\ Visible(p, i) # Nothing
                                       /\ Visible(p, i).key = k
                                       /\ Visible(p, i).live}) <= 1
    <2> DEFINE found == {i \in Id : /\ Visible(p, i) # Nothing
                                    /\ Visible(p, i).key = k
                                    /\ Visible(p, i).live}
    <2>1. KeysDiffer(rows)
      BY <1>1 DEF IInv, Undisturbed
    <2>2. ASSUME NEW i \in Id, Visible(p, i) # Nothing
          PROVE  rows[i] # Nothing /\ rows[i].key = Visible(p, i).key
      <3>1. CASE i \in WrittenByOthers(p)
        <4>1. \E q \in Others(p) : i \in DOMAIN undo[q]
          BY <3>1 DEF WrittenByOthers
        <4>2. PICK q \in Others(p) : i \in DOMAIN undo[q] /\ Visible(p, i) = undo[q][i]
          BY <3>1, <4>1 DEF Visible
        <4> QED
          BY <1>1, <2>2, <4>2 DEF IInv, DatabaseInv, Others
      <3>2. CASE i \notin WrittenByOthers(p)
        BY <2>2, <3>2 DEF Visible
      <3> QED
        BY <3>1, <3>2
    <2>3. \A i \in found, j \in found : i = j
      BY <2>1, <2>2 DEF KeysDiffer
    <2> HIDE DEF found
    <2>4. ASSUME found = {} PROVE Cardinality(found) <= 1
      BY <2>4, FS_EmptySet
    <2>5. ASSUME NEW i \in found PROVE Cardinality(found) <= 1
      <3>1. found = {i}
        BY <2>3
      <3> QED
        BY <3>1, FS_Singleton
    <2>6. Cardinality(found) <= 1
      BY <2>4, <2>5
    <2> QED
      BY <2>6 DEF found
  <1>2. IInv => OneRecordPerKey
    BY <1>1 DEF OneRecordPerKey
  <1> QED
    BY <1>2, Invariance, PTL

-----------------------------------------------------------------------------
\* What is committed

LEMMA CommittedRows ==
    ASSUME NEW i \in Id
    PROVE  /\ (\A q \in Process : i \notin DOMAIN undo[q]) => Committed(i) = rows[i]
           /\ \A p \in Process :
                 i \in DOMAIN undo[p] /\ (\A q \in Process \ {p} : i \notin DOMAIN undo[q]) =>
                     Committed(i) = undo[p][i]
  <1>1. ASSUME NEW p \in Process, i \in DOMAIN undo[p], \A q \in Process \ {p} : i \notin DOMAIN undo[q]
        PROVE  Committed(i) = undo[p][i]
    <2> DEFINE owner == CHOOSE q \in Process : i \in DOMAIN undo[q]
    <2>1. owner \in Process /\ i \in DOMAIN undo[owner]
      BY <1>1
    <2>2. owner = p
      BY <1>1, <2>1
    <2> QED
      BY <1>1, <2>2 DEF Committed
  <1> QED
    BY <1>1 DEF Committed

LEMMA CommittedRowsAfter ==
    ASSUME NEW i \in Id
    PROVE  /\ (\A q \in Process : i \notin DOMAIN undo'[q]) => Committed(i)' = rows'[i]
           /\ \A p \in Process :
                 i \in DOMAIN undo'[p] /\ (\A q \in Process \ {p} : i \notin DOMAIN undo'[q]) =>
                     Committed(i)' = undo'[p][i]
  <1>1. ASSUME NEW p \in Process, i \in DOMAIN undo'[p], \A q \in Process \ {p} : i \notin DOMAIN undo'[q]
        PROVE  Committed(i)' = undo'[p][i]
    <2> DEFINE owner == CHOOSE q \in Process : i \in DOMAIN undo'[q]
    <2>1. owner \in Process /\ i \in DOMAIN undo'[owner]
      BY <1>1
    <2>2. owner = p
      BY <1>1, <2>1
    <2> QED
      BY <1>1, <2>2 DEF Committed
  <1> QED
    BY <1>1 DEF Committed

\* In a transaction a write is not committed.
LEMMA WriteCommitsNothing ==
    ASSUME DatabaseInv(rows, undo), NEW p \in Process, run[p].mode # "direct",
           NEW new, Extends(p, new), Write(p, new), NEW i \in Id
    PROVE  Committed(i)' = Committed(i)
  <1>1. DOMAIN new \subseteq Id /\ \A j \in DOMAIN new : \A q \in Process \ {p} : j \notin DOMAIN undo[q]
    BY OthersWrites DEF Extends
  <1>2. /\ rows' = [j \in Id |-> IF j \in DOMAIN new THEN new[j] ELSE rows[j]]
        /\ \A q \in Process \ {p} : undo'[q] = undo[q]
        /\ undo'[p] = [j \in DOMAIN undo[p] \cup DOMAIN new |->
                          IF j \in DOMAIN undo[p] THEN undo[p][j] ELSE rows[j]]
    BY <1>1, WriteFields
  <1>3. \A q \in Process : \A r \in Process \ {q} : DOMAIN undo[q] \cap DOMAIN undo[r] = {}
    BY DEF DatabaseInv
  <1>4. CASE i \in DOMAIN undo[p] \cup DOMAIN new
    <2>1. \A q \in Process \ {p} : i \notin DOMAIN undo[q] /\ i \notin DOMAIN undo'[q]
      BY <1>1, <1>2, <1>3, <1>4
    <2>2. i \in DOMAIN undo'[p] /\ undo'[p][i] = IF i \in DOMAIN undo[p] THEN undo[p][i] ELSE rows[i]
      BY <1>2, <1>4
    <2>3. Committed(i)' = undo'[p][i]
      BY <2>1, <2>2, CommittedRowsAfter
    <2>4. CASE i \in DOMAIN undo[p]
      BY <2>1, <2>2, <2>3, <2>4, CommittedRows
    <2>5. CASE i \notin DOMAIN undo[p]
      <3>1. \A q \in Process : i \notin DOMAIN undo[q]
        BY <2>1, <2>5
      <3> QED
        BY <2>2, <2>3, <2>5, <3>1, CommittedRows
    <2> QED
      BY <2>4, <2>5
  <1>5. CASE i \notin DOMAIN undo[p] \cup DOMAIN new
    <2>1. rows'[i] = rows[i] /\ i \notin DOMAIN undo[p] /\ i \notin DOMAIN undo'[p]
      BY <1>2, <1>5
    <2>2. CASE \E q \in Process : i \in DOMAIN undo[q]
      <3>1. PICK q \in Process : i \in DOMAIN undo[q]
        BY <2>2
      <3>2. q # p /\ \A r \in Process \ {q} : i \notin DOMAIN undo[r]
        BY <1>3, <2>1, <3>1
      <3>3. undo'[q] = undo[q] /\ \A r \in Process \ {q} : i \notin DOMAIN undo'[r]
        BY <1>2, <2>1, <3>2
      <3> QED
        BY <3>1, <3>2, <3>3, CommittedRows, CommittedRowsAfter
    <2>3. CASE \A q \in Process : i \notin DOMAIN undo[q]
      <3>1. \A q \in Process : i \notin DOMAIN undo'[q]
        BY <1>2, <2>1, <2>3
      <3> QED
        BY <2>1, <2>3, <3>1, CommittedRows, CommittedRowsAfter
    <2> QED
      BY <2>2, <2>3
  <1> QED
    BY <1>4, <1>5

LEMMA RollBackCommitsNothing ==
    ASSUME DatabaseInv(rows, undo), NEW p \in Process, RollBack(p), NEW i \in Id
    PROVE  Committed(i)' = Committed(i)
  <1>1. /\ rows' = [j \in Id |-> IF j \in DOMAIN undo[p] THEN undo[p][j] ELSE rows[j]]
        /\ \A q \in Process \ {p} : undo'[q] = undo[q]
        /\ undo'[p] = <<>>
    BY RollBackFields
  <1>2. \A q \in Process : \A r \in Process \ {q} : DOMAIN undo[q] \cap DOMAIN undo[r] = {}
    BY DEF DatabaseInv
  <1>3. i \notin DOMAIN undo'[p]
    BY <1>1
  <1>4. CASE i \in DOMAIN undo[p]
    <2>1. \A q \in Process \ {p} : i \notin DOMAIN undo[q]
      BY <1>2, <1>4
    <2>2. \A q \in Process : i \notin DOMAIN undo'[q]
      BY <1>1, <1>3, <2>1
    <2>3. rows'[i] = undo[p][i]
      BY <1>1, <1>4
    <2> QED
      BY <1>4, <2>1, <2>2, <2>3, CommittedRows, CommittedRowsAfter
  <1>5. CASE i \notin DOMAIN undo[p] /\ \E q \in Process : i \in DOMAIN undo[q]
    <2>1. PICK q \in Process : i \in DOMAIN undo[q]
      BY <1>5
    <2>2. q # p /\ \A r \in Process \ {q} : i \notin DOMAIN undo[r]
      BY <1>2, <1>5, <2>1
    <2>3. undo'[q] = undo[q] /\ \A r \in Process \ {q} : i \notin DOMAIN undo'[r]
      BY <1>1, <1>3, <2>2
    <2> QED
      BY <2>1, <2>2, <2>3, CommittedRows, CommittedRowsAfter
  <1>6. CASE \A q \in Process : i \notin DOMAIN undo[q]
    <2>1. rows'[i] = rows[i] /\ \A q \in Process : i \notin DOMAIN undo'[q]
      BY <1>1, <1>3, <1>6
    <2> QED
      BY <1>6, <2>1, CommittedRows, CommittedRowsAfter
  <1> QED
    BY <1>4, <1>5, <1>6

LEMMA EmptyCommitsNothing ==
    ASSUME DatabaseInv(rows, undo), NEW p \in Process, Commit(p), DOMAIN undo[p] = {}, NEW i \in Id
    PROVE  Committed(i)' = Committed(i)
  <1>1. /\ rows' = rows
        /\ \A q \in Process \ {p} : undo'[q] = undo[q]
        /\ DOMAIN undo'[p] = {}
    BY CommitFields
  <1>2. \A q \in Process : \A r \in Process \ {q} : DOMAIN undo[q] \cap DOMAIN undo[r] = {}
    BY DEF DatabaseInv
  <1>3. CASE \E q \in Process : i \in DOMAIN undo[q]
    <2>1. PICK q \in Process : i \in DOMAIN undo[q]
      BY <1>3
    <2>2. q # p /\ \A r \in Process \ {q} : i \notin DOMAIN undo[r]
      BY <1>2, <2>1
    <2>3. undo'[q] = undo[q] /\ \A r \in Process \ {q} : i \notin DOMAIN undo'[r]
      BY <1>1, <2>2
    <2> QED
      BY <2>1, <2>2, <2>3, CommittedRows, CommittedRowsAfter
  <1>4. CASE \A q \in Process : i \notin DOMAIN undo[q]
    <2>1. \A q \in Process : i \notin DOMAIN undo'[q]
      BY <1>1, <1>4
    <2> QED
      BY <1>1, <1>4, <2>1, CommittedRows, CommittedRowsAfter
  <1> QED
    BY <1>3, <1>4

\* When a step of p in a run with transactions changes what is committed.
LEMMA StepCommits ==
    ASSUME IInv, NEW p \in Process, run[p].mode # "direct", Step(p) \/ SeederFails(p),
           NEW i \in Id, Committed(i)' # Committed(i)
    PROVE  IF run[p].mode = "single" THEN run'[p].pc = "ok"
           ELSE run[p].pc = "return" /\ run'[p].pc = "next"
  <1>1. DatabaseInv(rows, undo) /\ run \in [Process -> RunState] /\ run[p] \in RunState
    BY DEF IInv, RunInv
  <1>2. ~ UNCHANGED dbVars
    BY DEF dbVars, Committed
  <1>3. ~ RollBack(p)
    BY <1>1, RollBackCommitsNothing
  <1>4. ~ SyncCreate(p)
    <2> SUFFICES ASSUME SyncCreate(p) PROVE FALSE
      OBVIOUS
    <2>1. /\ run[p].pc = "create" /\ InTheWay(p) = {}
          /\ Write(p, [j \in {Item(p).id} |-> [key |-> Item(p).key, value |-> Item(p).value, live |-> TRUE]])
      BY DEF SyncCreate
    <2> QED
      BY <1>1, <2>1, NewRowExtends, WriteCommitsNothing
  <1>5. ~ SyncUpdate(p)
    <2> SUFFICES ASSUME SyncUpdate(p) PROVE FALSE
      OBVIOUS
    <2>1. /\ run[p].pc = "update" /\ Awaited(p) = {}
          /\ Write(p, [j \in Targets(p) |-> [rows[j] EXCEPT !.value = Item(p).value, !.live = TRUE]])
      BY DEF SyncUpdate
    <2> QED
      BY <1>1, <2>1, UpdateExtends, WriteCommitsNothing
  <1>6. CASE SeederReturns(p)
    <2>1. /\ run[p].pc = "return"
          /\ run[p].mode = "per_seeder"
          /\ run' = [run EXCEPT ![p] = [run[p] EXCEPT !.pc = "next", !.done = Append(@, run[p].current.name),
                                                      !.current = NoSeeder, !.item = 0]]
      BY <1>2, <1>6 DEF SeederReturns, CommitsEachSeeder, ChangeRun
    <2>2. run'[p].pc = "next"
      BY <1>1, <2>1 DEF RunState
    <2> QED
      BY <2>1, <2>2
  <1>7. CASE RunEnds(p)
    <2>1. run[p].pc = "next" /\ Commit(p) /\ run' = [run EXCEPT ![p] = [run[p] EXCEPT !.pc = "ok"]]
      BY <1>7 DEF RunEnds, ChangeRun
    <2>2. run'[p].pc = "ok"
      BY <1>1, <2>1 DEF RunState
    <2>3. run[p].mode # "per_seeder"
      <3>1. run[p].mode = "per_seeder" => DOMAIN undo[p] = {}
        BY <2>1 DEF IInv, NothingToUndo, NoTransaction
      <3> QED
        BY <1>1, <2>1, <3>1, EmptyCommitsNothing
    <2>4. run[p].mode = "single"
      BY <1>1, <2>3 DEF RunState, Mode
    <2> QED
      BY <2>2, <2>4
  <1>8. ~ (NextSeeder(p) \/ SyncFind(p))
    BY <1>2 DEF NextSeeder, SyncFind
  <1>9. ~ (SyncConflict(p) \/ DuplicateKey(p) \/ DeadlockDetected(p) \/ SeederFails(p))
    BY <1>3 DEF SyncConflict, DuplicateKey, DeadlockDetected, SeederFails, Fail
  <1> QED
    BY <1>4, <1>5, <1>6, <1>7, <1>8, <1>9 DEF Step

\* What others see changes when a run in one transaction succeeds, or a seeder in its
\* own returns, and at no other step of the run.
THEOREM OthersSeeOnlyWholes == Spec => OthersSeeWholeTransactions
  <1>1. ASSUME IInv, [Next]_vars, NEW p \in Process, ~ Ended(p), run[p].mode # "direct",
               run'[p] # run[p], deletions' = deletions,
               NEW i \in Id, Committed(i)' # Committed(i)
        PROVE  IF run[p].mode = "single" THEN run'[p].pc = "ok"
               ELSE run[p].pc = "return" /\ run'[p].pc = "next"
    <2>1. ~ UNCHANGED dbVars
      BY <1>1 DEF dbVars, Committed
    <2>2. ~ UNCHANGED vars
      BY <2>1 DEF vars, dbVars
    <2>3. \A q \in Process : ~ Reset(q) /\ \A program \in Programs :
                                  ~ Register(q, program) /\ ~ SyncDirectly(q, Head(program))
      BY <2>1 DEF Reset, Register, SyncDirectly
    <2>4. \A q \in Process, mode \in {"single", "per_seeder"} : ~ Run(q, mode)
      BY <2>1 DEF Run
    <2>5. \A j \in Id : ~ SoftDelete(j)
      BY <1>1 DEF SoftDelete, IInv, CountersInv
    <2>6. PICK q \in Process : Step(q) \/ SeederFails(q)
      BY <1>1, <2>2, <2>3, <2>4, <2>5 DEF Next
    <2>7. q = p
      <3>1. PICK r : run' = [run EXCEPT ![q] = r]
        BY <1>1, <2>6, StepGoesOn DEF GoesOn, ChangeRun
      <3> QED
        BY <1>1, <3>1 DEF IInv, RunInv
    <2> QED
      BY <1>1, <2>6, <2>7, StepCommits
  <1>2. IInv /\ [Next]_vars =>
          [\A p \in Process :
               /\ ~ Ended(p)
               /\ run[p].mode # "direct"
               /\ run'[p] # run[p]
               /\ deletions' = deletions
               /\ \E i \in Id : Committed(i)' # Committed(i)
               => IF run[p].mode = "single" THEN run'[p].pc = "ok"
                  ELSE run[p].pc = "return" /\ run'[p].pc = "next"]_vars
    BY <1>1
  <1> QED
    BY <1>2, Invariance, PTL DEF Spec, OthersSeeWholeTransactions

-----------------------------------------------------------------------------
\* The items of a run

Items == Seq([id : Id, key : Key, value : Value])

LEMMA SeederItems ==
    ASSUME NEW reg, GoodRegistry(reg), NEW n \in DOMAIN reg.seeders
    PROVE  reg.seeders[n].items \in Items
  BY DEF GoodRegistry, Seeder, Items

\* ItemsOf goes along the seeders one by one.
LEMMA ItemsAlong ==
    ASSUME NEW reg, GoodRegistry(reg), NEW seq \in Seq(DOMAIN reg.seeders)
    PROVE  \E g \in [0..Len(seq) -> Items] :
               /\ g[0] = <<>>
               /\ \A k \in 0..Len(seq)-1 : g[k+1] = g[k] \o reg.seeders[seq[k+1]].items
               /\ ItemsOf(reg, seq) = g[Len(seq)]
  <1> DEFINE n == Len(seq)
             Joined(items, x) == items \o reg.seeders[x].items
             IsFold(f) == f = [s \in SUBSET DOMAIN seq |->
                                 IF s = {} THEN <<>> ELSE Joined(f[s \ {Max(s)}], seq[Max(s)])]
             fold == CHOOSE f : IsFold(f)
             step == [x \in (1..n) \X Items |-> Joined(x[2], seq[x[1]])]
  <1>1. n \in Nat /\ DOMAIN seq = 1..n /\ \A k \in 1..n : seq[k] \in DOMAIN reg.seeders
    OBVIOUS
  <1>2. <<>> \in Items
    BY DEF Items
  <1>3. \A items \in Items, k \in 1..n : Joined(items, seq[k]) \in Items
    <2> SUFFICES ASSUME NEW items \in Items, NEW k \in 1..n PROVE Joined(items, seq[k]) \in Items
      OBVIOUS
    <2>1. reg.seeders[seq[k]].items \in Items
      BY <1>1, SeederItems
    <2> QED
      BY <2>1 DEF Items
  <1>4. step \in [(1..n) \X Items -> Items]
    BY <1>3
  <1>5. \A k \in 1..n, items \in Items : step[<<k, items>>] = Joined(items, seq[k])
    OBVIOUS
  <1> HIDE DEF step
  <1>6. IsFold(fold)
    <2>1. PICK f \in [SUBSET (1..n) -> Items] : Iterates(f, n, <<>>, step)
      BY <1>1, <1>2, <1>4, IterationExists
    <2>2. ASSUME NEW s \in SUBSET (1..n), s # {}
          PROVE  f[s] = Joined(f[s \ {Max(s)}], seq[Max(s)])
      <3>1. Max(s) \in 1..n
        BY <1>1, <2>2, GreatestOf
      <3>2. f[s \ {Max(s)}] \in Items
        OBVIOUS
      <3> QED
        BY <1>5, <2>1, <2>2, <3>1, <3>2 DEF Iterates
    <2>3. f[{}] = <<>>
      BY <2>1 DEF Iterates
    <2>4. IsFold(f)
      BY <1>1, <2>2, <2>3
    <2> QED
      BY <2>4
  <1>7. ItemsOf(reg, seq) = fold[1..n]
    BY <1>1 DEF ItemsOf, FoldLeft, MapThenFoldSet
  <1> HIDE DEF fold
  <1>8. fold[1..0] = <<>>
    BY <1>1, <1>6
  <1>9. ASSUME NEW k \in 0..n-1 PROVE fold[1..k+1] = Joined(fold[1..k], seq[k+1])
    <2>1. /\ 1..k+1 \in SUBSET (1..n) /\ 1..k+1 # {} /\ k + 1 \in 1..n
          /\ k + 1 = Max(1..k+1) /\ 1..k = (1..k+1) \ {k + 1}
      BY <1>1, GreatestOfPrefix
    <2> QED
      BY <1>1, <1>6, <2>1
  <1> HIDE DEF IsFold
  <1> DEFINE T == {k \in 0..n : fold[1..k] \in Items}
  <1>10. 0 \in T
    BY <1>1, <1>2, <1>8
  <1>11. ASSUME NEW k \in 0..n-1, k \in T PROVE k + 1 \in T
    <2>1. k + 1 \in 1..n /\ k + 1 \in 0..n /\ fold[1..k] \in Items
      BY <1>1, <1>11
    <2> QED
      BY <1>3, <1>9, <2>1
  <1>12. \A k \in 0..n : fold[1..k] \in Items
    <2> SUFFICES ASSUME NEW m \in 0..n PROVE m \in T
      OBVIOUS
    <2>1. \A k \in 0..m-1 : k \in T => k + 1 \in T
      BY <1>1, <1>11
    <2> HIDE DEF T
    <2> QED
      BY <1>1, <1>10, <2>1, UpTo
  <1> DEFINE g == [k \in 0..n |-> fold[1..k]]
  <1>13. g \in [0..n -> Items] /\ \A k \in 0..n : g[k] = fold[1..k]
    BY <1>12
  <1> HIDE DEF g, Joined
  <1>14. \A k \in 0..n-1 : k \in 0..n /\ k + 1 \in 0..n
    BY <1>1
  <1>15. \A k \in 0..n-1 : g[k+1] = Joined(g[k], seq[k+1])
    BY <1>9, <1>13, <1>14
  <1>16. 0 \in 0..n /\ n \in 0..n
    BY <1>1
  <1> QED
    BY <1>7, <1>8, <1>13, <1>15, <1>16 DEF Joined

LEMMA ItemsOfNone ==
    ASSUME NEW reg, GoodRegistry(reg)
    PROVE  ItemsOf(reg, <<>>) = <<>>
  <1> DEFINE none == <<>>
  <1>1. none \in Seq(DOMAIN reg.seeders) /\ Len(none) = 0
    OBVIOUS
  <1> HIDE DEF none
  <1>2. \E g \in [0..Len(none) -> Items] : g[0] = <<>> /\ ItemsOf(reg, none) = g[Len(none)]
    BY <1>1, ItemsAlong
  <1>3. ItemsOf(reg, none) = <<>>
    BY <1>1, <1>2
  <1> QED
    BY <1>3 DEF none

LEMMA ItemsOfMore ==
    ASSUME NEW reg, GoodRegistry(reg), NEW seq \in Seq(DOMAIN reg.seeders), NEW x \in DOMAIN reg.seeders
    PROVE  /\ ItemsOf(reg, seq) \in Items
           /\ ItemsOf(reg, Append(seq, x)) = ItemsOf(reg, seq) \o reg.seeders[x].items
  <1> DEFINE n == Len(seq)
             more == Append(seq, x)
  <1>1. PICK g \in [0..n -> Items] :
            /\ g[0] = <<>>
            /\ \A k \in 0..n-1 : g[k+1] = g[k] \o reg.seeders[seq[k+1]].items
            /\ ItemsOf(reg, seq) = g[n]
    BY ItemsAlong
  <1>2. /\ more \in Seq(DOMAIN reg.seeders) /\ Len(more) = n + 1 /\ n \in Nat
        /\ more[n+1] = x /\ \A k \in 1..n : more[k] = seq[k]
    OBVIOUS
  <1> HIDE DEF more
  <1>3. PICK h \in [0..n+1 -> Items] :
            /\ h[0] = <<>>
            /\ \A k \in 0..n : h[k+1] = h[k] \o reg.seeders[more[k+1]].items
            /\ ItemsOf(reg, more) = h[n+1]
    <2>1. Len(more) - 1 = n
      BY <1>2
    <2>2. \E h \in [0..Len(more) -> Items] :
               /\ h[0] = <<>>
               /\ \A k \in 0..Len(more)-1 : h[k+1] = h[k] \o reg.seeders[more[k+1]].items
               /\ ItemsOf(reg, more) = h[Len(more)]
      BY <1>2, ItemsAlong
    <2> QED
      BY <1>2, <2>1, <2>2
  <1> DEFINE T == {k \in 0..n : h[k] = g[k]}
  <1>4. 0 \in T
    BY <1>1, <1>2, <1>3
  <1>5. ASSUME NEW k \in 0..n-1, k \in T PROVE k + 1 \in T
    <2>1. k \in 0..n /\ k + 1 \in 0..n /\ k + 1 \in 1..n /\ h[k] = g[k]
      BY <1>2, <1>5
    <2>2. h[k+1] = h[k] \o reg.seeders[more[k+1]].items /\ g[k+1] = g[k] \o reg.seeders[seq[k+1]].items
      BY <1>1, <1>3, <2>1
    <2> QED
      BY <1>2, <2>1, <2>2
  <1>6. n \in T
    <2> HIDE DEF T
    <2> QED
      BY <1>2, <1>4, <1>5, UpTo
  <1>7. n \in 0..n
    BY <1>2
  <1>8. ItemsOf(reg, more) = g[n] \o reg.seeders[x].items
    BY <1>2, <1>3, <1>6, <1>7
  <1>9. g[n] \in Items
    BY <1>7
  <1> QED
    BY <1>1, <1>8, <1>9 DEF more

\* The last of the first n items with its key.
IsLast(items, n, j) == \A h \in 1..n : items[h].key = items[j].key => h <= j

\* An item has the only row with its key.
Holds(R, item) ==
    \E i \in Id : /\ R[i] # Nothing
                  /\ R[i] = [key |-> item.key, value |-> item.value, live |-> TRUE]
                  /\ \A other \in Id \ {i} : R[other] = Nothing \/ R[other].key # item.key

\* How many items of the seeder at hand are in the table.
Synced(r) ==
    IF r.pc = "return" THEN Len(r.current.items)
    ELSE IF r.pc \in {"find", "create", "update"} THEN r.item - 1 ELSE 0

\* For every key the last item so far is in the table.
SyncedHold(before, items, n, R) ==
    /\ \A j \in 1..n : IsLast(items, n, j) => Holds(R, items[j])
    /\ \A j \in 1..Len(before) :
           IsLast(before, Len(before), j) /\ (\A h \in 1..n : items[h].key # before[j].key) =>
               Holds(R, before[j])

\* What is in the table after n items of a seeder, and then the next one.
LEMMA OneMoreHolds ==
    ASSUME NEW before, NEW items, NEW n \in Nat, NEW R, NEW S, SyncedHold(before, items, n, R),
           Holds(S, items[n+1]),
           \A item : item.key # items[n+1].key /\ Holds(R, item) => Holds(S, item)
    PROVE  SyncedHold(before, items, n + 1, S)
  <1>1. ASSUME NEW j \in 1..n+1, IsLast(items, n + 1, j) PROVE Holds(S, items[j])
    <2>1. CASE j = n + 1
      BY <2>1
    <2>2. CASE j # n + 1
      <3>1. j \in 1..n /\ n + 1 \in 1..n+1 /\ ~ (n + 1 <= j)
        BY <2>2
      <3>2. items[n+1].key # items[j].key
        BY <1>1, <3>1 DEF IsLast
      <3>3. IsLast(items, n, j)
        <4>1. \A h \in 1..n : h \in 1..n+1
          OBVIOUS
        <4> QED
          BY <1>1, <4>1 DEF IsLast
      <3>4. Holds(R, items[j])
        BY <3>1, <3>3 DEF SyncedHold
      <3> QED
        BY <3>2, <3>4
    <2> QED
      BY <2>1, <2>2
  <1>2. ASSUME NEW j \in 1..Len(before), IsLast(before, Len(before), j),
               \A h \in 1..n+1 : items[h].key # before[j].key
        PROVE  Holds(S, before[j])
    <2>1. (\A h \in 1..n : h \in 1..n+1) /\ n + 1 \in 1..n+1
      OBVIOUS
    <2>2. Holds(R, before[j])
      BY <1>2, <2>1 DEF SyncedHold
    <2> QED
      BY <1>2, <2>1, <2>2
  <1> QED
    BY <1>1, <1>2 DEF SyncedHold

\* What is in the table after all items of a seeder.
LEMMA AllHold ==
    ASSUME NEW before \in Items, NEW items \in Items, NEW R, SyncedHold(before, items, Len(items), R)
    PROVE  SyncedHold(before \o items, NoSeeder.items, 0, R)
  <1> DEFINE all == before \o items
             m == Len(before)
             n == Len(items)
  <1>1. /\ m \in Nat /\ n \in Nat /\ Len(all) = m + n
        /\ \A j \in 1..m : all[j] = before[j]
        /\ \A j \in 1..n : all[m + j] = items[j]
    BY DEF Items
  <1> HIDE DEF all
  <1>2. ASSUME NEW j \in 1..m+n, IsLast(all, m + n, j) PROVE Holds(R, all[j])
    <2>1. CASE j \in 1..m
      <3>1. IsLast(before, m, j)
        <4>1. \A h \in 1..m : h \in 1..m+n /\ all[h] = before[h]
          BY <1>1
        <4> QED
          BY <1>1, <1>2, <2>1, <4>1 DEF IsLast
      <3>2. ASSUME NEW h \in 1..n PROVE items[h].key # before[j].key
        <4>1. m + h \in 1..m+n /\ ~ (m + h <= j) /\ all[m + h] = items[h] /\ all[j] = before[j]
          BY <1>1, <2>1
        <4> QED
          BY <1>2, <4>1 DEF IsLast
      <3>3. Holds(R, before[j])
        BY <2>1, <3>1, <3>2 DEF SyncedHold
      <3> QED
        BY <1>1, <2>1, <3>3
    <2>2. CASE j \notin 1..m
      <3> DEFINE k == j - m
      <3>1. k \in 1..n /\ j = m + k /\ all[j] = items[k]
        BY <1>1, <2>2
      <3> HIDE DEF k
      <3>2. ASSUME NEW h \in 1..n, items[h].key = items[k].key PROVE h <= k
        <4>1. m + h \in 1..m+n /\ all[m + h] = items[h]
          BY <1>1
        <4>2. m + h <= m + k
          BY <1>2, <3>1, <3>2, <4>1 DEF IsLast
        <4> QED
          BY <1>1, <3>1, <4>2
      <3>3. IsLast(items, n, k)
        BY <3>2 DEF IsLast
      <3> QED
        BY <3>1, <3>3 DEF SyncedHold
    <2> QED
      BY <2>1, <2>2
  <1>3. SyncedHold(all, NoSeeder.items, 0, R)
    BY <1>1, <1>2 DEF SyncedHold
  <1> QED
    BY <1>3 DEF all

-----------------------------------------------------------------------------
\* A run on its own

Seeders(reg) == {reg.seeders[n] : n \in DOMAIN reg.seeders}

\* What a run that nothing disturbs has brought about: the items of the seeders that
\* have returned and the items before the one at hand are in the table R, and so is
\* what the lookup of the one at hand has found.
Converging(reg, r, R) ==
    /\ r.done \in Seq(DOMAIN reg.seeders)
    /\ \A j \in 1..Len(r.todo) : r.todo[j] \in Seeders(reg)
    /\ r.pc \in {"find", "create", "update", "return"} => r.current \in Seeders(reg)
    /\ SyncedHold(ItemsOf(reg, r.done), r.current.items, Synced(r), R)
    /\ r.pc = "create" =>
          \A i \in Id : R[i] # Nothing => R[i].key # r.current.items[r.item].key
    /\ r.pc = "update" =>
          \E i \in Id : /\ R[i] # Nothing
                        /\ R[i].key = r.current.items[r.item].key
                        /\ \A other \in Id \ {i} :
                              R[other] = Nothing \/ R[other].key # r.current.items[r.item].key

OnItsOwn(p) ==
    run[p].alone /\ deletions = 0 /\ run[p].mode # "direct" /\ run[p].pc \notin {"idle", "failed"}

AloneInv == \A p \in Process : run[p].alone => \A q \in Process \ {p} : Ended(q)

ConvergeInv ==
    /\ AloneInv
    /\ \A p \in Process : OnItsOwn(p) => Converging(registry[p], run[p], rows)

LEMMA SeederOf ==
    ASSUME NEW reg, GoodRegistry(reg), NEW seeder \in Seeders(reg)
    PROVE  /\ seeder \in Seeder /\ seeder.name \in DOMAIN reg.seeders
           /\ reg.seeders[seeder.name] = seeder /\ seeder.items \in Items
  BY SeederItems DEF GoodRegistry, Seeders

LEMMA AtMostOne ==
    ASSUME NEW S, IsFiniteSet(S), Cardinality(S) < 2, NEW x \in S, NEW y \in S
    PROVE  x = y
  <1> SUFFICES ASSUME x # y PROVE FALSE
    OBVIOUS
  <1>1. IsFiniteSet({x}) /\ Cardinality({x}) = 1
    BY FS_Singleton
  <1>2. Cardinality({x} \cup {y}) = 2
    BY <1>1, FS_AddElement
  <1>3. Cardinality({x} \cup {y}) <= Cardinality(S)
    BY FS_Subset
  <1>4. Cardinality(S) \in Nat
    BY FS_CardinalityType
  <1> QED
    BY <1>2, <1>3, <1>4

\* On its own a process sees the table as it is.
LEMMA SeesTheTable ==
    ASSUME IInv, AloneInv, NEW p \in Process, run[p].alone
    PROVE  /\ \A i : Visible(p, i) = rows[i]
           /\ \A q \in Process \ {p} : DOMAIN undo[q] = {}
  <1>1. \A q \in Process \ {p} : DOMAIN undo[q] = {}
    BY DEF AloneInv, IInv, NothingToUndo, NoTransaction, Ended
  <1>2. \A i : i \notin WrittenByOthers(p)
    BY <1>1, OthersWrites
  <1> QED
    BY <1>1, <1>2 DEF Visible

LEMMA NothingSynced ==
    ASSUME NEW items, NEW R
    PROVE  SyncedHold(<<>>, items, 0, R)
  <1>1. Len(<<>>) = 0 /\ 1..0 = {}
    OBVIOUS
  <1> QED
    BY <1>1 DEF SyncedHold

LEMMA BeginConverging ==
    ASSUME NEW reg, GoodRegistry(reg), NEW mode \in Mode, NEW b \in BOOLEAN, NEW R
    PROVE  Converging(reg, [[Idle EXCEPT
                               !.pc = "next", !.mode = mode,
                               !.todo = [i \in DOMAIN Resolution(reg) |-> reg.seeders[Resolution(reg)[i]]]]
                            EXCEPT !.alone = b], R)
  <1> DEFINE order == Resolution(reg)
             todo == [i \in DOMAIN order |-> reg.seeders[order[i]]]
             r == [[Idle EXCEPT !.pc = "next", !.mode = mode, !.todo = todo] EXCEPT !.alone = b]
  <1>1. order \in Seq(DOMAIN reg.seeders)
    BY ResolutionIsInOrder DEF Orders
  <1> HIDE DEF order
  <1>2. \A j \in 1..Len(todo) : todo[j] \in Seeders(reg)
    BY <1>1 DEF Seeders
  <1> HIDE DEF todo
  <1>3. r.pc = "next" /\ r.done = <<>> /\ r.todo = todo
    BY DEF Idle
  <1> HIDE DEF r
  <1>4. <<>> \in Seq(DOMAIN reg.seeders)
    OBVIOUS
  <1>5. ItemsOf(reg, r.done) = <<>> /\ Synced(r) = 0
    BY <1>3, ItemsOfNone DEF Synced
  <1>6. Converging(reg, r, R)
    BY <1>2, <1>3, <1>4, <1>5, NothingSynced DEF Converging
  <1> QED
    BY <1>6 DEF r, todo, order

LEMMA NextSeederConverges ==
    ASSUME NEW reg, GoodRegistry(reg), NEW r, GoodRun(r), NEW R, Converging(reg, r, R),
           r.pc = "next", r.todo # <<>>
    PROVE  Converging(reg, [r EXCEPT !.pc = IF Head(r.todo).items = <<>> THEN "return" ELSE "find",
                                     !.item = 1, !.current = Head(r.todo), !.todo = Tail(@)], R)
  <1> DEFINE new == [r EXCEPT !.pc = IF Head(r.todo).items = <<>> THEN "return" ELSE "find",
                              !.item = 1, !.current = Head(r.todo), !.todo = Tail(@)]
             seeder == Head(r.todo)
             rest == Tail(r.todo)
  <1>1. r \in RunState /\ r.todo \in Seq(Seeder)
    BY DEF GoodRun, RunState
  <1>2. /\ rest \in Seq(Seeder) /\ seeder = r.todo[1] /\ Len(r.todo) \in Nat /\ Len(r.todo) > 0
        /\ Len(rest) = Len(r.todo) - 1
        /\ \A j \in 1..Len(rest) : rest[j] = r.todo[j + 1]
    BY <1>1
  <1> HIDE DEF seeder, rest
  <1>3. /\ new.done = r.done /\ new.current = seeder /\ new.todo = rest /\ new.item = 1
        /\ new.pc = IF seeder.items = <<>> THEN "return" ELSE "find"
    BY <1>1 DEF RunState, seeder, rest
  <1> HIDE DEF new
  <1>4. /\ \A j \in 1..Len(rest) : j + 1 \in 1..Len(r.todo)
        /\ 1 \in 1..Len(r.todo)
    BY <1>2
  <1>5. seeder \in Seeders(reg) /\ \A j \in 1..Len(rest) : rest[j] \in Seeders(reg)
    BY <1>2, <1>4 DEF Converging
  <1>6. Synced(new) = 0 /\ Synced(r) = 0
    <2>1. Len(<<>>) = 0
      OBVIOUS
    <2> QED
      BY <1>3, <2>1 DEF Synced
  <1>7. SyncedHold(ItemsOf(reg, r.done), seeder.items, 0, R)
    <2>1. SyncedHold(ItemsOf(reg, r.done), r.current.items, 0, R)
      BY <1>6 DEF Converging
    <2>2. 1..0 = {}
      OBVIOUS
    <2> QED
      BY <2>1, <2>2 DEF SyncedHold
  <1>8. Converging(reg, new, R)
    BY <1>3, <1>5, <1>6, <1>7 DEF Converging
  <1> QED
    BY <1>8 DEF new

\* The item at hand is in the table.
LEMMA AfterItemConverges ==
    ASSUME RunInv, NEW p \in Process, run[p].pc \in {"find", "create", "update"},
           NEW reg, NEW R, Converging(reg, run[p], R), NEW S, Holds(S, Item(p)),
           \A item : item.key # Item(p).key /\ Holds(R, item) => Holds(S, item)
    PROVE  Converging(reg, AfterItem(p), S)
  <1> DEFINE r == run[p]
             before == ItemsOf(reg, r.done)
             items == r.current.items
             new == AfterItem(p)
  <1>1. GoodRun(r) /\ r \in RunState
    BY RunFields
  <1>2. r.item \in 1..Len(items) /\ Len(items) \in Nat /\ r.item \in Nat
    BY <1>1 DEF GoodRun, RunState, Seeder
  <1>3. r.item - 1 \in Nat /\ (r.item - 1) + 1 = r.item /\ Synced(r) = r.item - 1
    BY <1>2 DEF Synced
  <1>4. SyncedHold(before, items, r.item - 1, R)
    BY <1>3 DEF Converging
  <1>5. Item(p) = items[r.item]
    BY DEF Item
  <1>6. SyncedHold(before, items, r.item, S)
    <2> DEFINE n == r.item - 1
    <2>1. n \in Nat /\ n + 1 = r.item
      BY <1>3
    <2> HIDE DEF n
    <2>2. SyncedHold(before, items, n, R)
      BY <1>4 DEF n
    <2>3. Holds(S, items[n+1]) /\ \A item : item.key # items[n+1].key /\ Holds(R, item) => Holds(S, item)
      BY <1>5, <2>1
    <2> HIDE DEF before, items
    <2>4. SyncedHold(before, items, n + 1, S)
      BY <2>1, <2>2, <2>3, OneMoreHolds
    <2> QED
      BY <2>1, <2>4
  <1>7. /\ new.done = r.done /\ new.current = r.current /\ new.todo = r.todo
        /\ \/ new.pc = "find" /\ new.item = r.item + 1
           \/ new.pc = "return" /\ ~ (r.item < Len(items))
    BY <1>1 DEF AfterItem, RunState
  <1>8. Synced(new) = r.item
    BY <1>2, <1>7 DEF Synced
  <1>9. r.current \in Seeders(reg)
    BY DEF Converging
  <1> QED
    BY <1>6, <1>7, <1>8, <1>9 DEF Converging

LEMMA FindConverges ==
    ASSUME IInv, AloneInv, NEW p \in Process, OnItsOwn(p), Converging(registry[p], run[p], rows),
           SyncFind(p)
    PROVE  Converging(registry[p], run'[p], rows')
  <1> DEFINE r == run[p]
             item == Item(p)
  <1>1. /\ RunInv /\ GoodRun(r) /\ r \in RunState /\ r.pc = "find"
        /\ run = [q \in Process |-> run[q]]
    BY RunFields DEF IInv, RunInv, SyncFind
  <1>2. rows' = rows /\ Cardinality(Existing(p)) < 2
    BY DEF SyncFind, dbVars
  <1>3. \A i \in Id : i \in Existing(p) <=> rows[i] # Nothing /\ rows[i].key = item.key
    <2>1. \A i \in Id : rows[i] # Nothing => rows[i].live
      BY DEF OnItsOwn, IInv, AllLive
    <2>2. \A i : Visible(p, i) = rows[i]
      BY SeesTheTable DEF OnItsOwn
    <2> QED
      BY <2>1, <2>2 DEF Existing
  <1>4. item = r.current.items[r.item]
    BY DEF Item
  <1>5. CASE Existing(p) = {}
    <2> DEFINE new == [r EXCEPT !.pc = "create"]
    <2>1. run'[p] = new
      BY <1>1, <1>5 DEF SyncFind, ChangeRun
    <2>2. /\ new.pc = "create" /\ new.done = r.done /\ new.todo = r.todo /\ new.current = r.current
          /\ new.item = r.item
      BY <1>1 DEF RunState
    <2> HIDE DEF new
    <2>3. Synced(new) = Synced(r)
      BY <1>1, <2>2 DEF Synced
    <2>4. \A i \in Id : rows[i] # Nothing => rows[i].key # r.current.items[r.item].key
      BY <1>3, <1>4, <1>5
    <2>5. Converging(registry[p], new, rows)
      BY <1>1, <2>2, <2>3, <2>4 DEF Converging
    <2> QED
      BY <1>2, <2>1, <2>5
  <1>6. CASE Existing(p) # {}
    <2>1. PICK i \in Existing(p) : TRUE
      BY <1>6
    <2>2. i \in Id /\ rows[i] # Nothing /\ rows[i].key = item.key
      <3>1. i \in Id
        BY DEF Existing
      <3> QED
        BY <1>3, <3>1
    <2>3. \A other \in Id \ {i} : rows[other] = Nothing \/ rows[other].key # item.key
      <3>1. IsFiniteSet(Existing(p))
        BY IdAssumption, FS_Subset DEF Existing
      <3>2. \A other \in Existing(p) : other = i
        BY <1>2, <3>1, AtMostOne
      <3> QED
        BY <1>3, <3>2
    <2>4. CASE \A j \in Existing(p) : SeedValuesEqual(j, Visible(p, j), item)
      <3>1. run'[p] = AfterItem(p)
        BY <1>1, <1>6, <2>4 DEF SyncFind, ChangeRun
      <3>2. rows[i].value = item.value /\ rows[i].live /\ rows[i] \in Row
        <4>1. SeedValuesEqual(i, rows[i], item)
          BY <2>1, <2>4, SeesTheTable DEF OnItsOwn
        <4>2. rows[i].live
          BY <2>2 DEF OnItsOwn, IInv, AllLive
        <4>3. rows[i] \in Row
          BY <2>2 DEF IInv, DatabaseInv
        <4> QED
          BY <4>1, <4>2, <4>3 DEF SeedValuesEqual
      <3>3. rows[i] = [key |-> item.key, value |-> item.value, live |-> TRUE]
        BY <2>2, <3>2 DEF Row
      <3>4. Holds(rows, item)
        BY <2>2, <2>3, <3>3 DEF Holds
      <3>5. Converging(registry[p], AfterItem(p), rows)
        BY <1>1, <3>4, AfterItemConverges
      <3> QED
        BY <1>2, <3>1, <3>5
    <2>5. CASE ~ \A j \in Existing(p) : SeedValuesEqual(j, Visible(p, j), item)
      <3> DEFINE new == [r EXCEPT !.pc = "update"]
      <3>1. run'[p] = new
        BY <1>1, <1>6, <2>5 DEF SyncFind, ChangeRun
      <3>2. /\ new.pc = "update" /\ new.done = r.done /\ new.todo = r.todo /\ new.current = r.current
            /\ new.item = r.item
        BY <1>1 DEF RunState
      <3> HIDE DEF new
      <3>3. Synced(new) = Synced(r)
        BY <1>1, <3>2 DEF Synced
      <3>4. /\ r.done \in Seq(DOMAIN registry[p].seeders)
            /\ \A j \in 1..Len(r.todo) : r.todo[j] \in Seeders(registry[p])
            /\ r.current \in Seeders(registry[p])
            /\ SyncedHold(ItemsOf(registry[p], r.done), r.current.items, Synced(r), rows)
        BY <1>1 DEF Converging
      <3>5. rows[i].key = new.current.items[new.item].key
        BY <1>4, <2>2, <3>2
      <3>6. \A other \in Id \ {i} :
                rows[other] = Nothing \/ rows[other].key # new.current.items[new.item].key
        BY <1>4, <2>3, <3>2
      <3>7. Converging(registry[p], new, rows)
        BY <2>2, <3>2, <3>3, <3>4, <3>5, <3>6 DEF Converging
      <3> QED
        BY <1>2, <3>1, <3>7
    <2> QED
      BY <2>4, <2>5
  <1> QED
    BY <1>5, <1>6

LEMMA CreateConverges ==
    ASSUME IInv, AloneInv, NEW p \in Process, OnItsOwn(p), Converging(registry[p], run[p], rows),
           SyncCreate(p)
    PROVE  Converging(registry[p], run'[p], rows')
  <1> DEFINE item == Item(p)
             row == [key |-> item.key, value |-> item.value, live |-> TRUE]
             new == [i \in {item.id} |-> row]
  <1>1. RunInv /\ DatabaseInv(rows, undo) /\ run[p].pc = "create" /\ run = [q \in Process |-> run[q]]
    BY DEF IInv, RunInv, SyncCreate
  <1>2. item \in [id : Id, key : Key, value : Value] /\ item = run[p].current.items[run[p].item]
    BY <1>1, ItemTypes DEF Item
  <1>3. /\ InTheWay(p) = {} /\ Write(p, new) /\ run'[p] = AfterItem(p)
    BY <1>1 DEF SyncCreate, ChangeRun
  <1>4. rows[item.id] = Nothing
    BY <1>2, <1>3 DEF InTheWay
  <1>5. \A i \in Id : rows[i] # Nothing => rows[i].key # item.key
    BY <1>1, <1>2 DEF Converging
  <1> HIDE DEF item, row
  <1>6. DOMAIN new = {item.id} /\ new[item.id] = row /\ item.id \in Id
    BY <1>2
  <1> HIDE DEF new
  <1>d. DOMAIN new \subseteq Id
    BY <1>6
  <1>7. rows' = [i \in Id |-> IF i \in DOMAIN new THEN new[i] ELSE rows[i]]
    BY <1>1, <1>3, <1>d, WriteFields
  <1>8. rows'[item.id] = row /\ \A i \in Id \ {item.id} : rows'[i] = rows[i]
    BY <1>6, <1>7
  <1>9. /\ row.key = item.key /\ row = [key |-> item.key, value |-> item.value, live |-> TRUE]
        /\ row # Nothing
    <2>1. item.key \in Key /\ item.value \in Value
      BY <1>2
    <2>2. row \in [key : Key, value : Value, live : BOOLEAN] /\ row.key = item.key
      BY <2>1 DEF row
    <2> QED
      BY <2>2, NothingAssumption DEF row
  <1>10. Holds(rows', item)
    BY <1>5, <1>6, <1>8, <1>9 DEF Holds
  <1>11. ASSUME NEW other, other.key # item.key, Holds(rows, other) PROVE Holds(rows', other)
    <2>1. PICK i \in Id : /\ rows[i] # Nothing
                          /\ rows[i] = [key |-> other.key, value |-> other.value, live |-> TRUE]
                          /\ \A x \in Id \ {i} : rows[x] = Nothing \/ rows[x].key # other.key
      BY <1>11 DEF Holds
    <2>3. i # item.id /\ rows'[i] = rows[i]
      BY <1>4, <1>8, <2>1
    <2>4. \A x \in Id \ {i} : rows'[x] = Nothing \/ rows'[x].key # other.key
      BY <1>8, <1>9, <1>11, <2>1
    <2> QED
      BY <2>1, <2>3, <2>4 DEF Holds
  <1>12. Converging(registry[p], AfterItem(p), rows')
    BY <1>1, <1>10, <1>11, AfterItemConverges DEF item
  <1> QED
    BY <1>3, <1>12

LEMMA UpdateConverges ==
    ASSUME IInv, AloneInv, NEW p \in Process, OnItsOwn(p), Converging(registry[p], run[p], rows),
           SyncUpdate(p)
    PROVE  Converging(registry[p], run'[p], rows')
  <1> DEFINE item == Item(p)
             new == [i \in Targets(p) |-> [rows[i] EXCEPT !.value = item.value, !.live = TRUE]]
  <1>1. RunInv /\ DatabaseInv(rows, undo) /\ run[p].pc = "update" /\ run = [q \in Process |-> run[q]]
    BY DEF IInv, RunInv, SyncUpdate
  <1>2. item \in [id : Id, key : Key, value : Value] /\ item = run[p].current.items[run[p].item]
    BY <1>1, ItemTypes DEF Item
  <1>3. /\ Write(p, new) /\ run'[p] = AfterItem(p)
    BY <1>1 DEF SyncUpdate, ChangeRun
  <1>4. PICK i \in Id : /\ rows[i] # Nothing
                        /\ rows[i].key = item.key
                        /\ \A other \in Id \ {i} : rows[other] = Nothing \/ rows[other].key # item.key
    BY <1>1, <1>2 DEF Converging
  <1>5. Targets(p) = {i}
    <2>1. \A j : Visible(p, j) = rows[j]
      BY SeesTheTable DEF OnItsOwn
    <2> QED
      BY <1>4, <2>1 DEF Targets
  <1> DEFINE row == [key |-> item.key, value |-> item.value, live |-> TRUE]
  <1>6. DOMAIN new = {i} /\ new[i] = [rows[i] EXCEPT !.value = item.value, !.live = TRUE]
    BY <1>5
  <1> HIDE DEF new
  <1>7. rows[i] \in Row
    BY <1>1, <1>4 DEF DatabaseInv
  <1>8. new[i] = row /\ row.key = item.key /\ row # Nothing
    <2>1. item.key \in Key /\ item.value \in Value
      BY <1>2
    <2> HIDE DEF item
    <2>2. row \in [key : Key, value : Value, live : BOOLEAN]
      BY <2>1
    <2>3. new[i] = row
      BY <1>4, <1>6, <1>7 DEF Row
    <2> QED
      BY <2>2, <2>3, NothingAssumption
  <1> HIDE DEF row, item
  <1>d. DOMAIN new \subseteq Id
    BY <1>6
  <1>9. rows' = [j \in Id |-> IF j \in DOMAIN new THEN new[j] ELSE rows[j]]
    BY <1>1, <1>3, <1>d, WriteFields
  <1>10. rows'[i] = row /\ \A j \in Id \ {i} : rows'[j] = rows[j]
    BY <1>6, <1>8, <1>9
  <1>11. Holds(rows', item)
    BY <1>4, <1>8, <1>10 DEF Holds, row
  <1>12. ASSUME NEW other, other.key # item.key, Holds(rows, other) PROVE Holds(rows', other)
    <2>1. PICK j \in Id : /\ rows[j] # Nothing
                          /\ rows[j] = [key |-> other.key, value |-> other.value, live |-> TRUE]
                          /\ \A x \in Id \ {j} : rows[x] = Nothing \/ rows[x].key # other.key
      BY <1>12 DEF Holds
    <2>2. rows[j].key = other.key
      BY <2>1
    <2>3. j # i /\ rows'[j] = rows[j]
      BY <1>4, <1>10, <1>12, <2>2
    <2>4. \A x \in Id \ {j} : rows'[x] = Nothing \/ rows'[x].key # other.key
      BY <1>8, <1>10, <1>12, <2>1
    <2> QED
      BY <2>1, <2>3, <2>4 DEF Holds
  <1>13. Converging(registry[p], AfterItem(p), rows')
    BY <1>1, <1>11, <1>12, AfterItemConverges DEF item
  <1> QED
    BY <1>3, <1>13

LEMMA ReturnConverges ==
    ASSUME NEW reg, GoodRegistry(reg), NEW r, GoodRun(r), NEW R, Converging(reg, r, R),
           r.pc = "return"
    PROVE  Converging(reg, [r EXCEPT !.pc = "next", !.done = Append(@, r.current.name),
                                     !.current = NoSeeder, !.item = 0], R)
  <1> DEFINE new == [r EXCEPT !.pc = "next", !.done = Append(@, r.current.name),
                              !.current = NoSeeder, !.item = 0]
             name == r.current.name
             items == r.current.items
  <1>1. /\ new.pc = "next" /\ new.done = Append(r.done, name) /\ new.current = NoSeeder
        /\ new.todo = r.todo
    BY DEF GoodRun, RunState
  <1>2. r.done \in Seq(DOMAIN reg.seeders) /\ r.current \in Seeders(reg) /\ Synced(r) = Len(items)
    BY DEF Converging, Synced
  <1>3. name \in DOMAIN reg.seeders /\ reg.seeders[name].items = items /\ items \in Items
    BY <1>2, SeederOf
  <1>4. SyncedHold(ItemsOf(reg, r.done), items, Len(items), R)
    BY <1>2 DEF Converging
  <1> HIDE DEF new, name, items
  <1>5. /\ ItemsOf(reg, r.done) \in Items
        /\ ItemsOf(reg, Append(r.done, name)) = ItemsOf(reg, r.done) \o items
    BY <1>2, <1>3, ItemsOfMore
  <1>6. SyncedHold(ItemsOf(reg, new.done), new.current.items, 0, R)
    BY <1>1, <1>3, <1>4, <1>5, AllHold
  <1>7. Synced(new) = 0 /\ new.done \in Seq(DOMAIN reg.seeders)
    <2> DEFINE names == DOMAIN reg.seeders
               done == r.done
    <2>1. done \in Seq(names) /\ name \in names
      BY <1>2, <1>3
    <2> HIDE DEF names, done
    <2>2. Append(done, name) \in Seq(names)
      BY <2>1
    <2> QED
      BY <1>1, <2>2 DEF Synced, names, done
  <1>8. \A j \in 1..Len(new.todo) : new.todo[j] \in Seeders(reg)
    BY <1>1 DEF Converging
  <1>9. Converging(reg, new, R)
    BY <1>1, <1>6, <1>7, <1>8 DEF Converging
  <1> QED
    BY <1>9 DEF new, name

LEMMA EndConverges ==
    ASSUME NEW reg, NEW r, GoodRun(r), NEW R, Converging(reg, r, R), r.pc = "next"
    PROVE  Converging(reg, [r EXCEPT !.pc = "ok"], R)
  <1> DEFINE new == [r EXCEPT !.pc = "ok"]
  <1>1. /\ new.pc = "ok" /\ new.done = r.done /\ new.current = r.current /\ new.todo = r.todo
    BY DEF GoodRun, RunState
  <1> HIDE DEF new
  <1>2. Synced(new) = Synced(r)
    BY <1>1 DEF Synced
  <1>3. Converging(reg, new, R)
    BY <1>1, <1>2 DEF Converging
  <1> QED
    BY <1>3 DEF new

\* A step of a run that nothing disturbs.
LEMMA StepConverges ==
    ASSUME IInv, AloneInv, NEW p \in Process, OnItsOwn(p), Converging(registry[p], run[p], rows),
           Step(p) \/ SeederFails(p)
    PROVE  run'[p].pc # "failed" => Converging(registry[p], run'[p], rows')
  <1>1. /\ RunInv /\ GoodRun(run[p]) /\ run[p] \in RunState /\ run = [q \in Process |-> run[q]]
        /\ GoodRegistry(registry[p]) /\ DatabaseInv(rows, undo)
    BY RunFields DEF IInv, RunInv, RegistryInv
  <1>2. CASE NextSeeder(p)
    <2> DEFINE new == [run[p] EXCEPT !.pc = IF Head(run[p].todo).items = <<>> THEN "return" ELSE "find",
                                     !.item = 1, !.current = Head(run[p].todo), !.todo = Tail(@)]
    <2>1. run[p].pc = "next" /\ run[p].todo # <<>> /\ run'[p] = new /\ rows' = rows
      BY <1>1, <1>2 DEF NextSeeder, ChangeRun, dbVars
    <2>2. Converging(registry[p], new, rows)
      BY <1>1, <2>1, NextSeederConverges
    <2> HIDE DEF new
    <2> QED
      BY <2>1, <2>2
  <1>3. CASE SyncFind(p)
    BY <1>3, FindConverges
  <1>4. CASE SyncCreate(p)
    BY <1>4, CreateConverges
  <1>5. CASE SyncUpdate(p)
    BY <1>5, UpdateConverges
  <1>6. CASE SeederReturns(p)
    <2> DEFINE new == [run[p] EXCEPT !.pc = "next", !.done = Append(@, run[p].current.name),
                                     !.current = NoSeeder, !.item = 0]
    <2>1. run[p].pc = "return" /\ run'[p] = new /\ rows' = rows
      BY <1>1, <1>6, CommitFields DEF SeederReturns, ChangeRun, dbVars
    <2>2. Converging(registry[p], new, rows)
      BY <1>1, <2>1, ReturnConverges
    <2> HIDE DEF new
    <2> QED
      BY <2>1, <2>2
  <1>7. CASE RunEnds(p)
    <2> DEFINE new == [run[p] EXCEPT !.pc = "ok"]
    <2>1. run[p].pc = "next" /\ run'[p] = new /\ rows' = rows
      BY <1>1, <1>7, CommitFields DEF RunEnds, ChangeRun
    <2>2. Converging(registry[p], new, rows)
      BY <1>1, <2>1, EndConverges
    <2> HIDE DEF new
    <2> QED
      BY <2>1, <2>2
  <1>8. CASE Fail(p)
    BY <1>1, <1>8 DEF Fail, ChangeRun, RunState
  <1> QED
    BY <1>2, <1>3, <1>4, <1>5, <1>6, <1>7, <1>8
       DEF Step, SyncConflict, DuplicateKey, DeadlockDetected, SeederFails

LEMMA StepLeavesOthers ==
    ASSUME RunInv, NEW p \in Process, Step(p) \/ SeederFails(p)
    PROVE  /\ run'[p].alone = run[p].alone /\ registry' = registry /\ deletions' = deletions
           /\ \A q \in Process \ {p} : run'[q] = run[q]
  <1>1. run = [q \in Process |-> run[q]] /\ run[p] \in RunState
    BY RunFields DEF RunInv
  <1>2. /\ registry' = registry /\ deletions' = deletions
        /\ \E r : run' = [run EXCEPT ![p] = r] /\ r.alone = run[p].alone
    <2>1. CASE Fail(p)
      <3> DEFINE r == [run[p] EXCEPT !.pc = "failed", !.current = NoSeeder, !.item = 0, !.todo = <<>>]
      <3>1. r.alone = run[p].alone
        BY <1>1 DEF RunState
      <3>2. run' = [run EXCEPT ![p] = r] /\ registry' = registry /\ deletions' = deletions
        BY <2>1 DEF Fail, ChangeRun
      <3> QED
        BY <3>1, <3>2
    <2>2. CASE NextSeeder(p)
      <3> DEFINE r == [run[p] EXCEPT !.pc = IF Head(run[p].todo).items = <<>> THEN "return" ELSE "find",
                                     !.item = 1, !.current = Head(run[p].todo), !.todo = Tail(@)]
      <3>1. r.alone = run[p].alone
        BY <1>1 DEF RunState
      <3>2. run' = [run EXCEPT ![p] = r] /\ registry' = registry /\ deletions' = deletions
        BY <2>2 DEF NextSeeder, ChangeRun
      <3> QED
        BY <3>1, <3>2
    <2>3. CASE SeederReturns(p)
      <3> DEFINE r == [run[p] EXCEPT !.pc = "next", !.done = Append(@, run[p].current.name),
                                     !.current = NoSeeder, !.item = 0]
      <3>1. r.alone = run[p].alone
        BY <1>1 DEF RunState
      <3>2. run' = [run EXCEPT ![p] = r] /\ registry' = registry /\ deletions' = deletions
        BY <2>3 DEF SeederReturns, ChangeRun
      <3> QED
        BY <3>1, <3>2
    <2>4. CASE SyncFind(p) \/ SyncCreate(p) \/ SyncUpdate(p) \/ RunEnds(p)
      <3>1. /\ AfterItem(p).alone = run[p].alone
            /\ \A pc \in {"create", "update", "ok"} : [run[p] EXCEPT !.pc = pc].alone = run[p].alone
        BY <1>1 DEF AfterItem, RunState
      <3>2. \/ ChangeRun(p, AfterItem(p))
            \/ \E pc \in {"create", "update", "ok"} : ChangeRun(p, [run[p] EXCEPT !.pc = pc])
        BY <2>4 DEF SyncFind, SyncCreate, SyncUpdate, RunEnds
      <3> QED
        BY <3>1, <3>2 DEF ChangeRun
    <2> QED
      BY <2>1, <2>2, <2>3, <2>4 DEF Step, SyncConflict, DuplicateKey, DeadlockDetected, SeederFails
  <1> QED
    BY <1>1, <1>2

\* A step of a run: nobody else has one that nothing disturbs.
LEMMA StepKeepsConverging ==
    ASSUME IInv, ConvergeInv, NEW p \in Process, Step(p) \/ SeederFails(p)
    PROVE  ConvergeInv'
  <1>1. /\ AloneInv /\ RunInv /\ \A q \in Process : OnItsOwn(q) => Converging(registry[q], run[q], rows)
    BY DEF ConvergeInv, IInv
  <1>2. /\ run'[p].alone = run[p].alone /\ registry' = registry /\ deletions' = deletions
        /\ \A q \in Process \ {p} : run'[q] = run[q]
    BY <1>1, StepLeavesOthers
  <1>3. ~ Ended(p) /\ \A q \in Process \ {p} : ~ run[q].alone
    BY <1>1, StepGoesOn DEF AloneInv
  <1>4. AloneInv'
    <2>1. \A q \in Process \ {p} : Ended(q) => Ended(q)'
      BY <1>2 DEF Ended
    <2> QED
      BY <1>1, <1>2, <1>3, <2>1 DEF AloneInv
  <1>5. ASSUME NEW q \in Process, OnItsOwn(q)' PROVE Converging(registry'[q], run'[q], rows')
    <2>1. q = p
      BY <1>2, <1>3, <1>5 DEF OnItsOwn
    <2>2. run'[p].mode = run[p].mode
      <3>1. PICK r : r.mode = run[p].mode /\ run' = [run EXCEPT ![p] = r]
        BY StepGoesOn DEF GoesOn, ChangeRun
      <3> QED
        BY <1>1, <3>1 DEF RunInv
    <2>3. OnItsOwn(p) /\ run'[p].pc # "failed"
      BY <1>2, <1>3, <1>5, <2>1, <2>2 DEF OnItsOwn, Ended
    <2> QED
      BY <1>1, <1>2, <2>1, <2>3, StepConverges
  <1> QED
    BY <1>4, <1>5 DEF ConvergeInv

\* Processes that stay as they are, with their registries and the table, or are
\* disturbed or forgotten.
LEMMA ConvergingAside ==
    ASSUME ConvergeInv, UNCHANGED <<rows, deletions>>, AloneInv',
           \A q \in Process : OnItsOwn(q)' => run'[q] = run[q] /\ registry'[q] = registry[q]
    PROVE  ConvergeInv'
  BY DEF ConvergeInv, OnItsOwn

LEMMA StartedKeepsConverging ==
    ASSUME IInv, ConvergeInv, NEW p \in Process, Ended(p), NEW new, GoodRun(new), Started(p, new),
           UNCHANGED <<registry, rows, undo, unique, deletions>>,
           new.pc # "failed" /\ new.mode # "direct" =>
               \A b \in BOOLEAN : Converging(registry[p], [new EXCEPT !.alone = b], rows)
    PROVE  ConvergeInv'
  <1> DEFINE b == {q \in Others(p) : ~ Ended(q)} = {}
  <1>1. /\ run'[p] = [new EXCEPT !.alone = b] /\ b \in BOOLEAN
        /\ \A q \in Process \ {p} : run'[q] = [run[q] EXCEPT !.alone = FALSE]
    BY DEF Started
  <1>2. new \in RunState /\ \A q \in Process : run[q] \in RunState
    BY RunFields DEF IInv, GoodRun
  <1>3. b => \A q \in Process \ {p} : Ended(q)
    BY DEF Others
  <1> HIDE DEF b
  <1>4. /\ run'[p].alone = b /\ run'[p].pc = new.pc /\ run'[p].mode = new.mode
        /\ \A q \in Process \ {p} : ~ run'[q].alone /\ run'[q].pc = run[q].pc
    <2>1. run'[p].alone = b /\ run'[p].pc = new.pc /\ run'[p].mode = new.mode
      BY <1>1, <1>2 DEF RunState
    <2>2. ASSUME NEW q \in Process \ {p} PROVE ~ run'[q].alone /\ run'[q].pc = run[q].pc
      <3>1. run[q] \in RunState /\ run'[q] = [run[q] EXCEPT !.alone = FALSE]
        BY <1>1, <1>2
      <3> QED
        BY <3>1 DEF RunState
    <2> QED
      BY <2>1, <2>2
  <1>5. AloneInv'
    BY <1>3, <1>4 DEF AloneInv, Ended
  <1>6. ASSUME NEW q \in Process, OnItsOwn(q)' PROVE Converging(registry'[q], run'[q], rows')
    <2>1. q = p /\ new.pc # "failed" /\ new.mode # "direct"
      BY <1>4, <1>6 DEF OnItsOwn
    <2> QED
      BY <1>1, <2>1
  <1> QED
    BY <1>5, <1>6 DEF ConvergeInv

LEMMA NextConverges == ASSUME IInv, ConvergeInv, [Next]_vars PROVE ConvergeInv'
  <1>a. AloneInv /\ RunInv
    BY DEF ConvergeInv, IInv
  <1>1. ASSUME NEW p \in Process, NEW program \in Programs, Register(p, program) PROVE ConvergeInv'
    <2>1. /\ UNCHANGED <<run, rows, deletions>> /\ run[p].pc = "idle"
          /\ \A q \in Process \ {p} : registry'[q] = registry[q]
      BY <1>1 DEF Register, dbVars, IInv, RegistryInv
    <2>2. AloneInv'
      BY <1>a, <2>1 DEF AloneInv, Ended
    <2>3. \A q \in Process : OnItsOwn(q)' => run'[q] = run[q] /\ registry'[q] = registry[q]
      BY <2>1 DEF OnItsOwn
    <2> QED
      BY <2>1, <2>2, <2>3, ConvergingAside
  <1>2. ASSUME NEW p \in Process, Reset(p) PROVE ConvergeInv'
    <2>1. /\ UNCHANGED <<rows, deletions>> /\ run'[p] = Idle
          /\ \A q \in Process \ {p} : registry'[q] = registry[q] /\ run'[q] = run[q]
      BY <1>2, <1>a DEF Reset, dbVars, IInv, RegistryInv, RunInv
    <2>2. Idle.pc = "idle" /\ ~ Idle.alone
      BY DEF Idle
    <2>3. AloneInv'
      BY <1>a, <2>1, <2>2 DEF AloneInv, Ended
    <2>4. \A q \in Process : OnItsOwn(q)' => run'[q] = run[q] /\ registry'[q] = registry[q]
      BY <2>1, <2>2 DEF OnItsOwn
    <2> QED
      BY <2>1, <2>3, <2>4, ConvergingAside
  <1>3. ASSUME NEW p \in Process, NEW mode \in {"single", "per_seeder"}, Run(p, mode) PROVE ConvergeInv'
    <2> DEFINE order == Resolution(registry[p])
               begun == [Idle EXCEPT !.pc = "next", !.mode = mode,
                                     !.todo = [i \in DOMAIN order |-> registry[p].seeders[order[i]]]]
               failed == [Idle EXCEPT !.pc = "failed"]
               new == IF Resolvable(registry[p]) THEN begun ELSE failed
    <2>1. /\ Ended(p) /\ Started(p, new)
          /\ UNCHANGED <<registry, rows, undo, unique, deletions>>
      BY <1>3 DEF Run, dbVars
    <2>2. GoodRegistry(registry[p]) /\ mode \in Mode
      BY DEF IInv, RegistryInv, Mode
    <2>3. GoodRun(new)
      BY <2>2, ResolvedRunIsGood, FailedIsGood
    <2>4. \A b \in BOOLEAN : Converging(registry[p], [begun EXCEPT !.alone = b], rows)
      BY <2>2, BeginConverging
    <2>5. failed.pc = "failed"
      BY DEF Idle
    <2> HIDE DEF begun, failed
    <2>6. new.pc # "failed" => new = begun
      BY <2>5
    <2> HIDE DEF new
    <2>7. new.pc # "failed" /\ new.mode # "direct" =>
              \A b \in BOOLEAN : Converging(registry[p], [new EXCEPT !.alone = b], rows)
      BY <2>4, <2>6
    <2> QED
      BY <2>1, <2>3, <2>7, StartedKeepsConverging
  <1>4. ASSUME NEW p \in Process, NEW program \in Programs, SyncDirectly(p, Head(program)) PROVE ConvergeInv'
    <2> DEFINE seeder == Head(program)
               new == [Idle EXCEPT !.pc = "next", !.mode = "direct", !.todo = <<[seeder EXCEPT !.deps = {}]>>]
    <2>1. /\ Ended(p) /\ Started(p, new)
          /\ UNCHANGED <<registry, rows, undo, unique, deletions>>
      BY <1>4 DEF SyncDirectly, dbVars
    <2>2. seeder \in Seeder
      BY ProgramsAssumption
    <2> HIDE DEF seeder
    <2>3. GoodRun(new)
      BY <2>2, DirectRunIsGood
    <2>4. new.mode = "direct"
      BY DEF Idle
    <2> HIDE DEF new
    <2> QED
      BY <2>1, <2>3, <2>4, StartedKeepsConverging
  <1>5. ASSUME NEW p \in Process, Step(p) \/ SeederFails(p) PROVE ConvergeInv'
    BY <1>5, StepKeepsConverging
  <1>6. ASSUME NEW i \in Id, SoftDelete(i) PROVE ConvergeInv'
    <2>1. \A p \in Process : run'[p] = [run[p] EXCEPT !.alone = FALSE] /\ run[p] \in RunState
      BY <1>6, <1>a DEF SoftDelete, RunInv
    <2>2. \A p \in Process : ~ run'[p].alone
      BY <2>1 DEF RunState
    <2> QED
      BY <2>2 DEF ConvergeInv, AloneInv, OnItsOwn
  <1>7. CASE UNCHANGED vars
    <2>1. UNCHANGED <<registry, run, rows, deletions>>
      BY <1>7 DEF vars, dbVars
    <2>2. AloneInv'
      BY <1>a, <2>1 DEF AloneInv, Ended
    <2> QED
      BY <2>1, <2>2, ConvergingAside
  <1> QED
    BY <1>1, <1>2, <1>3, <1>4, <1>5, <1>6, <1>7 DEF Next

LEMMA InitConverges == Init => ConvergeInv
  BY IdleTypes DEF Init, ConvergeInv, AloneInv, OnItsOwn, Idle

\* A run that succeeds, and that nothing disturbed, leaves for every key one live
\* record with the value of the last item for that key, whatever was in the table.
THEOREM SuccessfulRunsConverge == Spec => []SuccessfulRunConverges
  <1>1. ASSUME IInv, ConvergeInv, NEW p \in Process, run[p].pc = "ok", run[p].mode # "direct",
               run[p].alone, deletions = 0,
               NEW j \in DOMAIN ItemsOf(registry[p], run[p].done),
               \A h \in DOMAIN ItemsOf(registry[p], run[p].done) :
                   ItemsOf(registry[p], run[p].done)[h].key = ItemsOf(registry[p], run[p].done)[j].key
                       => h <= j
        PROVE  \E i \in Id :
                   /\ Committed(i) = [key |-> ItemsOf(registry[p], run[p].done)[j].key,
                                      value |-> ItemsOf(registry[p], run[p].done)[j].value,
                                      live |-> TRUE]
                   /\ \A other \in Id \ {i} :
                          \/ Committed(other) = Nothing
                          \/ Committed(other).key # ItemsOf(registry[p], run[p].done)[j].key
    <2> DEFINE items == ItemsOf(registry[p], run[p].done)
    <2>1. GoodRegistry(registry[p]) /\ Converging(registry[p], run[p], rows)
      BY <1>1 DEF ConvergeInv, OnItsOwn, IInv, RegistryInv
    <2>2. items \in Items
      <3>1. \E g \in [0..Len(run[p].done) -> Items] : items = g[Len(run[p].done)]
        BY <2>1, ItemsAlong DEF Converging
      <3>2. Len(run[p].done) \in 0..Len(run[p].done)
        BY <2>1 DEF Converging
      <3> QED
        BY <3>1, <3>2
    <2>3. DOMAIN items = 1..Len(items)
      BY <2>2 DEF Items
    <2>4. SyncedHold(items, run[p].current.items, 0, rows)
      BY <1>1, <2>1 DEF Converging, Synced
    <2>5. IsLast(items, Len(items), j)
      BY <1>1, <2>3 DEF IsLast
    <2>6. Holds(rows, items[j])
      <3>1. j \in 1..Len(items) /\ 1..0 = {}
        BY <2>3
      <3> HIDE DEF items
      <3> QED
        BY <2>4, <2>5, <3>1 DEF SyncedHold
    <2>7. \A i \in Id : Committed(i) = rows[i]
      <3>1. \A q \in Process \ {p} : DOMAIN undo[q] = {}
        BY <1>1, SeesTheTable DEF ConvergeInv
      <3>2. DOMAIN undo[p] = {}
        BY <1>1 DEF IInv, NothingToUndo, NoTransaction
      <3> QED
        BY <3>1, <3>2, CommittedRows
    <2> QED
      BY <2>6, <2>7 DEF Holds
  <1>2. ASSUME IInv, ConvergeInv PROVE SuccessfulRunConverges
    BY <1>1, <1>2 DEF SuccessfulRunConverges
  <1>3. IInv /\ ConvergeInv /\ [Next]_vars => ConvergeInv'
    BY NextConverges
  <1> QED
    BY <1>2, <1>3, Invariance, InitConverges, PTL DEF Spec
=============================================================================

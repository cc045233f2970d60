-------------------------- MODULE Translation_proofs --------------------------
(***************************************************************************)
(* What holds of translate and its caches for any users, managers and      *)
(* requests, any number of backends and attempts, and any post-processor.  *)
(***************************************************************************)
EXTENDS Translation, TLAPS

\* Entries are functions on a set of requests to results.
LEMMA EntriesAre ==
  ASSUME NEW f
  PROVE  f \in Entries <=> \E R \in SUBSET Requests : f \in [R -> AllResults]
  BY DEF Entries

LEMMA NoEntriesAre == NoEntries \in Entries
<1>1. NoEntries \in [{} -> AllResults]
  BY DEF NoEntries
<1> QED
  BY <1>1, EntriesAre

\* One more entry.
LEMMA EntryAdded ==
  ASSUME NEW f \in Entries, NEW r \in Requests, NEW t \in AllResults
  PROVE  With(f, r, t) \in Entries
<1>1. PICK R \in SUBSET Requests : f \in [R -> AllResults]
  BY EntriesAre
<1>2. With(f, r, t) \in [R \cup {r} -> AllResults]
  BY <1>1 DEF With
<1> QED
  BY <1>2, EntriesAre

\* A backend's answer, processed or not, is a result of the request.
LEMMA FinalType ==
  ASSUME NEW r \in Requests, NEW raw \in Says[r]
  PROVE  Final(r, raw) \in Results(r) /\ Results(r) \subseteq AllResults
  BY DEF Final, Results, AllResults

-----------------------------------------------------------------------------
LEMMA InitType == Init => TypeOK
  BY TranslationAssumption, NoEntriesAre DEF Init, TypeOK, None

LEMMA ForgetType ==
  ASSUME TypeOK, NEW users \in SUBSET Users, Forget(users)
  PROVE  /\ pc' \in [Users -> {"idle", "try", "store", "write", "answered", "failed"}]
         /\ answer' \in [Users -> AllResults \cup {<<>>}]
         /\ backend' \in [Users -> Nat] /\ attempt' \in [Users -> 0 .. MaxAttempts - 1]
         /\ failures' \in [Users -> [1 .. Backends -> Nat]]
  BY TranslationAssumption DEF Forget, TypeOK, None

\* One more failure of a backend.
LEMMA OneMore ==
  ASSUME NEW f \in [1 .. Backends -> Nat], NEW b
  PROVE  [f EXCEPT ![b] = @ + 1] \in [1 .. Backends -> Nat]
<1>1. \A c \in 1 .. Backends : [f EXCEPT ![b] = @ + 1][c] \in Nat
  OBVIOUS
<1> QED
  BY <1>1

\* The entry made by a call that is to be stored.
LEMMA EnteredType ==
  ASSUME TypeOK, NEW u \in Users, answer[u] \in AllResults
  PROVE  Entered(u) \in [Managers -> Entries]
<1>1. With(memory[manager[u]], request[u], answer[u]) \in Entries
  BY EntryAdded DEF TypeOK
<1> QED
  BY <1>1 DEF Entered, TypeOK

\* A call that stores has been given a text.
Given == \A u \in Users : pc[u] \in {"store", "write"} => answer[u] \in AllResults

LEMMA StepType == TypeOK /\ Given /\ [Next]_vars => TypeOK' /\ Given'
<1> SUFFICES ASSUME TypeOK, Given, [Next]_vars PROVE TypeOK' /\ Given'
  OBVIOUS
<1> USE DEF setting, call, loops
<1>1. ASSUME NEW u \in Users, NEW raw \in Says[request[u]], Translated(u, raw)
      PROVE  TypeOK' /\ Given'
  <2>1. Final(request[u], raw) \in AllResults
    BY FinalType DEF TypeOK
  <2> QED
    BY <1>1, <2>1 DEF Translated, TypeOK, Given
<1>2. ASSUME NEW u \in Users, Fails(u) PROVE TypeOK' /\ Given'
  <2>1. /\ attempt[u] \in 0 .. MaxAttempts - 1 /\ 0 \in 0 .. MaxAttempts - 1
        /\ attempt[u] + 1 < MaxAttempts => attempt[u] + 1 \in 0 .. MaxAttempts - 1
    BY TranslationAssumption DEF TypeOK
  <2>2. backend[u] \in Nat /\ backend[u] + 1 \in Nat
    BY DEF TypeOK
  <2>3. /\ attempt' \in [Users -> 0 .. MaxAttempts - 1] /\ backend' \in [Users -> Nat]
        /\ pc' \in [Users -> {"idle", "try", "store", "write", "answered", "failed"}]
        /\ \A v \in Users : pc'[v] \in {"store", "write"} => pc'[v] = pc[v]
    <3>1. CASE attempt[u] + 1 < MaxAttempts
      <4>1. /\ attempt' = [attempt EXCEPT ![u] = attempt[u] + 1]
            /\ backend' = backend /\ pc' = pc
        BY <1>2, <3>1 DEF Fails, Advance
      <4>2. attempt' \in [Users -> 0 .. MaxAttempts - 1]
        BY <2>1, <3>1, <4>1 DEF TypeOK
      <4> QED
        BY <4>1, <4>2 DEF TypeOK
    <3>2. CASE ~ (attempt[u] + 1 < MaxAttempts) /\ backend[u] < Backends
      <4>1. /\ backend' = [backend EXCEPT ![u] = backend[u] + 1]
            /\ attempt' = [attempt EXCEPT ![u] = 0] /\ pc' = pc
        BY <1>2, <3>2 DEF Fails, Advance
      <4>2. backend' \in [Users -> Nat]
        BY <2>2, <4>1 DEF TypeOK
      <4>3. attempt' \in [Users -> 0 .. MaxAttempts - 1]
        BY <2>1, <4>1 DEF TypeOK
      <4> QED
        BY <4>1, <4>2, <4>3 DEF TypeOK
    <3>3. CASE ~ (attempt[u] + 1 < MaxAttempts) /\ ~ (backend[u] < Backends)
      BY <1>2, <3>3 DEF Fails, Advance, TypeOK
    <3> QED
      BY <3>1, <3>2, <3>3
  <2>4. failures[u] \in [1 .. Backends -> Nat]
    BY DEF TypeOK
  <2>5. [failures[u] EXCEPT ![backend[u]] = @ + 1] \in [1 .. Backends -> Nat]
    BY <2>4, OneMore
  <2>6. failures' \in [Users -> [1 .. Backends -> Nat]]
    BY <1>2, <2>5 DEF Fails, TypeOK
  <2> QED
    BY <1>2, <2>3, <2>6 DEF Fails, TypeOK, Given
<1>3. ASSUME NEW u \in Users, Store(u) PROVE TypeOK' /\ Given'
  <2>1. Entered(u) \in [Managers -> Entries]
    BY <1>3, EnteredType DEF Store, Given
  <2>2. Overlap(u) \in [Users -> SUBSET Managers]
    BY DEF Overlap, Writers, TypeOK
  <2> QED
    BY <1>3, <2>1, <2>2, NoEntriesAre DEF Store, TypeOK, Given
<1>4. ASSUME NEW u \in Users, OpenFails(u) PROVE TypeOK' /\ Given'
  <2>1. Entered(u) \in [Managers -> Entries]
    BY <1>4, EnteredType DEF OpenFails, Given
  <2> QED
    BY <1>4, <2>1 DEF OpenFails, TypeOK, Given
<1>5. ASSUME NEW u \in Users, Write(u) PROVE TypeOK' /\ Given'
  <2>1. file' \in Entries /\ saved' \subseteq Managers
    BY <1>5, NoEntriesAre DEF Write, TypeOK
  <2> QED
    BY <1>5, <2>1 DEF Write, TypeOK, Given
<1>6. ASSUME NEW u \in Users, WriteFails(u) PROVE TypeOK' /\ Given'
  BY <1>6, NoEntriesAre DEF WriteFails, TypeOK, Given
<1>7. ASSUME NEW u \in Users, Return(u) PROVE TypeOK' /\ Given'
  <2>1. {u} \in SUBSET Users /\ Forget({u})
    BY <1>7 DEF Return
  <2>2. Given'
    BY <1>7, <2>1 DEF Forget, TypeOK, Given
  <2>3. TypeOK'
    BY <1>7, <2>1, ForgetType DEF Return, TypeOK
  <2> QED
    BY <2>2, <2>3
<1>8. ASSUME NEW u \in Users, NEW r \in Requests, Hit(u, r) PROVE TypeOK' /\ Given'
  <2>1. memory[manager[u]][r] \in AllResults
    BY <1>8, EntriesAre DEF Hit, TypeOK
  <2> QED
    BY <1>8, <2>1 DEF Hit, Begin, TypeOK, Given
<1>9. ASSUME NEW u \in Users, NEW r \in Requests, Miss(u, r) PROVE TypeOK' /\ Given'
  BY <1>9 DEF Miss, Begin, TypeOK, Given
<1>10. ASSUME NEW m \in Managers, Rebuild(m) PROVE TypeOK' /\ Given'
  BY <1>10, NoEntriesAre DEF Rebuild, Loaded, TypeOK, Given
<1>11. ASSUME Crash PROVE TypeOK' /\ Given'
  BY <1>11, ForgetType, NoEntriesAre DEF Crash, Forget, Loaded, TypeOK, Given
<1>12. ASSUME UNCHANGED vars PROVE TypeOK' /\ Given'
  BY <1>12 DEF vars, TypeOK, Given
<1> QED
  BY <1>1, <1>2, <1>3, <1>4, <1>5, <1>6, <1>7, <1>8, <1>9, <1>10, <1>11, <1>12
  DEF Next, Step

\* The variables always hold what translate and the caches keep in them.
THEOREM TranslationTypes == Spec => []TypeOK
<1>1. Init => Given
  BY DEF Init, Given
<1> QED
  BY <1>1, InitType, StepType, PTL DEF Spec


-----------------------------------------------------------------------------
(* The order of the backends.                                              *)

\* Where the loops of a call stand: nothing has failed before it begins, and while it
\* tries, no backend has failed that it has not reached.
Stands(u) ==
  /\ pc[u] = "idle" => backend[u] = 1 /\ attempt[u] = 0 /\ failures[u] = None
  /\ pc[u] = "try" =>
       /\ backend[u] \in 1 .. Backends
       /\ \A b \in 1 .. Backends :
            failures[u][b] = IF b < backend[u] THEN MaxAttempts
                             ELSE IF b = backend[u] THEN attempt[u] ELSE 0
  /\ pc[u] = "failed" => \A b \in 1 .. Backends : failures[u][b] = MaxAttempts

LoopsStand == \A u \in Users : Stands(u)

\* It depends on the call's own variables only.
LEMMA StandsAlone ==
  ASSUME NEW u \in Users, Stands(u), pc'[u] = pc[u], backend'[u] = backend[u],
         attempt'[u] = attempt[u], failures'[u] = failures[u]
  PROVE  Stands(u)'
<1>1. pc'[u] = "idle" => backend'[u] = 1 /\ attempt'[u] = 0 /\ failures'[u] = None
  BY DEF Stands
<1>2. ASSUME pc'[u] = "try"
      PROVE  /\ backend'[u] \in 1 .. Backends
             /\ \A b \in 1 .. Backends :
                  failures'[u][b] = IF b < backend'[u] THEN MaxAttempts
                                    ELSE IF b = backend'[u] THEN attempt'[u] ELSE 0
  BY <1>2 DEF Stands
<1>3. pc'[u] = "failed" => \A b \in 1 .. Backends : failures'[u][b] = MaxAttempts
  BY DEF Stands
<1> QED
  BY <1>1, <1>2, <1>3 DEF Stands, None

\* A failed attempt leaves the loops where they should be.
LEMMA FailsStands ==
  ASSUME TypeOK, LoopsStand, NEW u \in Users, Fails(u) PROVE LoopsStand'
<1> DEFINE Counted(b) == IF b = backend[u] THEN attempt[u] + 1
                         ELSE IF b < backend[u] THEN MaxAttempts ELSE 0
<1>1. /\ Backends \in Nat /\ MaxAttempts \in Nat /\ MaxAttempts >= 1
      /\ backend[u] \in 1 .. Backends
      /\ attempt[u] \in Nat /\ attempt[u] + 1 <= MaxAttempts
  BY TranslationAssumption DEF TypeOK, LoopsStand, Stands, Fails
<1>2. \A b \in 1 .. Backends : failures'[u][b] = Counted(b)
  <2>1. failures[u] \in [1 .. Backends -> Nat]
    BY DEF TypeOK
  <2>2. failures'[u] = [failures[u] EXCEPT ![backend[u]] = @ + 1]
    BY DEF Fails, TypeOK
  <2>3. \A b \in 1 .. Backends :
          failures[u][b] = IF b < backend[u] THEN MaxAttempts
                           ELSE IF b = backend[u] THEN attempt[u] ELSE 0
    BY DEF LoopsStand, Stands, Fails
  <2> QED
    BY <1>1, <2>1, <2>2, <2>3
<1>3. \A v \in Users \ {u} :
        /\ pc'[v] = pc[v] /\ backend'[v] = backend[v]
        /\ attempt'[v] = attempt[v] /\ failures'[v] = failures[v]
  BY DEF Fails, Advance, TypeOK
<1>4. Stands(u)'
  <2>1. CASE attempt[u] + 1 < MaxAttempts
    <3>1. pc'[u] = "try" /\ backend'[u] = backend[u] /\ attempt'[u] = attempt[u] + 1
      BY <2>1 DEF Fails, Advance, TypeOK
    <3> QED
      BY <1>1, <1>2, <3>1 DEF Stands
  <2>2. CASE ~ (attempt[u] + 1 < MaxAttempts) /\ backend[u] < Backends
    <3>1. pc'[u] = "try" /\ backend'[u] = backend[u] + 1 /\ attempt'[u] = 0
      BY <2>2 DEF Fails, Advance, TypeOK
    <3> QED
      BY <1>1, <1>2, <2>2, <3>1 DEF Stands
  <2>3. CASE ~ (attempt[u] + 1 < MaxAttempts) /\ ~ (backend[u] < Backends)
    <3>1. pc'[u] = "failed"
      BY <2>3 DEF Fails, Advance, TypeOK
    <3> QED
      BY <1>1, <1>2, <2>3, <3>1 DEF Stands
  <2> QED
    BY <2>1, <2>2, <2>3
<1>5. \A v \in Users \ {u} : Stands(v)'
  BY <1>3, StandsAlone DEF LoopsStand
<1> QED
  BY <1>4, <1>5 DEF LoopsStand

LEMMA StepStands == TypeOK /\ LoopsStand /\ [Next]_vars => LoopsStand'
<1> SUFFICES ASSUME TypeOK, LoopsStand, [Next]_vars PROVE LoopsStand'
  OBVIOUS
<1> USE DEF setting, call, loops
<1>1. ASSUME NEW u \in Users, Forget({u}), pc[u] # "idle" PROVE LoopsStand'
  BY <1>1 DEF Forget, TypeOK, LoopsStand, Stands, None
<1>2. ASSUME NEW u \in Users, NEW to \in {"store", "write", "answered"},
             UNCHANGED loops, pc' = [pc EXCEPT ![u] = to]
      PROVE  LoopsStand'
  BY <1>2 DEF TypeOK, LoopsStand, Stands, None
<1>3. ASSUME NEW u \in Users, NEW r \in Requests, Miss(u, r) PROVE LoopsStand'
  <2>1. UNCHANGED loops /\ pc[u] = "idle"
        /\ pc' = [pc EXCEPT ![u] = IF Backends = 0 THEN "failed" ELSE "try"]
    BY <1>3 DEF Miss, Begin
  <2>2. backend[u] = 1 /\ attempt[u] = 0 /\ failures[u] = None
    BY <2>1 DEF LoopsStand, Stands
  <2> QED
    BY <2>1, <2>2, TranslationAssumption DEF TypeOK, LoopsStand, Stands, None
<1>4. ASSUME Crash PROVE LoopsStand'
  BY <1>4 DEF Crash, Forget, LoopsStand, Stands, None
<1>5. ASSUME UNCHANGED <<pc, loops>> PROVE LoopsStand'
  <2>1. /\ pc' = pc /\ backend' = backend /\ attempt' = attempt /\ failures' = failures
    BY <1>5
  <2> QED
    BY <2>1, StandsAlone DEF LoopsStand
<1>6. ASSUME NEW u \in Users, Step(u) PROVE LoopsStand'
  <2>1. CASE Fails(u)
    BY <2>1, FailsStands
  <2>2. CASE Return(u)
    BY <2>2, <1>1 DEF Return
  <2>3. CASE ~ Fails(u) /\ ~ Return(u)
    <3>1. \E to \in {"store", "write", "answered"} :
            UNCHANGED loops /\ pc' = [pc EXCEPT ![u] = to]
      BY <1>6, <2>3 DEF Step, Translated, Store, OpenFails, Write, WriteFails
    <3> QED
      BY <1>2, <3>1
  <2> QED
    BY <2>1, <2>2, <2>3
<1>7. ASSUME NEW u \in Users, NEW r \in Requests, Hit(u, r) PROVE LoopsStand'
  BY <1>7, <1>2 DEF Hit, Begin
<1> QED
  BY <1>3, <1>4, <1>5, <1>6, <1>7 DEF Next, Rebuild, vars

\* translate raises only when every backend has failed MaxAttempts times, and takes
\* the backends in their order, as often as configured.
THEOREM TranslationFallsBack == Spec => []FallsBackInOrder
<1>1. Init => TypeOK /\ LoopsStand /\ Given
  BY InitType DEF Init, LoopsStand, Stands, None, Given
<1>2. TypeOK /\ LoopsStand => FallsBackInOrder
  BY TranslationAssumption DEF TypeOK, LoopsStand, Stands, FallsBackInOrder
<1> QED
  BY <1>1, <1>2, StepType, StepStands, PTL DEF Spec


-----------------------------------------------------------------------------
(* The file.                                                               *)

\* A lock has one holder; nobody saves while the cache is disabled, and a call that
\* does not save overlaps nothing; the saves that overlap belong to other managers.
LocksHeld ==
  /\ \A u, v \in Writers : manager[u] = manager[v] => u = v
  /\ ~ config.cache => saved = {} /\ \A u \in Users : pc[u] \notin {"store", "write"}
  /\ \A u \in Users : manager[u] \notin clash[u]

FileInv == TypeOK /\ Given /\ LocksHeld /\ WholeFile

\* A save that begins holds its lock alone.
LEMMA StoreLocks ==
  ASSUME FileInv, NEW u \in Users, Store(u) PROVE LocksHeld' /\ WholeFile'
<1>1. Writers' = Writers \cup {u} /\ u \notin Writers
  BY DEF FileInv, TypeOK, Store, Writers
<1>2. \A w \in Writers : manager[w] # manager[u]
  BY DEF Store, Locked
<1>3. \A v \in Users : manager[v] \notin clash'[v]
  <2>1. clash' = Overlap(u)
    BY DEF Store
  <2>2. manager[u] \notin clash'[u]
    BY <1>2, <2>1 DEF Overlap
  <2>3. \A w \in Users \ {u} : manager[w] \notin clash'[w]
    BY <1>2, <2>1 DEF Overlap, FileInv, LocksHeld
  <2> QED
    BY <2>2, <2>3
<1>4. config.cache /\ UNCHANGED <<config, manager, saved>>
  BY DEF FileInv, LocksHeld, Store, setting
<1> QED
  BY <1>1, <1>2, <1>3, <1>4 DEF FileInv, LocksHeld, WholeFile

LEMMA StepLocks == FileInv /\ [Next]_vars => LocksHeld' /\ WholeFile'
<1> SUFFICES ASSUME FileInv, [Next]_vars PROVE LocksHeld' /\ WholeFile'
  OBVIOUS
<1> USE DEF setting, call, FileInv
\* A save that ends releases its lock.
<1>1. ASSUME NEW u \in Users, pc[u] = "write", pc' = [pc EXCEPT ![u] = "answered"],
             clash' = [clash EXCEPT ![u] = {}], UNCHANGED setting, saved' \subseteq Managers,
             \A m \in saved' : file' = memory'[m]
      PROVE  LocksHeld' /\ WholeFile'
  <2>1. Writers' \subseteq Writers
    BY <1>1 DEF TypeOK, Writers
  <2>2. config.cache
    BY <1>1 DEF LocksHeld
  <2> QED
    BY <1>1, <2>1, <2>2 DEF TypeOK, LocksHeld, WholeFile
<1>2. ASSUME NEW u \in Users, Write(u) PROVE LocksHeld' /\ WholeFile'
  <2>1. saved' \subseteq Managers /\ \A m \in saved' : file' = memory'[m]
    <3>1. CASE clash[u] = {}
      <4>1. file' = memory[manager[u]] /\ saved' = {manager[u]} /\ memory' = memory
        BY <1>2, <3>1 DEF Write
      <4> QED
        BY <4>1 DEF TypeOK
    <3>2. CASE clash[u] # {}
      BY <1>2, <3>2 DEF Write, LocksHeld
    <3> QED
      BY <3>1, <3>2
  <2> QED
    BY <1>1, <1>2, <2>1 DEF Write
<1>3. ASSUME NEW u \in Users, WriteFails(u) PROVE LocksHeld' /\ WholeFile'
  BY <1>1, <1>3 DEF WriteFails
\* A step that neither begins nor ends a save, of a call that does not.
<1>4. ASSUME UNCHANGED <<setting, clash>>, Writers' = Writers,
             ~ config.cache => \A u \in Users : pc'[u] \notin {"store", "write"}
      PROVE  /\ saved' = {} => LocksHeld' /\ WholeFile'
             /\ UNCHANGED <<memory, file, saved>> => LocksHeld' /\ WholeFile'
  <2>1. config' = config /\ manager' = manager /\ clash' = clash
    BY <1>4
  <2> QED
    BY <1>4, <2>1 DEF LocksHeld, WholeFile
<1>5. ASSUME NEW u \in Users, OpenFails(u) PROVE LocksHeld' /\ WholeFile'
  <2>1. Writers' = Writers
    BY <1>5 DEF OpenFails, Writers, TypeOK
  <2>2. ~ config.cache => \A v \in Users : pc'[v] \notin {"store", "write"}
    BY <1>5 DEF OpenFails, LocksHeld, TypeOK
  <2> QED
    BY <1>4, <1>5, <2>1, <2>2 DEF OpenFails
<1>6. ASSUME NEW u \in Users, NEW raw, Translated(u, raw) PROVE LocksHeld' /\ WholeFile'
  <2>1. Writers' = Writers
    BY <1>6 DEF Translated, Writers, TypeOK
  <2>2. ~ config.cache => \A v \in Users : pc'[v] \notin {"store", "write"}
    BY <1>6 DEF Translated, LocksHeld, TypeOK
  <2> QED
    BY <1>4, <1>6, <2>1, <2>2 DEF Translated
<1>7. ASSUME NEW u \in Users, Fails(u) PROVE LocksHeld' /\ WholeFile'
  <2>1. \A v \in Users : pc'[v] # pc[v] => pc[v] = "try" /\ pc'[v] = "failed"
    BY <1>7 DEF Fails, Advance, TypeOK
  <2>2. Writers' = Writers
    BY <2>1 DEF Writers
  <2>3. ~ config.cache => \A v \in Users : pc'[v] \notin {"store", "write"}
    BY <2>1 DEF LocksHeld
  <2> QED
    BY <1>4, <1>7, <2>2, <2>3 DEF Fails
<1>8. ASSUME NEW u \in Users, Return(u) PROVE LocksHeld' /\ WholeFile'
  <2>1. Writers' = Writers
    BY <1>8 DEF Return, Forget, Writers, TypeOK
  <2>2. ~ config.cache => \A v \in Users : pc'[v] \notin {"store", "write"}
    BY <1>8 DEF Return, Forget, LocksHeld
  <2> QED
    BY <1>4, <1>8, <2>1, <2>2 DEF Return
<1>9. ASSUME NEW u \in Users, NEW r \in Requests, Hit(u, r) \/ Miss(u, r)
      PROVE  LocksHeld' /\ WholeFile'
  <2>1. Writers' = Writers
    BY <1>9 DEF Hit, Miss, Begin, Writers, TypeOK
  <2>2. ~ config.cache => \A v \in Users : pc'[v] \notin {"store", "write"}
    BY <1>9 DEF Hit, Miss, Begin, LocksHeld, TypeOK
  <2> QED
    BY <1>4, <1>9, <2>1, <2>2 DEF Hit, Miss, Begin
<1>10. ASSUME NEW m \in Managers, Rebuild(m) PROVE LocksHeld' /\ WholeFile'
  <2>1. LocksHeld' /\ Writers' = Writers
    BY <1>10 DEF Rebuild, LocksHeld, Writers
  <2>2. ASSUME Writers = {}, NEW n \in saved PROVE file = memory'[n]
    <3>1. config.cache /\ n \in Managers /\ file = memory[n]
      BY <2>2 DEF LocksHeld, TypeOK, WholeFile
    <3> QED
      BY <1>10, <3>1 DEF Rebuild, Loaded, TypeOK
  <2> QED
    BY <1>10, <2>1, <2>2 DEF Rebuild, WholeFile
\* Every manager starts with what the file holds.
<1>11. ASSUME Crash PROVE LocksHeld' /\ WholeFile'
  <2>1. Writers' = {}
    BY <1>11 DEF Crash, Forget, Writers
  <2>2. saved' \subseteq saved
    BY <1>11 DEF Crash
  <2>3. LocksHeld'
    BY <1>11, <2>1, <2>2 DEF Crash, Forget, LocksHeld
  <2>4. ASSUME NEW n \in saved' PROVE file' = memory'[n]
    <3>1. config.cache /\ n \in Managers
      BY <2>2, <2>4 DEF LocksHeld, TypeOK
    <3> QED
      BY <1>11, <3>1 DEF Crash, Loaded
  <2> QED
    BY <2>3, <2>4 DEF WholeFile
<1>12. ASSUME UNCHANGED vars PROVE LocksHeld' /\ WholeFile'
  BY <1>12 DEF vars, LocksHeld, WholeFile, Writers
<1> QED
  BY <1>2, <1>3, <1>5, <1>6, <1>7, <1>8, <1>9, <1>10, <1>11, <1>12, StoreLocks
  DEF Next, Step

\* With nobody saving, the file is what the manager of the last save remembers, if
\* that save went well and overlapped no other manager's.
THEOREM TranslationFile == Spec => []WholeFile
<1>1. Init => FileInv
  BY InitType DEF Init, FileInv, Given, LocksHeld, WholeFile, Writers
<1>2. FileInv /\ [Next]_vars => FileInv'
  BY StepType, StepLocks DEF FileInv
<1>3. FileInv => WholeFile
  BY DEF FileInv
<1> QED
  BY <1>1, <1>2, <1>3, PTL DEF Spec


-----------------------------------------------------------------------------
(* What is kept of an answer.                                              *)

\* Post-processing does to what a backend may say no more than it does to phrases.
PlainAnswers ==
  \A r \in Requests : \A raw \in Says[r] : Process(raw) = Rewrite(raw)

Kept(r, text) == \E raw \in Says[r] : text \in {raw, Rewrite(raw)}
AllKept(entries) == \A r \in DOMAIN entries : Kept(r, entries[r])

KeptInv ==
  /\ \A u \in Users : pc[u] \in {"store", "write", "answered"} => Kept(request[u], answer[u])
  /\ \A m \in Managers : AllKept(memory[m])
  /\ AllKept(file)

LEMMA NoneKept == AllKept(NoEntries)
  BY DEF AllKept, NoEntries

LEMMA EnteredKept ==
  ASSUME TypeOK, KeptInv, NEW u \in Users, pc[u] = "store"
  PROVE  \A m \in Managers : AllKept(Entered(u)[m])
<1>1. AllKept(With(memory[manager[u]], request[u], answer[u]))
  BY DEF KeptInv, AllKept, With, TypeOK
<1> QED
  BY <1>1 DEF Entered, KeptInv, TypeOK

LEMMA StepKept ==
  ASSUME PlainAnswers, TypeOK, KeptInv, [Next]_vars PROVE KeptInv'
<1> USE DEF setting, call, loops
<1>1. ASSUME NEW u \in Users, NEW raw \in Says[request[u]], Translated(u, raw)
      PROVE  KeptInv'
  <2>1. Kept(request[u], Final(request[u], raw))
    BY DEF PlainAnswers, Kept, Final, TypeOK
  <2> QED
    BY <1>1, <2>1 DEF Translated, KeptInv, TypeOK
<1>2. ASSUME NEW u \in Users, Store(u) PROVE KeptInv'
  <2>1. \A m \in Managers : AllKept(memory'[m])
    BY <1>2, EnteredKept DEF Store
  <2>2. AllKept(file')
    BY <1>2, NoneKept DEF Store
  <2> QED
    BY <1>2, <2>1, <2>2 DEF Store, KeptInv, TypeOK
<1>3. ASSUME NEW u \in Users, OpenFails(u) PROVE KeptInv'
  <2>1. \A m \in Managers : AllKept(memory'[m])
    BY <1>3, EnteredKept DEF OpenFails
  <2> QED
    BY <1>3, <2>1 DEF OpenFails, KeptInv, TypeOK
<1>4. ASSUME NEW u \in Users, Write(u) \/ WriteFails(u) PROVE KeptInv'
  <2>1. AllKept(file')
    <3>1. file' = memory[manager[u]] \/ file' = NoEntries
      BY <1>4 DEF Write, WriteFails
    <3> QED
      BY <3>1, NoneKept DEF KeptInv, TypeOK
  <2> QED
    BY <1>4, <2>1 DEF Write, WriteFails, KeptInv, TypeOK
<1>5. ASSUME NEW u \in Users, Fails(u) PROVE KeptInv'
  <2>1. \A v \in Users : pc'[v] \in {"store", "write", "answered"} => pc'[v] = pc[v]
    BY <1>5 DEF Fails, Advance, TypeOK
  <2> QED
    BY <1>5, <2>1 DEF Fails, KeptInv
<1>6. ASSUME NEW u \in Users, Return(u) PROVE KeptInv'
  BY <1>6 DEF Return, Forget, KeptInv
<1>7. ASSUME NEW u \in Users, NEW r \in Requests, Hit(u, r) PROVE KeptInv'
  <2>1. Kept(r, memory[manager[u]][r])
    BY <1>7 DEF Hit, KeptInv, AllKept, TypeOK
  <2> QED
    BY <1>7, <2>1 DEF Hit, Begin, KeptInv, TypeOK
<1>8. ASSUME NEW u \in Users, NEW r \in Requests, Miss(u, r) PROVE KeptInv'
  BY <1>8 DEF Miss, Begin, KeptInv, TypeOK
<1>9. ASSUME NEW m \in Managers, Rebuild(m) PROVE KeptInv'
  <2>1. \A n \in Managers : AllKept(memory'[n])
    BY <1>9, NoneKept DEF Rebuild, Loaded, KeptInv, TypeOK
  <2> QED
    BY <1>9, <2>1 DEF Rebuild, KeptInv
<1>10. ASSUME Crash PROVE KeptInv'
  BY <1>10, NoneKept DEF Crash, Forget, Loaded, KeptInv
<1>11. ASSUME UNCHANGED vars PROVE KeptInv'
  BY <1>11 DEF vars, KeptInv
<1> QED
  BY <1>1, <1>2, <1>3, <1>4, <1>5, <1>6, <1>7, <1>8, <1>9, <1>10, <1>11 DEF Next, Step

\* Where post-processing keeps what backends say, so do the calls, the memories and the
\* file: nobody is given, for any request, a text that was not said to that request.
THEOREM TranslationKeeps ==
  ASSUME PlainAnswers PROVE Spec => []EntitiesKept
<1>1. Init => TypeOK /\ Given /\ KeptInv
  BY InitType, NoneKept DEF Init, Given, KeptInv
<1>2. TypeOK /\ Given /\ KeptInv /\ [Next]_vars => (TypeOK /\ Given /\ KeptInv)'
  BY StepType, StepKept
<1>3. KeptInv => EntitiesKept
  BY DEF KeptInv, AllKept, Kept, EntitiesKept
<1> QED
  BY <1>1, <1>2, <1>3, PTL DEF Spec
=============================================================================

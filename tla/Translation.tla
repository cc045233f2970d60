------------------------------ MODULE Translation ------------------------------
(***************************************************************************)
(* TranslationManager.translate (voicebridge/translation/manager.py) over  *)
(* TranslationCache (voicebridge/cache/manager.py).                        *)
(*                                                                         *)
(* Users are the threads that call translate.  Each belongs to a manager;  *)
(* every manager has a cache of its own, with its own memory and its own   *)
(* lock, and all caches save to the one file translations.json.  A request *)
(* is a text, a source and a different target language: translate answers  *)
(* an empty text or equal languages before it looks at anything.           *)
(*                                                                         *)
(* The file is what _load makes of it: no entries when it is absent, just  *)
(* truncated or cut short.  The lock of a cache is held by its user that   *)
(* is writing.                                                             *)
(***************************************************************************)
EXTENDS UrduPostProcessor

CONSTANTS Users, Managers, Requests, UrduRequests,
          Says,        \* Says[r]: the texts a backend may answer to r, none empty
          Backends,    \* the number of backends that are available
          MaxAttempts  \* translation.retry.max_attempts

ASSUME TranslationAssumption ==
  /\ UrduRequests \subseteq Requests
  /\ Backends \in Nat /\ MaxAttempts \in Nat \ {0}
  /\ DOMAIN Says = Requests

VARIABLES config,   \* [cache, urdu]: are the cache and the post-processor enabled
          manager,  \* the manager each user calls
          pc,       \* idle, try, store, write, answered or failed
          request,  \* what each user translates
          backend,  \* the backend it tries, counted from 1
          attempt,  \* and the attempt, counted from 0
          answer,   \* the text it was given, <<>> for none
          memory,   \* _memory_cache of each manager
          file,     \* translations.json
          clash,    \* for each user that writes, the managers whose saves overlapped
          failures, \* history: how often each backend has failed a user's call
          saved     \* history: the manager of the last save, if that went well

setting == <<config, manager>>
loops == <<backend, attempt, failures>>
call == <<request, loops>>
vars == <<config, manager, pc, request, backend, attempt, answer,
          memory, file, clash, failures, saved>>

None == [b \in 1 .. Backends |-> 0]
NoEntries == [r \in {} |-> <<>>]

\* What translate makes of a backend's answer.
Final(r, raw) ==
  IF config.urdu /\ r \in UrduRequests THEN Process(raw) ELSE raw

Writers == {u \in Users : pc[u] = "write"}
Locked(m) == \E u \in Writers : manager[u] = m

\* _load of a cache that is enabled; the memory of another stays empty.
Loaded == IF config.cache THEN file ELSE NoEntries

Init ==
  /\ config \in [cache : BOOLEAN, urdu : BOOLEAN]
  /\ manager \in [Users -> Managers]
  /\ pc = [u \in Users |-> "idle"]
  /\ request \in [Users -> Requests]
  /\ backend = [u \in Users |-> 1] /\ attempt = [u \in Users |-> 0]
  /\ answer = [u \in Users |-> <<>>]
  /\ memory = [m \in Managers |-> NoEntries] /\ file = NoEntries
  /\ clash = [u \in Users |-> {}]
  /\ failures = [u \in Users |-> None]
  /\ saved = {}

-----------------------------------------------------------------------------
(* Lookup, retries and fallback.                                           *)

\* A new call.
Begin(u, r) ==
  /\ pc[u] = "idle"
  /\ request' = [request EXCEPT ![u] = r]
  /\ UNCHANGED <<setting, loops, memory, file, clash, saved>>

\* Faulty variant of Hit: the languages are not part of the key.
HitAnyLanguage(u, r) ==
  /\ Begin(u, r)
  /\ config.cache /\ ~ Locked(manager[u])
  /\ \E k \in DOMAIN memory[manager[u]] :
       answer' = [answer EXCEPT ![u] = memory[manager[u]][k]]
  /\ pc' = [pc EXCEPT ![u] = "answered"]

Hit(u, r) ==
  /\ Begin(u, r)
  /\ config.cache /\ ~ Locked(manager[u])
  /\ r \in DOMAIN memory[manager[u]]
  /\ answer' = [answer EXCEPT ![u] = memory[manager[u]][r]]
  /\ pc' = [pc EXCEPT ![u] = "answered"]

\* With no backend the call ends as soon as the cache has no answer.
Miss(u, r) ==
  /\ Begin(u, r)
  /\ config.cache => ~ Locked(manager[u]) /\ r \notin DOMAIN memory[manager[u]]
  /\ pc' = [pc EXCEPT ![u] = IF Backends = 0 THEN "failed" ELSE "try"]
  /\ UNCHANGED answer

\* The backend answers; a text for an enabled cache is stored before it is returned.
Translated(u, raw) ==
  /\ pc[u] = "try"
  /\ answer' = [answer EXCEPT ![u] = Final(request[u], raw)]
  /\ pc' = [pc EXCEPT ![u] = IF config.cache THEN "store" ELSE "answered"]
  /\ UNCHANGED <<setting, call, memory, file, clash, saved>>

\* Faulty variant of Advance: the attempts of a backend are counted from the last
\* attempt of the one before.
AdvanceKeepsCount(u) ==
  IF attempt[u] + 1 < MaxAttempts
  THEN attempt' = [attempt EXCEPT ![u] = @ + 1] /\ UNCHANGED <<backend, pc>>
  ELSE /\ pc' = [pc EXCEPT ![u] = IF backend[u] < Backends THEN "try" ELSE "failed"]
       /\ backend' = [backend EXCEPT ![u] = IF backend[u] < Backends THEN @ + 1 ELSE @]
       /\ UNCHANGED attempt

\* Faulty variant of Advance: one attempt more than configured.
AdvanceOnceMore(u) ==
  IF attempt[u] < MaxAttempts
  THEN attempt' = [attempt EXCEPT ![u] = @ + 1] /\ UNCHANGED <<backend, pc>>
  ELSE pc' = [pc EXCEPT ![u] = "failed"] /\ UNCHANGED <<backend, attempt>>

\* The next turn of the two loops.
Advance(u) ==
  IF attempt[u] + 1 < MaxAttempts
  THEN attempt' = [attempt EXCEPT ![u] = @ + 1] /\ UNCHANGED <<backend, pc>>
  ELSE IF backend[u] < Backends
       THEN /\ backend' = [backend EXCEPT ![u] = @ + 1]
            /\ attempt' = [attempt EXCEPT ![u] = 0]
            /\ UNCHANGED pc
       ELSE pc' = [pc EXCEPT ![u] = "failed"] /\ UNCHANGED <<backend, attempt>>

\* The backend raises TranslationError.
Fails(u) ==
  /\ pc[u] = "try"
  /\ failures' = [failures EXCEPT ![u][backend[u]] = @ + 1]
  /\ Advance(u)
  /\ UNCHANGED <<setting, request, answer, memory, file, clash, saved>>

\* The call is over for these users, and what it kept to itself is gone.
Forget(users) ==
  /\ pc' = [u \in Users |-> IF u \in users THEN "idle" ELSE pc[u]]
  /\ answer' = [u \in Users |-> IF u \in users THEN <<>> ELSE answer[u]]
  /\ backend' = [u \in Users |-> IF u \in users THEN 1 ELSE backend[u]]
  /\ attempt' = [u \in Users |-> IF u \in users THEN 0 ELSE attempt[u]]
  /\ failures' = [u \in Users |-> IF u \in users THEN None ELSE failures[u]]

Return(u) ==
  /\ pc[u] \in {"answered", "failed"}
  /\ Forget({u})
  /\ UNCHANGED <<setting, request, memory, file, clash, saved>>

-----------------------------------------------------------------------------
(* TranslationCache.set and _save.                                         *)

With(entries, r, text) ==
  [k \in DOMAIN entries \cup {r} |-> IF k = r THEN text ELSE entries[k]]

Entered(u) == [memory EXCEPT ![manager[u]] = With(@, request[u], answer[u])]

\* Saves that have the file open at the same time write over each other.
Overlap(u) ==
  [w \in Users |->
     IF w = u THEN {manager[v] : v \in Writers}
     ELSE IF w \in Writers THEN clash[w] \cup {manager[u]} ELSE clash[w]]

\* Faulty variant of Store: the lock is not taken.
StoreUnlocked(u) ==
  /\ pc[u] = "store"
  /\ memory' = Entered(u)
  /\ file' = NoEntries
  /\ clash' = Overlap(u)
  /\ pc' = [pc EXCEPT ![u] = "write"]
  /\ UNCHANGED <<setting, call, answer, saved>>

\* The entry is made under the lock, and the file is opened, which truncates it.
Store(u) ==
  /\ pc[u] = "store" /\ ~ Locked(manager[u])
  /\ memory' = Entered(u)
  /\ file' = NoEntries
  /\ clash' = Overlap(u)
  /\ pc' = [pc EXCEPT ![u] = "write"]
  /\ UNCHANGED <<setting, call, answer, saved>>

\* The file cannot be opened: the entry is made, and the file stays as it was.
OpenFails(u) ==
  /\ pc[u] = "store" /\ ~ Locked(manager[u])
  /\ memory' = Entered(u)
  /\ pc' = [pc EXCEPT ![u] = "answered"]
  /\ saved' = {}
  /\ UNCHANGED <<setting, call, answer, file, clash>>

\* The memory is dumped, the file closed and the lock released.  What several saves
\* wrote over each other may be whole or not.
Write(u) ==
  /\ pc[u] = "write"
  /\ \E whole \in IF clash[u] = {} THEN {TRUE} ELSE BOOLEAN :
       file' = IF whole THEN memory[manager[u]] ELSE NoEntries
  /\ saved' = IF clash[u] \subseteq {manager[u]} THEN {manager[u]} ELSE {}
  /\ clash' = [clash EXCEPT ![u] = {}]
  /\ pc' = [pc EXCEPT ![u] = "answered"]
  /\ UNCHANGED <<setting, call, answer, memory>>

\* The dump raises part of the way through.
WriteFails(u) ==
  /\ pc[u] = "write"
  /\ file' = NoEntries
  /\ saved' = {}
  /\ clash' = [clash EXCEPT ![u] = {}]
  /\ pc' = [pc EXCEPT ![u] = "answered"]
  /\ UNCHANGED <<setting, call, answer, memory>>

-----------------------------------------------------------------------------
(* New managers and restarts.                                              *)

\* A new call builds a new manager; the threads of the old one are gone.
Rebuild(m) ==
  /\ \A u \in Users : manager[u] = m => pc[u] = "idle"
  /\ memory' = [memory EXCEPT ![m] = Loaded]
  /\ UNCHANGED <<setting, call, pc, answer, file, clash, saved>>

\* The process dies, in the middle of a save perhaps, and is started again.
Crash ==
  /\ Forget(Users)
  /\ clash' = [u \in Users |-> {}]
  /\ memory' = [m \in Managers |-> Loaded]
  /\ saved' = IF Writers = {} THEN saved ELSE {}
  /\ UNCHANGED <<setting, request, file>>

Step(u) ==
  \/ \E raw \in Says[request[u]] : Translated(u, raw)
  \/ Fails(u)
  \/ Store(u) \/ OpenFails(u) \/ Write(u) \/ WriteFails(u)
  \/ Return(u)

Next ==
  \/ \E u \in Users : Step(u)
  \/ \E u \in Users, r \in Requests : Hit(u, r) \/ Miss(u, r)
  \/ \E m \in Managers : Rebuild(m)
  \/ Crash

Spec == Init /\ [][Next]_vars

-----------------------------------------------------------------------------
(* Properties.                                                             *)

\* Everything a call may end with.
Results(r) == Says[r] \cup {Process(raw) : raw \in Says[r]}
AllResults == UNION {Results(r) : r \in Requests}
Entries == UNION {[R -> AllResults] : R \in SUBSET Requests}

\* The variables hold what translate and the caches keep in them.
TypeOK ==
  /\ config \in [cache : BOOLEAN, urdu : BOOLEAN]
  /\ manager \in [Users -> Managers]
  /\ pc \in [Users -> {"idle", "try", "store", "write", "answered", "failed"}]
  /\ request \in [Users -> Requests]
  /\ backend \in [Users -> Nat] /\ attempt \in [Users -> 0 .. MaxAttempts - 1]
  /\ answer \in [Users -> AllResults \cup {<<>>}]
  /\ memory \in [Managers -> Entries] /\ file \in Entries
  /\ clash \in [Users -> SUBSET Managers]
  /\ failures \in [Users -> [1 .. Backends -> Nat]]
  /\ saved \subseteq Managers

\* When nobody is saving and the last save went well and did not overlap a save of
\* another manager, the file holds exactly what its manager remembers: no entry was
\* made or half written outside of the lock, and a restart forgets none of them.
WholeFile ==
  Writers = {} => \A m \in saved : file = memory[m]

\* translate raises only after every backend has failed MaxAttempts times, and it
\* turns to a backend only after each one before it has failed as often.
FallsBackInOrder ==
  \A u \in Users :
    /\ pc[u] = "failed" => \A b \in 1 .. Backends : failures[u][b] = MaxAttempts
    /\ pc[u] = "try" => /\ \A b \in 1 .. (backend[u] - 1) : failures[u][b] = MaxAttempts
                        /\ failures[u][backend[u]] = attempt[u]

\* A text that anybody is given, remembers or would load for a request is what a
\* backend said to that request, but for its phrases: post-processing, the cache and
\* the file have kept every amount, number and link, and have mixed up no requests.
EntitiesKept ==
  LET Kept(r, text) == \E raw \in Says[r] : text \in {raw, Rewrite(raw)}
  IN  /\ \A u \in Users : pc[u] = "answered" => Kept(request[u], answer[u])
      /\ \A m \in Managers : \A r \in DOMAIN memory[m] : Kept(r, memory[m][r])
      /\ \A r \in DOMAIN file : Kept(r, file[r])
=============================================================================

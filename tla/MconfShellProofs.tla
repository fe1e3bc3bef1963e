-------------------------- MODULE MconfShellProofs --------------------------
(***************************************************************************)
(* The mutex of MconfShell does its work for any number of threads, calls, *)
(* instances and contexts, provided that at most one thread comes before   *)
(* it is initialised (OneFirst): the run shell_race shows that this cannot *)
(* be dropped.                                                             *)
(***************************************************************************)
EXTENDS MconfShell, SequenceTheorems, WellFoundedInduction, TLAPS

(* At most one thread may call before the mutex is initialised.            *)
OneFirst == \A t, u \in Early : t = u

Shape ==
  /\ pc \in [Threads -> Labels]
  /\ DOMAIN job = Threads /\ DOMAIN place = Threads /\ DOMAIN work = Threads
  /\ DOMAIN data = Contexts /\ DOMAIN stored = Contexts
  /\ wait_q \in Seq(Threads)
  /\ s_mutex_initialized \in BOOLEAN

(* Before the mutex is initialised only the first thread has moved, and    *)
(* nobody initialises it again.                                            *)
FirstComes ==
  /\ ~ s_mutex_initialized =>
       /\ owner = NoThread /\ wait_q = <<>>
       /\ \A t \in Threads : /\ pc[t] \in {"idle", "check", "init", "flag"}
                             /\ t \notin Early => pc[t] = "idle"
  /\ s_mutex_initialized => \A t \in Threads : pc[t] \notin {"init", "flag"}

(* Every thread in the queue waits, and stands there once.                 *)
QueueWaits ==
  /\ \A i \in 1 .. Len(wait_q) : pc[wait_q[i]] = "wait"
  /\ \A i, j \in 1 .. Len(wait_q) : wait_q[i] = wait_q[j] => i = j

(* While mconf_save is under way its context is as it was encoded.         *)
SaveUndisturbed ==
  \A t \in Threads :
    pc[t] = "in_call" /\ job[t].cmd = "save" => work[t] = data[Ctx(t)]

MutexInv == Shape /\ FirstComes /\ QueueWaits /\ AccessHoldsMutex /\ SaveUndisturbed

-----------------------------------------------------------------------------
(* The steps inside the mutex but the last, and those outside it.          *)
CriticalStep(t) ==
  \/ RegisterSearch(t) \/ RegisterUpdate(t) \/ RegisterStore(t) \/ cmd_mconf_list(t)
  \/ find_shell_entry_locked(t) \/ cmd_mconf_dump_get(t) \/ cmd_mconf_set(t)
  \/ NoBackend(t) \/ SaveBegin(t) \/ SaveEnd(t)
  \/ FillBegin(t) \/ LoadEnd(t) \/ DefaultsEnd(t)

OutsideStep(t) ==
  \/ \E j \in Jobs : Call(t, j)
  \/ CheckInitialized(t) \/ k_mutex_init(t) \/ SetInitialized(t) \/ k_mutex_lock(t)

Inside == {"search", "update", "store", "entry", "in_call", "unlock"}

(* What the steps inside the mutex have in common: they stay inside and    *)
(* leave the mutex alone.                                                  *)
Moves(t) ==
  /\ pc[t] \in Inside
  /\ \E l \in Inside : pc' = [pc EXCEPT ![t] = l]
  /\ UNCHANGED <<s_mutex_initialized, owner, wait_q, job>>
  /\ DOMAIN place' = Threads /\ DOMAIN work' = Threads
  /\ DOMAIN data' = Contexts /\ DOMAIN stored' = Contexts

(* Every step of a command inside the mutex is of this kind, and one that  *)
(* enters mconf_save has just encoded the buffer.                          *)
LEMMA CriticalMoves ==
  ASSUME MutexInv, NEW t \in Threads, CriticalStep(t)
  PROVE  /\ Moves(t)
         /\ pc'[t] = "in_call" /\ job'[t].cmd = "save" => work'[t] = data'[Ctx(t)']
<1> USE DEF MutexInv, Shape, Moves, Inside, Labels, Leave, Goto, mutex, confs, Ctx, Entry
<1>1. CASE RegisterSearch(t) BY <1>1 DEF RegisterSearch
<1>2. CASE RegisterStore(t) BY <1>2 DEF RegisterStore
<1>3. CASE cmd_mconf_list(t) BY <1>3 DEF cmd_mconf_list
<1>4. CASE find_shell_entry_locked(t) BY <1>4 DEF find_shell_entry_locked
<1>5. CASE cmd_mconf_dump_get(t) BY <1>5 DEF cmd_mconf_dump_get
<1>6. CASE cmd_mconf_set(t) BY <1>6 DEF cmd_mconf_set
<1>7. CASE NoBackend(t) BY <1>7 DEF NoBackend
<1>8. CASE SaveBegin(t) BY <1>8 DEF SaveBegin
<1>9. CASE SaveEnd(t) BY <1>9 DEF SaveEnd
<1>10. CASE FillBegin(t) BY <1>10 DEF FillBegin
<1>11. CASE LoadEnd(t) BY <1>11 DEF LoadEnd
<1>12. CASE DefaultsEnd(t) BY <1>12 DEF DefaultsEnd
<1>13. CASE RegisterUpdate(t) BY <1>13 DEF RegisterUpdate
<1> QED BY <1>1, <1>2, <1>3, <1>4, <1>5, <1>6, <1>7, <1>8, <1>9, <1>10, <1>11, <1>12, <1>13
        DEF CriticalStep

(* A step inside the mutex keeps the invariant: nobody else is inside.     *)
LEMMA CriticalKeepsInv ==
  ASSUME MutexInv, NEW t \in Threads, CriticalStep(t)
  PROVE  MutexInv'
<1>1. Moves(t) BY CriticalMoves
<1>2. \A u \in Threads : u # t => pc[u] \notin Inside /\ pc'[u] = pc[u]
  BY <1>1 DEF Moves, MutexInv, Shape, AccessHoldsMutex, Critical, Inside
<1>3. Shape' BY <1>1 DEF Moves, MutexInv, Shape, Inside, Labels
<1>4. FirstComes' BY <1>1, <1>2 DEF Moves, MutexInv, Shape, FirstComes, Inside
<1>5. QueueWaits'
  <2>1. \A i \in 1 .. Len(wait_q) : wait_q[i] \in Threads /\ wait_q[i] # t
    BY <1>1 DEF Moves, MutexInv, Shape, QueueWaits, Inside
  <2> QED BY <1>1, <1>2, <2>1 DEF Moves, MutexInv, QueueWaits
<1>6. AccessHoldsMutex'
  BY <1>1, <1>2 DEF Moves, MutexInv, Shape, AccessHoldsMutex, Critical, Inside
<1>7. SaveUndisturbed'
  BY <1>1, <1>2, CriticalMoves DEF SaveUndisturbed, Inside
<1> QED BY <1>3, <1>4, <1>5, <1>6, <1>7 DEF MutexInv

(* Releasing the mutex hands it to the first thread of the queue.          *)
LEMMA UnlockKeepsInv ==
  ASSUME MutexInv, NEW t \in Threads, k_mutex_unlock(t)
  PROVE  MutexInv'
<1> USE DEF MutexInv
<1>1. /\ pc[t] = "unlock" /\ s_mutex_initialized /\ owner = t
      /\ \A u \in Threads : u # t => pc[u] \notin Inside
  BY DEF k_mutex_unlock, FirstComes, Shape, AccessHoldsMutex, Critical, Inside
<1>2. /\ UNCHANGED <<s_mutex_initialized, data, stored, s_entries>>
      /\ DOMAIN job' = Threads /\ DOMAIN place' = Threads /\ DOMAIN work' = Threads
      /\ \A u \in Threads : u # t => job'[u] = job[u]
  BY DEF k_mutex_unlock, Return, Shape
<1>3. CASE wait_q = <<>>
  <2>1. /\ owner' = NoThread /\ wait_q' = <<>>
        /\ pc' = [u \in Threads |-> IF u = t THEN "idle" ELSE pc[u]]
    BY <1>1, <1>3 DEF k_mutex_unlock
  <2> QED BY <1>1, <1>2, <2>1
          DEF Shape, FirstComes, QueueWaits, AccessHoldsMutex, Critical, SaveUndisturbed,
              Inside, Labels
<1>4. CASE wait_q # <<>>
  <2> DEFINE h == Head(wait_q)
  <2>1. /\ h \in Threads /\ h = wait_q[1] /\ Len(wait_q) >= 1
        /\ Tail(wait_q) \in Seq(Threads) /\ Len(Tail(wait_q)) = Len(wait_q) - 1
        /\ \A i \in 1 .. Len(Tail(wait_q)) : Tail(wait_q)[i] = wait_q[i + 1]
    BY <1>4, HeadTailProperties, EmptySeq DEF Shape
  <2>2. /\ owner' = h /\ wait_q' = Tail(wait_q)
        /\ pc' = [u \in Threads |-> IF u = t THEN "idle"
                                    ELSE IF u = h THEN "search" ELSE pc[u]]
    BY <1>1, <1>4, <2>1 DEF k_mutex_unlock
  <2>3. pc[h] = "wait" /\ h # t
    BY <1>1, <2>1 DEF QueueWaits
  <2>4. \A i \in 1 .. Len(wait_q') : /\ wait_q'[i] = wait_q[i + 1]
                                     /\ i + 1 \in 1 .. Len(wait_q)
                                     /\ wait_q'[i] \in Threads \ {t, h}
    BY <1>1, <2>1, <2>2 DEF QueueWaits, Shape
  <2>5. Shape' BY <1>2, <2>1, <2>2 DEF Shape, Labels
  <2>6. FirstComes' BY <1>1, <1>2, <2>2 DEF FirstComes, Shape
  <2>7. QueueWaits'
    <3>1. \A i \in 1 .. Len(wait_q') : pc'[wait_q'[i]] = "wait"
      BY <2>2, <2>4 DEF QueueWaits
    <3>2. \A i, j \in 1 .. Len(wait_q') : wait_q'[i] = wait_q'[j] => i = j
      <4> SUFFICES ASSUME NEW i \in 1 .. Len(wait_q'), NEW j \in 1 .. Len(wait_q'),
                          wait_q'[i] = wait_q'[j]
                   PROVE  i = j
        OBVIOUS
      <4>1. i + 1 = j + 1 BY <2>4 DEF QueueWaits
      <4> QED BY <4>1
    <3> QED BY <3>1, <3>2 DEF QueueWaits
  <2>8. AccessHoldsMutex'
    BY <1>1, <2>1, <2>2 DEF AccessHoldsMutex, Critical, Inside
  <2>9. SaveUndisturbed'
    BY <1>1, <2>2 DEF SaveUndisturbed, Inside
  <2> QED BY <2>5, <2>6, <2>7, <2>8, <2>9
<1> QED BY <1>3, <1>4

(* The way into the mutex: only here OneFirst is needed.                   *)
LEMMA OutsideKeepsInv ==
  ASSUME OneFirst, MutexInv, NEW t \in Threads, OutsideStep(t)
  PROVE  MutexInv'
<1> USE ShellAssumption DEF MutexInv, Goto, mutex, confs
<1>1. ASSUME NEW j \in Jobs, Call(t, j) PROVE MutexInv'
  <2>1. /\ pc[t] = "idle" /\ pc' = [pc EXCEPT ![t] = "check"]
        /\ s_mutex_initialized \/ t \in Early
        /\ DOMAIN job' = Threads /\ \A u \in Threads : u # t => job'[u] = job[u]
        /\ UNCHANGED <<s_entries, s_mutex_initialized, owner, wait_q, place, work, data, stored>>
    BY <1>1 DEF Call, Shape
  <2>2. Shape' BY <2>1 DEF Shape, Labels
  <2>3. FirstComes' BY <2>1 DEF FirstComes, Shape
  <2>4. QueueWaits'
    BY <2>1 DEF QueueWaits, Shape
  <2>5. AccessHoldsMutex' BY <2>1 DEF AccessHoldsMutex, Critical, Shape
  <2>6. SaveUndisturbed' BY <2>1 DEF SaveUndisturbed, Shape, Ctx, Entry
  <2> QED BY <2>2, <2>3, <2>4, <2>5, <2>6
<1>2. CASE CheckInitialized(t)
  <2>1. /\ pc[t] = "check"
        /\ pc' = [pc EXCEPT ![t] = IF s_mutex_initialized THEN "lock" ELSE "init"]
        /\ UNCHANGED <<s_entries, s_mutex_initialized, owner, wait_q, job, place, work, data, stored>>
    BY <1>2 DEF CheckInitialized
  <2>2. Shape' BY <2>1 DEF Shape, Labels
  <2>3. FirstComes' BY <2>1 DEF FirstComes, Shape
  <2>4. QueueWaits' BY <2>1 DEF QueueWaits, Shape
  <2>5. AccessHoldsMutex' BY <2>1 DEF AccessHoldsMutex, Critical, Shape
  <2>6. SaveUndisturbed' BY <2>1 DEF SaveUndisturbed, Shape, Ctx, Entry
  <2> QED BY <2>2, <2>3, <2>4, <2>5, <2>6
<1>3. CASE k_mutex_init(t)
  <2>1. /\ pc[t] = "init" /\ pc' = [pc EXCEPT ![t] = "flag"]
        /\ ~ s_mutex_initialized
        /\ UNCHANGED <<s_entries, s_mutex_initialized, owner, wait_q, job, place, work, data, stored>>
    BY <1>3 DEF k_mutex_init, FirstComes, Shape
  <2>2. Shape' BY <2>1 DEF Shape, Labels
  <2>3. FirstComes' BY <2>1 DEF FirstComes, Shape
  <2>4. QueueWaits' BY <2>1 DEF QueueWaits, Shape
  <2>5. AccessHoldsMutex' BY <2>1 DEF AccessHoldsMutex, Critical, Shape
  <2>6. SaveUndisturbed' BY <2>1 DEF SaveUndisturbed, Shape, Ctx, Entry
  <2> QED BY <2>2, <2>3, <2>4, <2>5, <2>6
<1>4. CASE SetInitialized(t)
  <2>1. /\ pc[t] = "flag" /\ pc' = [pc EXCEPT ![t] = "lock"]
        /\ ~ s_mutex_initialized /\ s_mutex_initialized'
        /\ UNCHANGED <<s_entries, owner, wait_q, job, place, work, data, stored>>
    BY <1>4 DEF SetInitialized, FirstComes, Shape
  <2>2. \A u \in Threads : u # t => pc[u] = "idle"
    BY <2>1 DEF FirstComes, OneFirst
  <2>3. Shape' BY <1>4, <2>1 DEF Shape, Labels, SetInitialized
  <2>4. FirstComes' BY <2>1, <2>2 DEF FirstComes, Shape
  <2>5. QueueWaits' BY <2>1 DEF QueueWaits, Shape
  <2>6. AccessHoldsMutex' BY <2>1 DEF AccessHoldsMutex, Critical, Shape
  <2>7. SaveUndisturbed' BY <2>1 DEF SaveUndisturbed, Shape, Ctx, Entry
  <2> QED BY <2>3, <2>4, <2>5, <2>6, <2>7
<1>5. CASE k_mutex_lock(t)
  <2>1. /\ pc[t] = "lock" /\ s_mutex_initialized
        /\ UNCHANGED <<s_entries, s_mutex_initialized, job, place, work, data, stored>>
    BY <1>5 DEF k_mutex_lock, FirstComes
  <2>2. CASE owner \in {NoThread, t}
    <3>1. owner' = t /\ pc' = [pc EXCEPT ![t] = "search"] /\ wait_q' = wait_q
      BY <1>5, <2>2 DEF k_mutex_lock
    <3>2. Shape' BY <2>1, <3>1 DEF Shape, Labels
    <3>3. FirstComes' BY <2>1, <3>1 DEF FirstComes, Shape
    <3>4. QueueWaits' BY <2>1, <3>1 DEF QueueWaits, Shape
    <3>5. AccessHoldsMutex' BY <2>1, <2>2, <3>1 DEF AccessHoldsMutex, Critical, Shape
    <3>6. SaveUndisturbed' BY <2>1, <3>1 DEF SaveUndisturbed, Shape, Ctx, Entry
    <3> QED BY <3>2, <3>3, <3>4, <3>5, <3>6
  <2>3. CASE owner \notin {NoThread, t}
    <3>1. /\ owner' = owner /\ pc' = [pc EXCEPT ![t] = "wait"]
          /\ wait_q' = Append(wait_q, t)
      BY <1>5, <2>3 DEF k_mutex_lock
    <3>2. /\ wait_q' \in Seq(Threads) /\ Len(wait_q') = Len(wait_q) + 1
          /\ \A i \in 1 .. Len(wait_q) : wait_q'[i] = wait_q[i] /\ wait_q[i] \in Threads \ {t}
          /\ wait_q'[Len(wait_q) + 1] = t
          /\ Len(wait_q) \in Nat
      BY <2>1, <3>1, AppendProperties DEF Shape, QueueWaits
    <3>3. Shape' BY <2>1, <3>1, <3>2 DEF Shape, Labels
    <3>4. FirstComes' BY <2>1, <3>1 DEF FirstComes, Shape
    <3>5. QueueWaits'
      <4>1. \A i \in 1 .. Len(wait_q') : i \in 1 .. Len(wait_q) \/ i = Len(wait_q) + 1
        BY <3>2
      <4> QED BY <3>1, <3>2, <4>1 DEF QueueWaits, Shape
    <3>6. AccessHoldsMutex' BY <2>1, <3>1 DEF AccessHoldsMutex, Critical, Shape
    <3>7. SaveUndisturbed' BY <2>1, <3>1 DEF SaveUndisturbed, Shape, Ctx, Entry
    <3> QED BY <3>3, <3>4, <3>5, <3>6, <3>7
  <2> QED BY <2>2, <2>3
<1> QED BY <1>1, <1>2, <1>3, <1>4, <1>5 DEF OutsideStep

-----------------------------------------------------------------------------
(* The invariant holds initially and is kept by every step.                *)
LEMMA MutexInvHolds ==
  ASSUME OneFirst
  PROVE  Spec => []MutexInv
<1>1. Init => MutexInv
  <2> SUFFICES ASSUME Init PROVE MutexInv
    OBVIOUS
  <2>1. wait_q = <<>> /\ \A t \in Threads : pc[t] = "idle"
    BY DEF Init
  <2>2. Len(wait_q) = 0 /\ wait_q \in Seq(Threads) BY <2>1, EmptySeq
  <2>3. Shape BY <2>2 DEF Init, Shape, Labels
  <2>4. FirstComes BY <2>1 DEF Init, FirstComes
  <2>5. QueueWaits BY <2>2 DEF QueueWaits
  <2>6. AccessHoldsMutex BY <2>1 DEF AccessHoldsMutex, Critical
  <2>7. SaveUndisturbed BY <2>1 DEF SaveUndisturbed
  <2> QED BY <2>3, <2>4, <2>5, <2>6, <2>7 DEF MutexInv
<1>2. MutexInv /\ [Next]_vars => MutexInv'
  <2> SUFFICES ASSUME MutexInv, [Next]_vars PROVE MutexInv'
    OBVIOUS
  <2>1. CASE UNCHANGED vars
    BY <2>1 DEF vars, mutex, confs, MutexInv, Shape, FirstComes, QueueWaits,
                AccessHoldsMutex, Critical, SaveUndisturbed, Ctx, Entry
  <2>2. CASE Next
    <3>1. PICK t \in Threads : (\E j \in Jobs : Call(t, j)) \/ Step(t)
      BY <2>2 DEF Next
    <3>2. OutsideStep(t) \/ CriticalStep(t) \/ k_mutex_unlock(t)
      BY <3>1 DEF Step, OutsideStep, CriticalStep
    <3> QED BY <3>2, OutsideKeepsInv, CriticalKeepsInv, UnlockKeepsInv
  <2> QED BY <2>1, <2>2
<1> QED BY <1>1, <1>2, PTL DEF Spec

(* Whoever looks an entry up, fills it or works on its context holds the   *)
(* mutex of mconf_zephyr_shell.c, for any number of threads of which one   *)
(* at most makes the first call.                                           *)
THEOREM MutexHeld ==
  ASSUME OneFirst
  PROVE  Spec => []AccessHoldsMutex
<1>1. MutexInv => AccessHoldsMutex BY DEF MutexInv
<1> QED BY <1>1, MutexInvHolds, PTL

(* Two threads are never inside library calls on one context.              *)
THEOREM ContextsAreSerialized ==
  ASSUME OneFirst
  PROVE  Spec => []ContextsSerialized
<1>1. MutexInv => ContextsSerialized
  BY DEF MutexInv, AccessHoldsMutex, Critical, ContextsSerialized
<1> QED BY <1>1, MutexInvHolds, PTL

(* A save from the shell stores the configuration that is in the buffer    *)
(* when it commits.                                                        *)
THEOREM SaveIsLatest ==
  ASSUME OneFirst
  PROVE  Spec => SaveTakesLatest
<1> DEFINE A == \A c \in Contexts : stored'[c] # stored[c] => stored'[c] = data[c]
<1>1. MutexInv /\ [Next]_vars => [A]_vars
  <2> SUFFICES ASSUME MutexInv, Next, NEW c \in Contexts, stored'[c] # stored[c]
               PROVE  stored'[c] = data[c]
    BY DEF vars, confs
  <2>1. PICK t \in Threads : (\E j \in Jobs : Call(t, j)) \/ Step(t)
    BY DEF Next
  <2>2. SaveEnd(t)
    BY <2>1 DEF Step, Call, CheckInitialized, k_mutex_init, SetInitialized, k_mutex_lock,
                k_mutex_unlock, RegisterSearch, RegisterUpdate, RegisterStore, cmd_mconf_list,
                find_shell_entry_locked, cmd_mconf_dump_get, cmd_mconf_set, NoBackend,
                SaveBegin, FillBegin, LoadEnd, DefaultsEnd, confs
  <2>3. /\ stored' = [stored EXCEPT ![Ctx(t)] = work[t]]
        /\ work[t] = data[Ctx(t)]
    BY <2>2 DEF SaveEnd, MutexInv, SaveUndisturbed
  <2> QED BY <2>3 DEF MutexInv, Shape
<1> QED BY <1>1, MutexInvHolds, PTL DEF Spec, SaveTakesLatest

-----------------------------------------------------------------------------
(* Types, for any number of first threads.                                 *)

(* The first place of a search is one of those that match.                 *)
LEMMA FirstIsLeast ==
  ASSUME NEW P \in SUBSET Nat, P # {}
  PROVE  First(P) \in P
<1>1. PICK i \in P : \A j \in P : ~ (<<j, i>> \in OpToRel(<, Nat))
  BY NatLessThanWellFounded, WFMin
<1>2. \A j \in P : ~ (j < i)
  BY <1>1 DEF OpToRel
<1>3. \E k \in P : \A j \in P : k <= j
  BY <1>2
<1> QED BY <1>3 DEF First

(* The value cmd_mconf_set stores is a number.                             *)
LEMMA ParsedIsInt ==
  ASSUME NEW ty \in Types, NEW a \in Int
  PROVE  ParsedValue(ty, a) \in Int
<1> DEFINE m == ByteMod ^ LongBytes
           h == m \div 2
<1>1. m \in Nat \ {0} /\ h \in Nat
  BY ShellAssumption, WordsAssumption
<1>2. strtoul(a) \in Int
  <2> HIDE DEF m
  <2>1. a % m \in Int /\ m - 1 \in Int
    BY <1>1
  <2>2. strtoul(a) = IF a \in 1 - m .. m - 1 THEN a % m ELSE m - 1
    BY DEF strtoul, m
  <2> QED BY <2>1, <2>2
<1>3. strtol(a) \in Int
  <2>1. strtol(a) = IF a >= h THEN h - 1 ELSE IF a < -h THEN -h ELSE a
    BY DEF strtol
  <2> HIDE DEF h
  <2> QED BY <1>1, <2>1
<1>4. ASSUME NEW w \in {1, 2, 4} PROVE Unsigned(a, w) \in Int /\ Signed(a, w) \in Int
  <2> DEFINE n == ByteMod ^ w
  <2>1. n \in Nat \ {0}
    BY WordsAssumption
  <2> HIDE DEF n
  <2>2. strtoul(a) % n \in Int /\ strtol(a) % n \in Int
    BY <1>2, <1>3, <2>1
  <2> QED BY <2>1, <2>2 DEF Unsigned, Signed, n
<1> QED BY <1>4 DEF ParsedValue

(* Entries in use have a context, and a command that has found its entry   *)
(* works on one in use.                                                    *)
FoundInUse ==
  /\ \A i \in Places : s_entries[i].in_use => s_entries[i].ctx \in Contexts
  /\ \A t \in Threads : pc[t] \in {"entry", "in_call"} => s_entries[place[t]].in_use

TypeInv == TypeOK /\ FoundInUse

(* What a command has found is a context.                                  *)
LEMMA CtxIsContext ==
  ASSUME TypeInv, NEW t \in Threads, pc[t] \in {"entry", "in_call"}
  PROVE  Ctx(t) \in Contexts
BY DEF TypeInv, TypeOK, FoundInUse, Ctx, Entry

(* A default job, a cleared buffer and the default configuration are typed.*)
LEMMA Resets ==
  NoJob \in Jobs /\ Cleared \in Config /\ Default \in Config /\ 1 \in Places
  /\ \A l \in {"idle", "search"} : l \in Labels
BY ShellAssumption DEF NoJob, Cleared, Config, Places, Labels

(* The steps around the mutex.                                             *)
LEMMA AroundKeepsTypes ==
  ASSUME TypeInv, NEW t \in Threads, OutsideStep(t) \/ k_mutex_unlock(t)
  PROVE  TypeInv'
<1> USE DEF TypeInv, TypeOK, FoundInUse, Goto, mutex, confs, Labels
<1>1. CASE \E j \in Jobs : Call(t, j) BY <1>1 DEF Call
<1>2. CASE CheckInitialized(t) BY <1>2 DEF CheckInitialized
<1>3. CASE k_mutex_init(t)
  <2>1. <<>> \in Seq(Threads) BY EmptySeq
  <2> QED BY <1>3, <2>1 DEF k_mutex_init
<1>4. CASE SetInitialized(t) BY <1>4 DEF SetInitialized
<1>5. CASE k_mutex_lock(t)
  <2>1. Append(wait_q, t) \in Seq(Threads) BY AppendProperties
  <2> QED BY <1>5, <2>1 DEF k_mutex_lock
<1>6. CASE k_mutex_unlock(t)
  <2>1. /\ pc' \in [Threads -> Labels]
        /\ \A u \in Threads : pc'[u] \in {"entry", "in_call"} => u # t /\ pc[u] = pc'[u]
    BY <1>6 DEF k_mutex_unlock
  <2>2. wait_q # <<>> => Head(wait_q) \in Threads /\ Tail(wait_q) \in Seq(Threads)
    BY HeadTailProperties, EmptySeq
  <2>3. owner' \in Threads \cup {NoThread} /\ wait_q' \in Seq(Threads)
    BY <1>6, <2>2 DEF k_mutex_unlock
  <2>4. /\ job' = [job EXCEPT ![t] = NoJob] /\ place' = [place EXCEPT ![t] = 1]
        /\ ret' = [ret EXCEPT ![t] = "none"] /\ work' = [work EXCEPT ![t] = Cleared]
        /\ UNCHANGED <<s_entries, s_mutex_initialized, data, stored, bound>>
    BY <1>6 DEF k_mutex_unlock, Return
  <2>5. TypeOK'
    BY <2>1, <2>3, <2>4, Resets DEF Returns
  <2>6. FoundInUse'
    BY <2>1, <2>4
  <2> QED BY <2>5, <2>6
<1> QED BY <1>1, <1>2, <1>3, <1>4, <1>5, <1>6 DEF OutsideStep

(* The steps that search the registry or fill an entry.                    *)
LEMMA RegistryKeepsTypes ==
  ASSUME TypeInv, NEW t \in Threads,
         \/ RegisterSearch(t) \/ RegisterUpdate(t) \/ RegisterStore(t)
         \/ find_shell_entry_locked(t)
  PROVE  TypeInv'
<1> USE DEF TypeInv, TypeOK, FoundInUse, Goto, Leave, mutex, confs, Labels, Returns
<1>1. \A P \in SUBSET Places : P # {} => First(P) \in P
  <2>1. Places \subseteq Nat BY ShellAssumption DEF Places
  <2> QED BY <2>1, FirstIsLeast
<1>2. \A n : Matches(n) \in SUBSET Places /\ RegisterPlaces(n) \in SUBSET Places
  BY DEF Matches, RegisterPlaces, Free
<1>3. CASE RegisterSearch(t) BY <1>1, <1>2, <1>3 DEF RegisterSearch
<1>4. CASE find_shell_entry_locked(t)
  <2> DEFINE M == Matches(job[t].name)
  <2>1. M # {} => First(M) \in Places /\ s_entries[First(M)].in_use
    <3> SUFFICES ASSUME M # {} PROVE First(M) \in Places /\ s_entries[First(M)].in_use
      OBVIOUS
    <3>1. First(M) \in M BY <1>1, <1>2
    <3> QED BY <3>1 DEF Matches
  <2> QED BY <1>4, <2>1 DEF find_shell_entry_locked
<1>5. CASE RegisterStore(t)
  <2> DEFINE i == place[t]
             new == [in_use |-> TRUE,
                     name |-> Cut[job[t].name],
                     ctx |-> job[t].ctx, io |-> job[t].io]
  <2>1. /\ i \in Places /\ new \in Registration /\ new.in_use /\ new.ctx \in Contexts
        /\ job[t].name \in Names /\ job[t].ctx \in Contexts
    BY ShellAssumption DEF Registration
  <2>2. /\ s_entries' = [s_entries EXCEPT ![i] = new]
        /\ bound' = [bound EXCEPT ![job[t].name] = job[t].ctx]
        /\ pc' = [pc EXCEPT ![t] = "unlock"] /\ ret' = [ret EXCEPT ![t] = "OK"]
        /\ UNCHANGED <<s_mutex_initialized, owner, wait_q, job, place, data, stored, work>>
    BY <1>5 DEF RegisterStore
  <2> HIDE DEF new, i
  <2>3. TypeOK'
    BY <2>1, <2>2
  <2>4. FoundInUse'
    BY <2>1, <2>2
  <2> QED BY <2>3, <2>4
<1>6. CASE RegisterUpdate(t)
  <2> DEFINE i == place[t]
             new == [s_entries[i] EXCEPT !.ctx = job[t].ctx, !.io = job[t].io]
  <2>1. /\ i \in Places /\ new \in Registration /\ new.in_use = s_entries[i].in_use
        /\ new.ctx \in Contexts /\ job[t].name \in Names /\ job[t].ctx \in Contexts
    <3>1. /\ i \in Places /\ s_entries[i] \in Registration
          /\ job[t].name \in Names /\ job[t].ctx \in Contexts /\ job[t].io \in BOOLEAN
      BY ShellAssumption
    <3> HIDE DEF i
    <3> QED BY <3>1 DEF Registration
  <2>2. /\ s_entries' = [s_entries EXCEPT ![i] = new]
        /\ bound' = [bound EXCEPT ![job[t].name] = job[t].ctx]
        /\ pc' = [pc EXCEPT ![t] = "unlock"] /\ ret' = [ret EXCEPT ![t] = "OK"]
        /\ UNCHANGED <<s_mutex_initialized, owner, wait_q, job, place, data, stored, work>>
    BY <1>6, <2>1 DEF RegisterUpdate
  <2> HIDE DEF new, i
  <2>3. TypeOK'
    BY <2>1, <2>2
  <2>4. FoundInUse'
    BY <2>1, <2>2
  <2> QED BY <2>3, <2>4
<1> QED BY <1>3, <1>4, <1>5, <1>6

(* The steps that work on a context.                                       *)
LEMMA WorkKeepsTypes ==
  ASSUME TypeInv, NEW t \in Threads,
         \/ cmd_mconf_list(t) \/ cmd_mconf_dump_get(t) \/ cmd_mconf_set(t)
         \/ NoBackend(t) \/ SaveBegin(t) \/ SaveEnd(t)
         \/ FillBegin(t) \/ LoadEnd(t) \/ DefaultsEnd(t)
  PROVE  TypeInv'
<1> USE DEF TypeInv, TypeOK, FoundInUse, Goto, Leave, mutex, confs, Labels, Returns
<1>1. CASE cmd_mconf_list(t) BY <1>1 DEF cmd_mconf_list
<1>2. CASE cmd_mconf_dump_get(t) BY <1>2 DEF cmd_mconf_dump_get
<1>3. CASE cmd_mconf_set(t)
  <2> DEFINE c == Ctx(t)
             k == job[t].key
             v == ParsedValue(Type[k], job[t].arg)
  <2>1. c \in Contexts BY <1>3, CtxIsContext DEF cmd_mconf_set
  <2>2. SetError(job[t]) \in Returns BY DEF SetError
  <2>3. SetError(job[t]) = "OK" => k \in Keys BY DEF SetError
  <2>4. k \in Keys => v \in Int BY ParsedIsInt, ShellAssumption
  <2>5. /\ pc' = [pc EXCEPT ![t] = "unlock"] /\ ret' = [ret EXCEPT ![t] = SetError(job[t])]
        /\ UNCHANGED <<s_entries, s_mutex_initialized, owner, wait_q, job, place, stored,
                       work, bound>>
        /\ \/ data' = data
           \/ SetError(job[t]) = "OK" /\ data' = [data EXCEPT ![c][k] = v]
    BY <1>3 DEF cmd_mconf_set
  <2> HIDE DEF c, v
  <2>6. data' \in [Contexts -> Config]
    <3>1. CASE data' = data BY <3>1
    <3>2. CASE SetError(job[t]) = "OK" /\ data' = [data EXCEPT ![c][k] = v]
      <4>1. [data[c] EXCEPT ![k] = v] \in Config
        BY <2>1, <2>3, <2>4, <3>2 DEF Config
      <4>2. data' = [data EXCEPT ![c] = [data[c] EXCEPT ![k] = v]]
        BY <3>2
      <4> QED BY <2>1, <4>1, <4>2
    <3> QED BY <2>5, <3>1, <3>2
  <2> QED BY <2>2, <2>5, <2>6
<1>4. CASE NoBackend(t) BY <1>4 DEF NoBackend
<1>5. CASE SaveBegin(t) BY <1>5, CtxIsContext DEF SaveBegin
<1>6. CASE SaveEnd(t)
  <2> DEFINE c == Ctx(t)
  <2>1. c \in Contexts BY <1>6, CtxIsContext DEF SaveEnd
  <2>2. work[t] \in Config /\ data[c] \in Config BY <2>1
  <2>3. /\ UNCHANGED <<s_entries, s_mutex_initialized, owner, wait_q, job, place, work, bound>>
        /\ pc' = [pc EXCEPT ![t] = "unlock"]
        /\ \E e \in {"OK", "EIO"} : ret' = [ret EXCEPT ![t] = e]
        /\ \/ data' = data
           \/ \E d \in Config : data' = [data EXCEPT ![c] = d]
        /\ stored' = stored \/ stored' = [stored EXCEPT ![c] = work[t]]
    <3>1. \A decoded \in SUBSET Keys : Partly(decoded, work[t]) \in Config
      BY <2>2 DEF Partly, Config
    <3> QED BY <1>6, <2>2, <3>1 DEF SaveEnd
  <2> HIDE DEF c
  <2>4. data' \in [Contexts -> Config] BY <2>1, <2>2, <2>3, Resets
  <2>5. stored' \in [Contexts -> Config \cup {NoRecord}] BY <2>1, <2>2, <2>3
  <2>6. ret' \in [Threads -> Returns] /\ pc' \in [Threads -> Labels] BY <2>3
  <2>7. FoundInUse' BY <2>3
  <2> QED BY <2>3, <2>4, <2>5, <2>6, <2>7
<1>7. CASE FillBegin(t) BY <1>7, CtxIsContext, Resets DEF FillBegin
<1>8. CASE LoadEnd(t) BY <1>8, CtxIsContext, Resets DEF LoadEnd
<1>9. CASE DefaultsEnd(t) BY <1>9, CtxIsContext, Resets DEF DefaultsEnd
<1> QED BY <1>1, <1>2, <1>3, <1>4, <1>5, <1>6, <1>7, <1>8, <1>9

(* The types hold in every state.                                          *)
LEMMA TypeInvHolds == Spec => []TypeInv
<1>1. Init => TypeInv
  <2>1. <<>> \in Seq(Threads) BY EmptySeq
  <2>2. FreeEntry \in Registration /\ ~ FreeEntry.in_use BY DEF FreeEntry, Registration
  <2>3. Init => TypeOK
    <3> SUFFICES ASSUME Init PROVE TypeOK
      OBVIOUS
    <3>1. s_entries \in [Places -> Registration] BY <2>2 DEF Init
    <3>2. s_mutex_initialized \in BOOLEAN /\ owner \in Threads \cup {NoThread} BY DEF Init
    <3>3. wait_q \in Seq(Threads) BY <2>1 DEF Init
    <3>4. /\ pc \in [Threads -> Labels] /\ job \in [Threads -> Jobs]
          /\ place \in [Threads -> Places] /\ work \in [Threads -> Config]
      BY Resets DEF Init
    <3>5. ret \in [Threads -> Returns] BY DEF Init, Returns
    <3>6. /\ data \in [Contexts -> Config] /\ stored \in [Contexts -> Config \cup {NoRecord}]
          /\ bound \in [Names -> Contexts \cup {NoRecord}]
      BY Resets DEF Init
    <3> QED BY <3>1, <3>2, <3>3, <3>4, <3>5, <3>6 DEF TypeOK
  <2>4. Init => FoundInUse BY <2>2 DEF Init, FoundInUse
  <2> QED BY <2>3, <2>4 DEF TypeInv
<1>2. TypeInv /\ [Next]_vars => TypeInv'
  <2> SUFFICES ASSUME TypeInv, [Next]_vars PROVE TypeInv'
    OBVIOUS
  <2>1. CASE UNCHANGED vars
    BY <2>1 DEF vars, mutex, confs, TypeInv, TypeOK, FoundInUse
  <2>2. CASE Next
    <3>1. PICK t \in Threads : (\E j \in Jobs : Call(t, j)) \/ Step(t)
      BY <2>2 DEF Next
    <3> QED BY <3>1, AroundKeepsTypes, RegistryKeepsTypes, WorkKeepsTypes
            DEF Step, OutsideStep
  <2> QED BY <2>1, <2>2
<1> QED BY <1>1, <1>2, PTL DEF Spec

(* Every variable of the shell keeps its type, the race for the mutex at   *)
(* the first call included: a command never works on an entry without a    *)
(* context.                                                                *)
THEOREM TypeCorrect == Spec => []TypeOK
<1>1. TypeInv => TypeOK BY DEF TypeInv
<1> QED BY <1>1, TypeInvHolds, PTL

-----------------------------------------------------------------------------
(* The registry, for names that strncpy does not cut.                      *)
NamesFit == \A n \in Names : Cut[n] = n

(* What a registration has found is still so when it fills the entry.      *)
Filling == {"update", "store"}
PlaceFound(t) ==
  pc[t] \in Filling => /\ place[t] \in RegisterPlaces(job[t].name)
                       /\ pc[t] = "update" <=> s_entries[place[t]].in_use

(* A name is the name of one entry at most, and every registered name has  *)
(* one.                                                                    *)
RegistryInv ==
  /\ \A i, j \in Places : s_entries[i].in_use /\ s_entries[j].in_use
                          /\ s_entries[i].name = s_entries[j].name => i = j
  /\ \A n \in Names : bound[n] # NoRecord =>
       \E i \in Matches(n) : s_entries[i].ctx = bound[n]
  /\ \A t \in Threads : PlaceFound(t)

(* A step that leaves the entries alone and does not enter the store.      *)
LEMMA RegistryUntouched ==
  ASSUME RegistryInv, UNCHANGED <<s_entries, bound>>,
         \A u \in Threads : pc'[u] \in Filling =>
           pc[u] = pc'[u] /\ place'[u] = place[u] /\ job'[u] = job[u]
  PROVE  RegistryInv'
<1>1. \A n : Matches(n)' = Matches(n) /\ RegisterPlaces(n)' = RegisterPlaces(n)
  BY DEF Matches, RegisterPlaces, Free
<1>2. (\A u \in Threads : PlaceFound(u))'
  <2> SUFFICES ASSUME NEW u \in Threads, pc'[u] \in Filling
               PROVE  /\ (place[u] \in RegisterPlaces(job[u].name))'
                      /\ pc'[u] = "update" <=> s_entries'[place'[u]].in_use
    BY DEF PlaceFound
  <2>1. /\ place[u] \in RegisterPlaces(job[u].name)
        /\ pc[u] = "update" <=> s_entries[place[u]].in_use
        /\ pc'[u] = pc[u] /\ place'[u] = place[u] /\ job'[u] = job[u]
        /\ s_entries' = s_entries
    BY DEF RegistryInv, PlaceFound
  <2> QED BY <2>1 DEF RegisterPlaces, Matches, Free
<1>3. \A n \in Names : bound'[n] # NoRecord =>
        \E i \in Matches(n)' : s_entries'[i].ctx = bound'[n]
  BY <1>1 DEF RegistryInv
<1>4. \A i, j \in Places : s_entries'[i].in_use /\ s_entries'[j].in_use
                           /\ s_entries'[i].name = s_entries'[j].name => i = j
  BY DEF RegistryInv
<1> QED BY <1>2, <1>3, <1>4 DEF RegistryInv

(* Filling the entry that was found keeps the registry a dictionary.       *)
LEMMA StoreKeepsRegistry ==
  ASSUME NamesFit, MutexInv, TypeInv, RegistryInv, NEW t \in Threads,
         RegisterUpdate(t) \/ RegisterStore(t)
  PROVE  RegistryInv'
<1> DEFINE k == place[t]
           n == job[t].name
           c == job[t].ctx
<1>1. /\ k \in Places /\ n \in Names /\ c \in Contexts
      /\ s_entries \in [Places -> Registration] /\ pc \in [Threads -> Labels]
      /\ DOMAIN bound = Names
  BY ShellAssumption DEF TypeInv, TypeOK
<1>2. /\ pc[t] \in Filling /\ pc' = [pc EXCEPT ![t] = "unlock"]
      /\ bound' = [bound EXCEPT ![n] = c]
      /\ UNCHANGED <<job, place>>
  BY DEF RegisterUpdate, RegisterStore, Leave, Goto, Filling
<1>3. k \in RegisterPlaces(n) /\ (pc[t] = "update" <=> s_entries[k].in_use)
  BY <1>2 DEF RegistryInv, PlaceFound
<1>4. \/ s_entries[k].in_use /\ s_entries[k].name = n
      \/ ~ s_entries[k].in_use /\ \A i \in Places : s_entries[i].in_use => s_entries[i].name # n
  BY <1>3 DEF RegisterPlaces, Matches, Free
<1>5. /\ s_entries'[k].in_use /\ s_entries'[k].name = n /\ s_entries'[k].ctx = c
      /\ \A i \in Places : i # k => s_entries'[i] = s_entries[i]
  <2>1. CASE RegisterUpdate(t)
    <3>1. s_entries[k].in_use /\ s_entries[k].name = n
      BY <1>3, <1>4, <2>1 DEF RegisterUpdate
    <3>2. s_entries' = [s_entries EXCEPT ![k] =
                          [s_entries[k] EXCEPT !.ctx = c, !.io = job[t].io]]
      BY <1>1, <2>1 DEF RegisterUpdate
    <3>3. s_entries[k] \in Registration
      BY <1>1
    <3> QED BY <1>1, <3>1, <3>2, <3>3 DEF Registration
  <2>2. CASE RegisterStore(t)
    <3>1. s_entries' = [s_entries EXCEPT ![k] =
                          [in_use |-> TRUE, name |-> n, ctx |-> c, io |-> job[t].io]]
      BY <1>1, <2>2 DEF RegisterStore, NamesFit
    <3> QED BY <1>1, <3>1
  <2> QED BY <2>1, <2>2
<1> HIDE DEF k, n, c
<1>6. \A i \in Places : i # k /\ s_entries[i].in_use => s_entries[i].name # n
  BY <1>1, <1>4 DEF RegistryInv
<1>7. (\A i, j \in Places : s_entries[i].in_use /\ s_entries[j].in_use
                            /\ s_entries[i].name = s_entries[j].name => i = j)'
  BY <1>5, <1>6 DEF RegistryInv
<1>8. (\A m \in Names : bound[m] # NoRecord =>
         \E i \in Matches(m) : s_entries[i].ctx = bound[m])'
  <2> SUFFICES ASSUME NEW m \in Names, bound'[m] # NoRecord
               PROVE  \E i \in Places : /\ s_entries'[i].in_use /\ s_entries'[i].name = m
                                        /\ s_entries'[i].ctx = bound'[m]
    BY DEF Matches
  <2>1. CASE m = n
    BY <1>1, <1>2, <1>5, <2>1
  <2>2. CASE m # n
    <3>1. bound'[m] = bound[m]
      BY <1>1, <1>2, <2>2
    <3>2. PICK i \in Places : /\ s_entries[i].in_use /\ s_entries[i].name = m
                              /\ s_entries[i].ctx = bound[m]
      BY <3>1 DEF RegistryInv, Matches
    <3>3. i # k
      BY <1>4, <2>2, <3>2
    <3> QED BY <1>5, <3>1, <3>2, <3>3
  <2> QED BY <2>1, <2>2
<1>9. \A u \in Threads : pc'[u] \notin Filling
  <2>1. \A u \in Threads : pc[u] \in Filling => u = t
    BY <1>2 DEF MutexInv, AccessHoldsMutex, Critical, Filling
  <2> QED BY <1>1, <1>2, <2>1 DEF Filling
<1> QED BY <1>7, <1>8, <1>9 DEF RegistryInv, PlaceFound

(* Every step keeps it.                                                    *)
LEMMA RegistryStep ==
  ASSUME NamesFit, MutexInv, TypeInv, RegistryInv, NEW t \in Threads,
         (\E j \in Jobs : Call(t, j)) \/ Step(t)
  PROVE  RegistryInv'
<1>1. pc \in [Threads -> Labels] /\ job \in [Threads -> Jobs] /\ place \in [Threads -> Places]
  BY DEF TypeInv, TypeOK
<1>2. CASE RegisterUpdate(t) \/ RegisterStore(t)
  BY <1>2, StoreKeepsRegistry
<1>3. CASE RegisterSearch(t)
  <2>1. UNCHANGED <<s_entries, bound, job>> /\ \A n : RegisterPlaces(n) \in SUBSET Nat
    BY <1>3, ShellAssumption DEF RegisterSearch, RegisterPlaces, Matches, Free, Places
  <2>2. \/ pc' = [pc EXCEPT ![t] = "unlock"] /\ place' = place
        \/ /\ pc' = [pc EXCEPT ![t] = IF s_entries[First(RegisterPlaces(job[t].name))].in_use
                                      THEN "update" ELSE "store"]
           /\ RegisterPlaces(job[t].name) # {}
           /\ place' = [place EXCEPT ![t] = First(RegisterPlaces(job[t].name))]
    BY <1>3 DEF RegisterSearch, Leave, Goto
  <2>3. \A u \in Threads : pc'[u] \in Filling =>
          /\ place'[u] \in RegisterPlaces(job[u].name)
          /\ pc'[u] = "update" <=> s_entries[place'[u]].in_use
    <3> SUFFICES ASSUME NEW u \in Threads, pc'[u] \in Filling
                 PROVE  /\ place'[u] \in RegisterPlaces(job[u].name)
                        /\ pc'[u] = "update" <=> s_entries[place'[u]].in_use
      OBVIOUS
    <3>1. CASE u = t
      <4>1. /\ RegisterPlaces(job[t].name) # {}
            /\ place'[t] = First(RegisterPlaces(job[t].name))
            /\ pc'[t] = "update" <=> s_entries[place'[t]].in_use
        BY <1>1, <2>2, <3>1 DEF Filling
      <4> QED BY <2>1, <3>1, <4>1, FirstIsLeast
    <3>2. CASE u # t
      BY <1>1, <2>2, <3>2 DEF RegistryInv, PlaceFound
    <3> QED BY <3>1, <3>2
  <2>4. (\A u \in Threads : PlaceFound(u))'
    BY <2>1, <2>3 DEF PlaceFound, RegisterPlaces, Matches, Free
  <2>5. (\A n \in Names : bound[n] # NoRecord =>
           \E i \in Matches(n) : s_entries[i].ctx = bound[n])'
    BY <2>1 DEF RegistryInv, Matches
  <2>6. (\A i, j \in Places : s_entries[i].in_use /\ s_entries[j].in_use
                              /\ s_entries[i].name = s_entries[j].name => i = j)'
    BY <2>1 DEF RegistryInv
  <2> QED BY <2>4, <2>5, <2>6 DEF RegistryInv
<1>4. CASE \E j \in Jobs : Call(t, j)
  BY <1>1, <1>4, RegistryUntouched DEF Call, Goto, Filling
<1>5. CASE k_mutex_unlock(t)
  <2>1. /\ UNCHANGED <<s_entries, bound>>
        /\ \A u \in Threads : pc'[u] \in Filling => u # t /\ pc[u] = pc'[u]
        /\ \A u \in Threads : u # t => place'[u] = place[u] /\ job'[u] = job[u]
    BY <1>1, <1>5 DEF k_mutex_unlock, Return, Filling
  <2> QED BY <2>1, RegistryUntouched
<1>6. CASE /\ UNCHANGED <<s_entries, bound, job>>
           /\ \E l \in Labels \ Filling : pc' = [pc EXCEPT ![t] = l]
           /\ \A u \in Threads : u # t => place'[u] = place[u]
  BY <1>1, <1>6, RegistryUntouched
<1>7. CASE \/ CheckInitialized(t) \/ k_mutex_init(t) \/ SetInitialized(t) \/ k_mutex_lock(t)
           \/ cmd_mconf_list(t) \/ find_shell_entry_locked(t) \/ cmd_mconf_dump_get(t)
  BY <1>1, <1>6, <1>7
  DEF CheckInitialized, k_mutex_init, SetInitialized, k_mutex_lock, cmd_mconf_list,
      find_shell_entry_locked, cmd_mconf_dump_get, Goto, Leave, Labels, Filling
<1>8. CASE \/ cmd_mconf_set(t) \/ NoBackend(t) \/ SaveBegin(t) \/ SaveEnd(t)
           \/ FillBegin(t) \/ LoadEnd(t) \/ DefaultsEnd(t)
  BY <1>1, <1>6, <1>8
  DEF cmd_mconf_set, NoBackend, SaveBegin, SaveEnd, FillBegin, LoadEnd, DefaultsEnd,
      Goto, Leave, Labels, Filling
<1> QED BY <1>2, <1>3, <1>4, <1>5, <1>7, <1>8 DEF Step

(* What was registered last under a name is what a command with that name  *)
(* finds, for any number of names, places and threads of which one at most *)
(* makes the first call, as long as names are short enough to be kept.     *)
THEOREM RegistryIsDictionary ==
  ASSUME OneFirst, NamesFit
  PROVE  Spec => []RegisteredIsFound
<1>1. Init => RegistryInv
  <2> SUFFICES ASSUME Init PROVE RegistryInv
    OBVIOUS
  <2>1. ~ FreeEntry.in_use BY DEF FreeEntry
  <2>2. \A i \in Places : ~ s_entries[i].in_use BY <2>1 DEF Init
  <2>3. /\ \A n \in Names : bound[n] = NoRecord
        /\ \A t \in Threads : pc[t] = "idle"
    BY DEF Init
  <2> QED BY <2>2, <2>3 DEF RegistryInv, PlaceFound, Filling
<1>2. MutexInv /\ TypeInv /\ RegistryInv /\ [Next]_vars => RegistryInv'
  <2>1. ASSUME MutexInv, TypeInv, RegistryInv, Next PROVE RegistryInv'
    BY <2>1, RegistryStep DEF Next
  <2>2. ASSUME RegistryInv, UNCHANGED vars PROVE RegistryInv'
    BY <2>2, RegistryUntouched DEF vars
  <2> QED BY <2>1, <2>2
<1>3. RegistryInv => RegisteredIsFound
  <2> SUFFICES ASSUME RegistryInv, NEW n \in Names, bound[n] # NoRecord
               PROVE  Matches(n) # {} /\ s_entries[First(Matches(n))].ctx = bound[n]
    BY DEF RegisteredIsFound
  <2>1. PICK i \in Matches(n) : s_entries[i].ctx = bound[n]
    BY DEF RegistryInv
  <2>2. \A j \in Matches(n) : j = i
    BY DEF RegistryInv, Matches
  <2>3. Matches(n) \in SUBSET Nat
    BY ShellAssumption DEF Matches, Places
  <2>4. First(Matches(n)) = i
    BY <2>2, <2>3, FirstIsLeast
  <2> QED BY <2>1, <2>4
<1> QED BY <1>1, <1>2, <1>3, MutexInvHolds, TypeInvHolds, PTL DEF Spec
=============================================================================

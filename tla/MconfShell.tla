----------------------------- MODULE MconfShell -----------------------------
(***************************************************************************)
(* The Zephyr shell commands of zephyr/src/mconf_zephyr_shell.c: the       *)
(* registry of instances, the mutex that is initialised by whoever comes   *)
(* first, and the commands of several threads (shell backends, and main    *)
(* registering its instances), each access to shared memory a step.        *)
(*                                                                         *)
(* Abstractions.                                                           *)
(*  - A job is one call into the file: the function and its arguments.     *)
(*  - What strncpy keeps of a name is Cut[name].                           *)
(*  - An argument on the command line is the number it spells; strtoul     *)
(*    reads text as 0, so text is an argument of its own only for strings, *)
(*    and the word "true" for a bool is the number 1.                      *)
(*  - A context is its configuration in memory and the record mconf_load   *)
(*    would recover (MconfStore); a library call that works on the buffer  *)
(*    has a beginning and an end.  A load that falls back to the record    *)
(*    before that one is not told apart from one that ends in the defaults.*)
(*  - Contexts are initialised, so that mconf_load_defaults succeeds.      *)
(*  - Calls with missing arguments, a null context or an empty name return  *)
(*    -EINVAL before they touch anything and are left out.                 *)
(*  - Waiting threads have equal priority: the kernel wakes them in order. *)
(***************************************************************************)
EXTENDS Integers, Sequences

CONSTANTS
  Threads,       \* threads that call into the shell module
  Early,         \* those that may call before the mutex is initialised
  NoThread,      \* no owner
  Jobs,          \* the calls the threads may make
  Names,         \* names given by callers
  Cut,           \* Cut[n]: what name[24] holds after strncpy
  Contexts,      \* mconf_t objects
  Keys,          \* keys of their schemas
  Type,          \* Type[k]: type of the entry
  TooLong,       \* arguments that do not fit a string field
  ByteMod,       \* values of a byte (256 in the code)
  LongBytes,     \* bytes of a long
  Default,       \* configuration mconf_load_defaults writes
  NoRecord,      \* nothing stored, or no entry found
  MaxInstances,  \* MCONF_SHELL_MAX_INSTANCES
  IoFails        \* whether storage callbacks may fail

Places  == 1 .. MaxInstances
Commands == {"register", "list", "dump", "get", "set", "save", "load", "defaults"}
Types   == {"bool", "u8", "u16", "u32", "i32", "float", "string", "other"}
Config  == [Keys -> Int]

ASSUME ShellAssumption ==
  /\ Early \subseteq Threads
  /\ NoThread \notin Threads
  /\ MaxInstances \in Nat \ {0}
  /\ ByteMod \in Nat /\ ByteMod > 1 /\ LongBytes \in {4, 8}
  /\ Type \in [Keys -> Types]
  /\ Cut \in [Names -> STRING]
  /\ Default \in Config
  /\ NoRecord \notin Contexts
  /\ Jobs # {}
  /\ \A j \in Jobs : j.cmd \in Commands /\ j.name \in Names /\ j.arg \in Int
                     /\ j.ctx \in Contexts /\ j.io \in BOOLEAN

(* What the proofs use of exponentiation: the words of the code have a     *)
(* number of values.                                                       *)
ASSUME WordsAssumption == \A w \in {1, 2, 4, 8} : ByteMod ^ w \in Nat \ {0}

VARIABLES
  s_entries,            \* the registry
  s_mutex_initialized,
  owner, wait_q,        \* the kernel's mutex
  pc, job, place, ret,  \* per thread: where it stands, its call, the entry
                        \* it found, the error it is about to return
  work,                 \* per thread: the configuration a save encoded
  data, stored,         \* per context: buffer, and record on the medium
  bound                 \* history: the instance last registered as a name

mutex == <<s_mutex_initialized, owner, wait_q>>
confs == <<data, stored, work>>
vars  == <<s_entries, mutex, pc, job, place, ret, confs, bound>>

FreeEntry == [in_use |-> FALSE, name |-> "", ctx |-> NoRecord, io |-> FALSE]
NoJob     == CHOOSE j \in Jobs : TRUE
Cleared   == [k \in Keys |-> 0]

Init ==
  /\ s_entries = [i \in Places |-> FreeEntry]
  /\ s_mutex_initialized = FALSE /\ owner = NoThread /\ wait_q = <<>>
  /\ pc = [t \in Threads |-> "idle"]
  /\ job = [t \in Threads |-> NoJob]
  /\ place = [t \in Threads |-> 1]
  /\ ret = [t \in Threads |-> "none"]
  /\ work = [t \in Threads |-> Cleared]
  /\ data = [c \in Contexts |-> Default]
  /\ stored = [c \in Contexts |-> NoRecord]
  /\ bound = [n \in Names |-> NoRecord]

Goto(t, label) == pc' = [pc EXCEPT ![t] = label]
(* The call returns and its locals end.                                    *)
Return(t) ==
  /\ job' = [job EXCEPT ![t] = NoJob]
  /\ place' = [place EXCEPT ![t] = 1]
  /\ ret' = [ret EXCEPT ![t] = "none"]
  /\ work' = [work EXCEPT ![t] = Cleared]

Leave(t, err)  == Goto(t, "unlock") /\ ret' = [ret EXCEPT ![t] = err]

-----------------------------------------------------------------------------
(* Calls, and shell_mutex_lock.                                            *)

Call(t, j) ==
  /\ pc[t] = "idle"
  /\ s_mutex_initialized \/ t \in Early
  /\ job' = [job EXCEPT ![t] = j]
  /\ Goto(t, "check")
  /\ UNCHANGED <<s_entries, mutex, place, ret, confs, bound>>

(* Mutant: the mutex is initialised by every call.                         *)
CheckInitialized_Always(t) ==
  /\ pc[t] = "check"
  /\ Goto(t, "init")
  /\ UNCHANGED <<s_entries, mutex, job, place, ret, confs, bound>>

CheckInitialized(t) ==
  /\ pc[t] = "check"
  /\ Goto(t, IF s_mutex_initialized THEN "lock" ELSE "init")
  /\ UNCHANGED <<s_entries, mutex, job, place, ret, confs, bound>>

(* Whoever held the mutex or waited for it is forgotten.                   *)
k_mutex_init(t) ==
  /\ pc[t] = "init"
  /\ owner' = NoThread /\ wait_q' = <<>>
  /\ Goto(t, "flag")
  /\ UNCHANGED <<s_entries, s_mutex_initialized, job, place, ret, confs, bound>>

SetInitialized(t) ==
  /\ pc[t] = "flag"
  /\ s_mutex_initialized' = TRUE
  /\ Goto(t, "lock")
  /\ UNCHANGED <<s_entries, owner, wait_q, job, place, ret, confs, bound>>

k_mutex_lock(t) ==
  /\ pc[t] = "lock"
  /\ \/ /\ owner \in {NoThread, t}
        /\ owner' = t /\ Goto(t, "search") /\ UNCHANGED wait_q
     \/ /\ owner \notin {NoThread, t}
        /\ wait_q' = Append(wait_q, t) /\ Goto(t, "wait") /\ UNCHANGED owner
  /\ UNCHANGED <<s_entries, s_mutex_initialized, job, place, ret, confs, bound>>

(* shell_mutex_unlock: the kernel refuses a thread that is not the owner;  *)
(* otherwise the mutex goes to the first waiting thread.                   *)
k_mutex_unlock(t) ==
  /\ pc[t] = "unlock"
  /\ LET holds == s_mutex_initialized /\ owner = t
         woken == {u \in Threads : holds /\ wait_q # <<>> /\ u = Head(wait_q)}
     IN  /\ pc' = [u \in Threads |-> IF u = t THEN "idle"
                                     ELSE IF u \in woken THEN "search" ELSE pc[u]]
         /\ owner' = IF ~ holds THEN owner
                     ELSE IF wait_q = <<>> THEN NoThread ELSE Head(wait_q)
         /\ wait_q' = IF woken = {} THEN wait_q ELSE Tail(wait_q)
  /\ Return(t)
  /\ UNCHANGED <<s_entries, s_mutex_initialized, data, stored, bound>>

-----------------------------------------------------------------------------
(* Registry.                                                               *)

First(S)   == CHOOSE i \in S : \A j \in S : i <= j
Matches(n) == {i \in Places : s_entries[i].in_use /\ s_entries[i].name = n}
Free       == {i \in Places : ~ s_entries[i].in_use}

(* Mutant: a free place is preferred to the entry of that name.            *)
RegisterPlaces_FreeFirst(n) == IF Free # {} THEN Free ELSE Matches(n)

(* An entry of that name is reused, else the first free one is taken.      *)
RegisterPlaces(n) == IF Matches(n) # {} THEN Matches(n) ELSE Free

(* Mutant: the loop variable is used after its increment.                  *)
RegisterSearch_Behind(t) ==
  /\ pc[t] = "search" /\ job[t].cmd = "register"
  /\ RegisterPlaces(job[t].name) # {}
  /\ place' = [place EXCEPT ![t] = First(RegisterPlaces(job[t].name)) + 1]
  /\ Goto(t, "store")
  /\ UNCHANGED <<s_entries, mutex, job, ret, confs, bound>>

(* Both loops of mconf_zephyr_shell_register.                              *)
RegisterSearch(t) ==
  /\ pc[t] = "search" /\ job[t].cmd = "register"
  /\ LET P == RegisterPlaces(job[t].name) IN
     \/ P = {} /\ Leave(t, "ENOMEM") /\ UNCHANGED place
     \/ /\ P # {}
        /\ place' = [place EXCEPT ![t] = First(P)]
        /\ Goto(t, IF s_entries[First(P)].in_use THEN "update" ELSE "store")
        /\ UNCHANGED ret
  /\ UNCHANGED <<s_entries, mutex, job, confs, bound>>

(* The entry that matched gets another instance and keeps its name.        *)
RegisterUpdate(t) ==
  /\ pc[t] = "update"
  /\ LET j == job[t] IN
     /\ s_entries' = [s_entries EXCEPT ![place[t]].ctx = j.ctx, ![place[t]].io = j.io]
     /\ bound' = [bound EXCEPT ![j.name] = j.ctx]
  /\ Leave(t, "OK")
  /\ UNCHANGED <<mutex, job, place, confs>>

(* The free entry is filled.                                               *)
RegisterStore(t) ==
  /\ pc[t] = "store"
  /\ LET j == job[t] IN
     /\ s_entries' = [s_entries EXCEPT ![place[t]] =
          [in_use |-> TRUE, name |-> Cut[j.name], ctx |-> j.ctx, io |-> j.io]]
     /\ bound' = [bound EXCEPT ![j.name] = j.ctx]
  /\ Leave(t, "OK")
  /\ UNCHANGED <<mutex, job, place, confs>>

cmd_mconf_list(t) ==
  /\ pc[t] = "search" /\ job[t].cmd = "list"
  /\ Leave(t, "OK")
  /\ UNCHANGED <<s_entries, mutex, job, place, confs, bound>>

(* Mutant: the mutex is kept when the name is unknown.                     *)
find_shell_entry_locked_Kept(t) ==
  /\ pc[t] = "search" /\ job[t].cmd \notin {"register", "list"}
  /\ LET M == Matches(job[t].name) IN
     \/ M = {} /\ Goto(t, "idle") /\ UNCHANGED <<place, ret>>
     \/ /\ M # {}
        /\ place' = [place EXCEPT ![t] = First(M)]
        /\ Goto(t, "entry") /\ UNCHANGED ret
  /\ UNCHANGED <<s_entries, mutex, job, confs, bound>>

find_shell_entry_locked(t) ==
  /\ pc[t] = "search" /\ job[t].cmd \notin {"register", "list"}
  /\ LET M == Matches(job[t].name) IN
     \/ M = {} /\ Leave(t, "ENOENT") /\ UNCHANGED place
     \/ /\ M # {}
        /\ place' = [place EXCEPT ![t] = First(M)]
        /\ Goto(t, "entry") /\ UNCHANGED ret
  /\ UNCHANGED <<s_entries, mutex, job, confs, bound>>

-----------------------------------------------------------------------------
(* The commands behind the lookup.                                         *)

Entry(t) == s_entries[place[t]]
Ctx(t)   == Entry(t).ctx

(* print_field_value reads the buffer; get fails for an unknown key.       *)
cmd_mconf_dump_get(t) ==
  /\ pc[t] = "entry" /\ job[t].cmd \in {"dump", "get"}
  /\ Leave(t, IF job[t].cmd = "get" /\ job[t].key \notin Keys THEN "ENOENT" ELSE "OK")
  /\ UNCHANGED <<s_entries, mutex, job, place, confs, bound>>

(* strtoul and strtol of the number a: saturated at the width of a long.   *)
strtoul(a) == LET m == ByteMod ^ LongBytes IN
              IF a \in 1 - m .. m - 1 THEN a % m ELSE m - 1
strtol(a)  == LET h == ByteMod ^ LongBytes \div 2 IN
              IF a >= h THEN h - 1 ELSE IF a < -h THEN -h ELSE a

(* The value cmd_mconf_set stores for argument a in an entry of type ty:   *)
(* the number, cut to the width of the field.                              *)
Unsigned(a, width) == strtoul(a) % ByteMod ^ width
Signed(a, width)   == LET u == strtol(a) % ByteMod ^ width IN
                      IF 2 * u >= ByteMod ^ width THEN u - ByteMod ^ width ELSE u

ParsedValue(ty, a) ==
  CASE ty = "bool" -> IF a = 1 THEN 1 ELSE 0
    [] ty = "u8"   -> Unsigned(a, 1)
    [] ty = "u16"  -> Unsigned(a, 2)
    [] ty = "u32"  -> Unsigned(a, 4)
    [] ty = "i32"  -> Signed(a, 4)
    [] OTHER       -> a

SetError(j) ==
  CASE j.key \notin Keys -> "ENOENT"
    [] j.key \in Keys /\ Type[j.key] = "other" -> "ENOTSUP"
    [] j.key \in Keys /\ Type[j.key] = "string" /\ j.arg \in TooLong -> "EINVAL"
    [] OTHER -> "OK"

cmd_mconf_set(t) ==
  /\ pc[t] = "entry" /\ job[t].cmd = "set"
  /\ LET j == job[t] IN
     /\ Leave(t, SetError(j))
     /\ data' = IF SetError(j) = "OK"
                THEN [data EXCEPT ![Ctx(t)][j.key] = ParsedValue(Type[j.key], j.arg)]
                ELSE data
  /\ UNCHANGED <<s_entries, mutex, job, place, stored, work, bound>>

NoBackend(t) ==
  /\ pc[t] = "entry" /\ job[t].cmd \in {"save", "load"}
  /\ ~ Entry(t).io
  /\ Leave(t, "ENODEV")
  /\ UNCHANGED <<s_entries, mutex, job, place, confs, bound>>

(* Mutant: the mutex is released for the duration of mconf_save.           *)
SaveBegin_Unlocked(t) ==
  /\ pc[t] = "entry" /\ job[t].cmd = "save" /\ Entry(t).io
  /\ work' = [work EXCEPT ![t] = data[Ctx(t)]]
  /\ \/ /\ owner = t /\ wait_q = <<>>
        /\ owner' = NoThread /\ Goto(t, "in_call") /\ UNCHANGED wait_q
     \/ /\ owner = t /\ wait_q # <<>>
        /\ owner' = Head(wait_q) /\ wait_q' = Tail(wait_q)
        /\ pc' = [pc EXCEPT ![t] = "in_call", ![Head(wait_q)] = "search"]
  /\ UNCHANGED <<s_entries, s_mutex_initialized, job, place, ret, data, stored, bound>>

(* A cleared buffer into which the given fields of d have been decoded.    *)
Partly(decoded, d) == [k \in Keys |-> IF k \in decoded THEN d[k] ELSE 0]

(* mconf_save encodes the buffer.                                          *)
SaveBegin(t) ==
  /\ pc[t] = "entry" /\ job[t].cmd = "save" /\ Entry(t).io
  /\ work' = [work EXCEPT ![t] = data[Ctx(t)]]
  /\ Goto(t, "in_call")
  /\ UNCHANGED <<s_entries, mutex, job, place, ret, data, stored, bound>>

(* Its verification decodes the record into the buffer; a failing callback *)
(* leaves the buffer as it was, or with the fields decoded so far and the  *)
(* others cleared, and a commit write that reports a failure may have      *)
(* taken effect.                                                           *)
SaveEnd(t) ==
  /\ pc[t] = "in_call" /\ job[t].cmd = "save"
  /\ \/ /\ data' = [data EXCEPT ![Ctx(t)] = work[t]]
        /\ stored' = [stored EXCEPT ![Ctx(t)] = work[t]]
        /\ Leave(t, "OK")
     \/ /\ IoFails
        /\ \/ UNCHANGED data
           \/ \E decoded \in SUBSET Keys :
                data' = [data EXCEPT ![Ctx(t)] = Partly(decoded, work[t])]
        /\ stored' \in {stored, [stored EXCEPT ![Ctx(t)] = work[t]]}
        /\ Leave(t, "EIO")
  /\ UNCHANGED <<s_entries, mutex, job, place, work, bound>>

(* mconf_load and mconf_load_defaults clear the buffer before they fill it.*)
FillBegin(t) ==
  /\ pc[t] = "entry"
  /\ job[t].cmd = "defaults" \/ (job[t].cmd = "load" /\ Entry(t).io)
  /\ data' = [data EXCEPT ![Ctx(t)] = Cleared]
  /\ Goto(t, "in_call")
  /\ UNCHANGED <<s_entries, mutex, job, place, ret, stored, work, bound>>

LoadEnd(t) ==
  /\ pc[t] = "in_call" /\ job[t].cmd = "load"
  /\ \/ /\ stored[Ctx(t)] # NoRecord
        /\ data' = [data EXCEPT ![Ctx(t)] = stored[Ctx(t)]] /\ Leave(t, "OK")
     \/ /\ stored[Ctx(t)] = NoRecord \/ IoFails
        /\ data' = [data EXCEPT ![Ctx(t)] = Default] /\ Leave(t, "EIO")
  /\ UNCHANGED <<s_entries, mutex, job, place, stored, work, bound>>

DefaultsEnd(t) ==
  /\ pc[t] = "in_call" /\ job[t].cmd = "defaults"
  /\ data' = [data EXCEPT ![Ctx(t)] = Default]
  /\ Leave(t, "OK")
  /\ UNCHANGED <<s_entries, mutex, job, place, stored, work, bound>>

-----------------------------------------------------------------------------
(* One step of the call thread t is in.                                    *)
Step(t) ==
  \/ CheckInitialized(t) \/ k_mutex_init(t) \/ SetInitialized(t)
  \/ k_mutex_lock(t) \/ k_mutex_unlock(t)
  \/ RegisterSearch(t) \/ RegisterUpdate(t) \/ RegisterStore(t) \/ cmd_mconf_list(t)
  \/ find_shell_entry_locked(t) \/ cmd_mconf_dump_get(t) \/ cmd_mconf_set(t)
  \/ NoBackend(t) \/ SaveBegin(t) \/ SaveEnd(t)
  \/ FillBegin(t) \/ LoadEnd(t) \/ DefaultsEnd(t)

Next == \E t \in Threads : (\E j \in Jobs : Call(t, j)) \/ Step(t)

Spec == Init /\ [][Next]_vars

(* The scheduler runs every thread that can run: a thread inside a call    *)
(* proceeds; none has to make another call.                                *)
FairSpec == Spec /\ \A t \in Threads : WF_vars(Step(t))

-----------------------------------------------------------------------------
(* Properties.                                                             *)

Labels == {"idle", "check", "init", "flag", "lock", "wait", "search", "update",
           "store", "entry", "in_call", "unlock"}

Returns == {"none", "OK", "EINVAL", "ENOMEM", "ENOENT", "ENOTSUP", "ENODEV", "EIO"}

Registration == [in_use : BOOLEAN, name : {""} \cup {Cut[n] : n \in Names},
                 ctx : Contexts \cup {NoRecord}, io : BOOLEAN]

TypeOK ==
  /\ s_entries \in [Places -> Registration]
  /\ s_mutex_initialized \in BOOLEAN
  /\ owner \in Threads \cup {NoThread}
  /\ wait_q \in Seq(Threads)
  /\ pc \in [Threads -> Labels]
  /\ job \in [Threads -> Jobs]
  /\ place \in [Threads -> Places]
  /\ ret \in [Threads -> Returns]
  /\ work \in [Threads -> Config]
  /\ data \in [Contexts -> Config]
  /\ stored \in [Contexts -> Config \cup {NoRecord}]
  /\ bound \in [Names -> Contexts \cup {NoRecord}]

(* Between shell_mutex_lock and shell_mutex_unlock.                        *)
Critical(t) == pc[t] \in {"search", "update", "store", "entry", "in_call", "unlock"}

(* Whoever looks an entry up, fills it or works on its context holds       *)
(* s_shell_mutex, as find_shell_entry_locked asks of its callers.          *)
AccessHoldsMutex == \A t \in Threads : Critical(t) => owner = t

(* What the mutex is for: two threads are never inside library calls on    *)
(* one context, so the serialization docs/DESIGN.md asks of the caller     *)
(* holds for the shell.                                                    *)
ContextsSerialized ==
  \A t, u \in Threads :
    t # u /\ {pc[t], pc[u]} \subseteq {"entry", "in_call"} => Ctx(t) # Ctx(u)

(* A successful registration is what a command with that name finds from   *)
(* then on, until the name is registered again: the registry with its cut  *)
(* names and its four places is a dictionary.                              *)
RegisteredIsFound ==
  \A n \in Names : bound[n] # NoRecord =>
    /\ Matches(n) # {}
    /\ s_entries[First(Matches(n))].ctx = bound[n]

(* A save stores the configuration that is in the buffer at its commit: no *)
(* update that slipped in between is left out of the record and undone in  *)
(* the buffer by the verification.                                         *)
SaveTakesLatest ==
  [][\A c \in Contexts : stored'[c] # stored[c] => stored'[c] = data[c]]_vars

(* Every call returns, on every error path and however many threads wait.  *)
CallsReturn == \A t \in Threads : pc[t] # "idle" ~> pc[t] = "idle"
=============================================================================

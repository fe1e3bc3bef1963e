------------------------------ MODULE MCShell ------------------------------
(* Small values for the constants of MconfShell.                           *)
EXTENDS MconfShell

MCKeys    == {"k", "b", "s"}
MCType    == [k \in MCKeys |-> CASE k = "k" -> "u8" [] k = "s" -> "string" [] OTHER -> "other"]
MCDefault == [k \in MCKeys |-> IF k = "k" THEN 1 ELSE 0]
MCCut     == [n \in Names |-> IF n = "long" THEN "cut" ELSE n]

Job(cmd, name, key, arg, ctx, io) ==
  [cmd |-> cmd, name |-> name, key |-> key, arg |-> arg, ctx |-> ctx, io |-> io]

On(cmd, name) == Job(cmd, name, "k", 0, "c1", TRUE)

(* Every command, with names and keys that exist or not, for two threads.  *)
MCJobs ==
  {Job("register", r[1], "k", 0, r[2], r[3]) :
     r \in {<<"a", "c1", TRUE>>, <<"a", "c2", FALSE>>, <<"b", "c1", TRUE>>,
            <<"d", "c1", TRUE>>}}
  \cup {On(c, "a") : c \in {"list", "dump", "get", "save", "load", "defaults"}}
  \cup {Job(c, "a", k, 0, "c1", TRUE) : c \in {"get", "set"}, k \in {"k", "b", "missing"}}
  \cup {Job("set", "a", "s", 9, "c1", TRUE)}

(* What matters for the mutex, for threads that all come first.            *)
MCJobsRace ==
  {Job("register", "a", "k", 0, "c1", TRUE), On("save", "a"), On("list", "a"),
   On("set", "b")}
=============================================================================

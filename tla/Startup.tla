------------------------------- MODULE Startup -------------------------------
(***************************************************************************)
(* The start of the server (main.go) over a database that keeps what       *)
(* earlier starts have done: migration, the settings row, the seeds, and   *)
(* then the goroutines of the static tables and the web API.  The process  *)
(* may end at any step and is started again.                               *)
(***************************************************************************)
EXTENDS StaticDB

CONSTANT MaxDeaths     \* bound: ends of the process, but for main's own

ASSUME StartupAssumption == MaxDeaths \in Nat

VARIABLES
    pc,           \* where main is
    settings,     \* the AppSettings row: "none", or whether it HasSeeded
    users,        \* the seeded users: "none", one of them "there", or all "deleted"
    talkgroup,    \* the seeded talkgroup, likewise
    interrupted,  \* history: a start has seeded and has not been able to say so
    deaths        \* ends of the process, but for main's own, for the bound only

mainVars == <<pc, settings, users, talkgroup, interrupted, deaths>>
vars     == <<dbVars, mainVars>>

\* The process goes on, or dies of a panic, an empty download or a crash.
Dies ==
    /\ alive' \/ deaths < MaxDeaths
    /\ deaths' = IF alive' THEN deaths ELSE deaths + 1

\* The process ends, and is started anew.
Exit == alive' = FALSE /\ UNCHANGED <<table, raw, list, made, map, partial, task, updates>>

----------------------------------------------------------------------------
\* Mutant of First: a row is taken for seeds.
FirstTrusts ==
    /\ pc = "first"
    /\ pc' = IF settings = "none" THEN "create" ELSE "start"
    /\ UNCHANGED <<dbVars, settings, users, talkgroup, interrupted, deaths>>

\* Mutant of First: what the row says is not looked at.
FirstForgets ==
    /\ pc = "first"
    /\ pc' = IF settings = "none" THEN "create" ELSE "users"
    /\ UNCHANGED <<dbVars, settings, users, talkgroup, interrupted, deaths>>

\* InitDB: the first row of the settings, whose table has been migrated.
First ==
    /\ pc = "first"
    /\ pc' = IF settings = "none" THEN "create"
             ELSE IF settings = "seeded" THEN "start" ELSE "users"
    /\ UNCHANGED <<dbVars, settings, users, talkgroup, interrupted, deaths>>

\* Without a row the other tables are migrated and the row created; whether it
\* could be is not looked at.
Create ==
    /\ pc = "create"
    /\ settings' \in {"none", "unseeded"}
    /\ pc' = "users"
    /\ UNCHANGED <<dbVars, users, talkgroup, interrupted, deaths>>

\* The users and then the talkgroup are created; a duplicate ends the process.
SeedUsers ==
    /\ pc = "users"
    /\ IF users = "there"
       THEN Exit /\ UNCHANGED <<users, pc>>
       ELSE users' = "there" /\ pc' = "talkgroups" /\ UNCHANGED dbVars
    /\ UNCHANGED <<settings, talkgroup, interrupted, deaths>>

SeedTalkgroups ==
    /\ pc = "talkgroups"
    /\ IF talkgroup = "there"
       THEN Exit /\ UNCHANGED <<talkgroup, pc>>
       ELSE talkgroup' = "there" /\ pc' = "save" /\ UNCHANGED dbVars
    /\ UNCHANGED <<settings, users, interrupted, deaths>>

\* Mutant of SaveSettings: the copy is changed and not saved.
SaveNothing ==
    /\ pc = "save"
    /\ pc' = "start"
    /\ UNCHANGED <<dbVars, settings, interrupted, users, talkgroup, deaths>>

\* HasSeeded is saved; whether it could be is not looked at.
SaveSettings ==
    /\ pc = "save"
    /\ \/ settings' = "seeded" /\ UNCHANGED interrupted
       \/ UNCHANGED settings /\ interrupted' = TRUE
    /\ pc' = "start"
    /\ UNCHANGED <<dbVars, users, talkgroup, deaths>>

\* The goroutine that decodes and updates the static table is started, then the
\* scheduler, the DMR server and the web server.
Start ==
    /\ pc = "start"
    /\ task' = [task EXCEPT !["starter"].pc = "check"]
    /\ pc' = "schedule"
    /\ UNCHANGED <<table, raw, list, made, map, partial, updates, alive, settings, users,
                   talkgroup, interrupted, deaths>>

Serve ==
    /\ pc = "schedule"
    /\ pc' = "up"
    /\ UNCHANGED <<dbVars, settings, users, talkgroup, interrupted, deaths>>

\* The super admin deletes the seeded users, the own account last, ...
DeleteUsers ==
    /\ pc = "up" /\ users = "there"
    /\ users' = "deleted"
    /\ UNCHANGED <<dbVars, pc, settings, talkgroup, interrupted, deaths>>

\* ... and an administrator the talkgroup.
DeleteTalkgroup ==
    /\ pc = "up" /\ talkgroup = "there"
    /\ talkgroup' = "deleted"
    /\ UNCHANGED <<dbVars, pc, settings, users, interrupted, deaths>>

Crash ==
    /\ Exit
    /\ Dies
    /\ interrupted' = (interrupted \/ pc \in {"talkgroups", "save"})
    /\ UNCHANGED <<pc, settings, users, talkgroup>>

Restart ==
    /\ ~alive
    /\ alive' = TRUE
    /\ raw' = Garbled /\ list' = <<>> /\ made' = FALSE /\ map' = {} /\ partial' = FALSE
    /\ task' = [t \in Tasks |-> Idle]
    /\ pc' = "first"
    /\ UNCHANGED <<table, updates, settings, users, talkgroup, interrupted, deaths>>

----------------------------------------------------------------------------
Init ==
    /\ table \in {"repeaters", "users"}
    /\ raw = Garbled /\ list = <<>> /\ made = FALSE /\ map = {} /\ partial = FALSE
    /\ task = [t \in Tasks |-> Idle]
    /\ updates = 0
    /\ alive = TRUE
    /\ pc = "first"
    /\ settings = "none"
    /\ users = "none" /\ talkgroup = "none"
    /\ interrupted = FALSE
    /\ deaths = 0

Main ==
    \/ First
    \/ Create
    \/ SeedUsers
    \/ SeedTalkgroups
    \/ SaveSettings
    \/ Start
    \/ Serve

Static ==
    /\ \/ \E t \in Tasks : Work(t)
       \/ pc \in {"schedule", "up"} /\ Daily
       \/ \E t \in Requests : pc = "up" /\ Request(t)
       \/ MapAbort
    /\ Dies
    /\ UNCHANGED <<pc, settings, users, talkgroup, interrupted>>

Next ==
    \/ alive /\ (Main \/ DeleteUsers \/ DeleteTalkgroup \/ Crash)
    \/ alive /\ Static
    \/ Restart

Spec == Init /\ [][Next]_vars

\* The process runs, and is started again when it has ended.
Fairness ==
    /\ WF_vars(alive /\ Main)
    /\ WF_vars(Restart)

FairSpec == Spec /\ Fairness

----------------------------------------------------------------------------
(* Properties. *)

\* The database, and main's variables.
TypeOK ==
    /\ StaticTypeOK
    /\ pc \in {"first", "create", "users", "talkgroups", "save", "start", "schedule", "up"}
    /\ settings \in {"none", "unseeded", "seeded"}
    /\ {users, talkgroup} \subseteq {"none", "there", "deleted"}
    /\ interrupted \in BOOLEAN
    /\ deaths \in 0..MaxDeaths

\* The server serves only a database that has been seeded, whichever start it was
\* that did it (main.go:164).
ServesSeeded ==
    pc \in {"start", "schedule", "up"} => users # "none" /\ talkgroup # "none"

\* What has been deleted stays deleted: no later start seeds it again (main.go:162),
\* unless an earlier one was cut off between seeding and saving that it had.
SeedsOnce ==
    [][~interrupted => /\ users = "deleted" => users' = "deleted"
                       /\ talkgroup = "deleted" => talkgroup' = "deleted"]_vars

\* A start seeds again what is there, and exits, only after one that was cut off.
FailsOnlyInterrupted ==
    \/ pc = "users" /\ users = "there"
    \/ pc = "talkgroups" /\ talkgroup = "there"
    => interrupted

\* The inductive invariant.  What main has come to says what is seeded, ...
SeedsFollow ==
    /\ talkgroup # "none" => users # "none"
    /\ settings = "seeded" => talkgroup # "none"
    /\ pc \in {"create", "users", "talkgroups", "save"} => settings # "seeded"
    /\ pc = "talkgroups" => users = "there" /\ (talkgroup = "none" \/ interrupted)
    /\ pc = "save" => users = "there" /\ talkgroup = "there"

\* ... seeds without the flag are of a start that is at it or was cut off, ...
FlagFollows ==
    users # "none" /\ settings # "seeded" =>
        interrupted \/ (alive /\ pc \in {"talkgroups", "save"})

\* ... and nothing can end the process there but a crash: no other goroutine runs
\* before main starts it.
NothingRunsYet == pc \notin {"schedule", "up"} => \A t \in Tasks : task[t].pc = "idle"

StartupInv == SeedsFollow /\ FlagFollows /\ NothingRunsYet /\ ServesSeeded

\* Every start comes to serve, unless one was cut off there.
ComesUp == ~interrupted ~> (alive /\ pc = "up") \/ interrupted

\* Every start comes to serve.  (Violated: the seeds that a start has left without
\* the flag are duplicates to every later one.)
AlwaysComesUp == []<>(alive /\ pc = "up")
=============================================================================

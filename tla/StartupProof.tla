---------------------------- MODULE StartupProof ----------------------------
(***************************************************************************)
(* For any lists, requests and number of ends of the process: what main    *)
(* has come to says what the database holds, however often it is started,  *)
(* and whoever decodes and fills a static table at the same time, the map  *)
(* holds the list once they are done.                                      *)
(***************************************************************************)
EXTENDS Startup, SequenceTheorems, TLAPS

\* The web API, the scheduler and the static tables leave the database and main
\* alone, and run only when main has started them.
LEMMA StaticStays ==
    ASSUME StartupInv, alive, Static
    PROVE  StartupInv' /\ UNCHANGED <<users, talkgroup>>
<1>1. pc' = pc /\ UNCHANGED <<settings, users, talkgroup, interrupted>>
  BY DEF Static
<1>2. pc \in {"schedule", "up"}
  <2>1. ASSUME pc \notin {"schedule", "up"} PROVE FALSE
    <3>1. \A t \in Tasks : task[t].pc = "idle"
      BY <2>1 DEF StartupInv, NothingRunsYet
    <3>2. \A t \in Tasks : ~Work(t)
      BY <3>1 DEF Work, Check, Read, Fetch, Decode, Begin, Fill, Answer
    <3>3. ~MapAbort
      BY <3>1 DEF MapAbort, Writes
    <3>4. QED BY <2>1, <3>2, <3>3 DEF Static
  <2>2. QED BY <2>1
<1>3. QED
  BY <1>1, <1>2 DEF StartupInv, SeedsFollow, FlagFollows, NothingRunsYet, ServesSeeded

\* A step seeds nothing that has been deleted, unless a start was cut off.
StaysDeleted ==
    ~interrupted => /\ users = "deleted" => users' = "deleted"
                    /\ talkgroup = "deleted" => talkgroup' = "deleted"

\* Every step of main keeps the invariant.
LEMMA MainKeeps ==
    ASSUME StartupInv, alive, Main
    PROVE  StartupInv' /\ StaysDeleted
<1> USE DEF StartupInv, SeedsFollow, FlagFollows, NothingRunsYet, ServesSeeded, StaysDeleted
<1>1. CASE First
  BY <1>1 DEF First, dbVars
<1>2. CASE Create
  BY <1>2 DEF Create, dbVars
<1>3. CASE SeedUsers
  <2>1. CASE users = "there"
    BY <1>3, <2>1 DEF SeedUsers, Exit
  <2>2. CASE users # "there"
    BY <1>3, <2>2 DEF SeedUsers, dbVars
  <2>3. QED BY <2>1, <2>2
<1>4. CASE SeedTalkgroups
  <2>1. CASE talkgroup = "there"
    BY <1>4, <2>1 DEF SeedTalkgroups, Exit
  <2>2. CASE talkgroup # "there"
    BY <1>4, <2>2 DEF SeedTalkgroups, dbVars
  <2>3. QED BY <2>1, <2>2
<1>5. CASE SaveSettings
  BY <1>5 DEF SaveSettings, dbVars
<1>6. CASE Start
  BY <1>6 DEF Start
<1>7. CASE Serve
  BY <1>7 DEF Serve, dbVars
<1>8. QED BY <1>1, <1>2, <1>3, <1>4, <1>5, <1>6, <1>7 DEF Main

LEMMA NextKeeps ==
    ASSUME StartupInv, [Next]_vars
    PROVE  StartupInv' /\ StaysDeleted
<1> USE DEF StartupInv, SeedsFollow, FlagFollows, NothingRunsYet, ServesSeeded, StaysDeleted
<1>1. CASE alive /\ Main
  BY <1>1, MainKeeps
<1>2. CASE alive /\ (DeleteUsers \/ DeleteTalkgroup)
  <2>1. CASE DeleteUsers
    BY <2>1 DEF DeleteUsers, dbVars
  <2>2. CASE DeleteTalkgroup
    BY <2>2 DEF DeleteTalkgroup, dbVars
  <2>3. QED BY <1>2, <2>1, <2>2
<1>3. CASE alive /\ Crash
  BY <1>3 DEF Crash, Exit
<1>4. CASE alive /\ Static
  BY <1>4, StaticStays
<1>5. CASE Restart
  BY <1>5 DEF Restart, Idle
<1>6. CASE UNCHANGED vars
  BY <1>6 DEF vars, dbVars, mainVars
<1>7. QED BY <1>1, <1>2, <1>3, <1>4, <1>5, <1>6 DEF Next

\* What is seeded and flagged follows from where main is, over any number of starts.
THEOREM StartupInvariant == Spec => []StartupInv
<1>1. Init => StartupInv
  BY DEF Init, Idle, StartupInv, SeedsFollow, FlagFollows, NothingRunsYet, ServesSeeded
<1>2. StartupInv /\ [Next]_vars => StartupInv'
  BY NextKeeps
<1>3. QED BY <1>1, <1>2, PTL DEF Spec

\* The server only serves a seeded database (main.go:164).
THEOREM SeededWhenServing == Spec => []ServesSeeded
<1>1. StartupInv => ServesSeeded
  BY DEF StartupInv
<1>2. QED BY <1>1, StartupInvariant, PTL

\* Seeding fails on duplicates only after a start that was cut off between seeding
\* and saving the flag, or could not save it (main.go:175).
THEOREM OnlyInterruptedFail == Spec => []FailsOnlyInterrupted
<1>1. StartupInv => FailsOnlyInterrupted
  BY DEF StartupInv, SeedsFollow, FlagFollows, FailsOnlyInterrupted
<1>2. QED BY <1>1, StartupInvariant, PTL

\* The seeded users and the talkgroup are not seeded again once they are deleted,
\* unless a start was cut off between seeding and saving the flag (main.go:162).
THEOREM DeletedStaysDeleted == Spec => SeedsOnce
<1>1. StartupInv /\ [Next]_vars =>
        [~interrupted => /\ users = "deleted" => users' = "deleted"
                         /\ talkgroup = "deleted" => talkgroup' = "deleted"]_vars
  BY NextKeeps DEF StaysDeleted
<1>2. QED BY <1>1, StartupInvariant, PTL DEF Spec, SeedsOnce

----------------------------------------------------------------------------
(* Types. *)

Steps == {"idle", "check", "read", "fetch", "decode", "begin", "fill", "answer", "done"}

LEMMA SomeSteps ==
    /\ "check" \in Steps /\ "fetch" \in Steps /\ "decode" \in Steps /\ "begin" \in Steps
    /\ "fill" \in Steps /\ "answer" \in Steps /\ "done" \in Steps
BY DEF Steps

Raws == {Json(BuiltIn)} \cup Fetched

LEMMA RawLists ==
    ASSUME NEW x \in Raws, x.kind # "garbled"
    PROVE  x.list \in Lists
BY DEF Raws, Fetched, Json, Mistyped, Garbled, Lists

\* A list is a sequence of IDs.
LEMMA ListsOfIDs ==
    ASSUME NEW l \in Lists \cup {<<>>}
    PROVE  /\ Len(l) \in Nat /\ DOMAIN l = 1..Len(l)
           /\ \A i \in 1..Len(l) : l[i] \in IDs /\ l[i] \in Listed(l)
           /\ Listed(l) = {l[i] : i \in 1..Len(l)}
<1>1. l \in Seq(Listed(l))
  <2>1. CASE l \in Lists
    BY <2>1, StaticAssumption
  <2>2. CASE l = <<>>
    BY <2>2
  <2>3. QED BY <2>1, <2>2
<1>2. Len(l) \in Nat /\ DOMAIN l = 1..Len(l)
  BY <1>1, LenProperties
<1>3. \A i \in 1..Len(l) : l[i] \in Listed(l)
  BY <1>2 DEF Listed
<1>4. Listed(l) \subseteq IDs
  <2>1. CASE l \in Lists
    BY <2>1 DEF Lists, IDs
  <2>2. CASE l = <<>>
    BY <2>2, <1>2 DEF Listed
  <2>3. QED BY <2>1, <2>2
<1>5. QED BY <1>2, <1>3, <1>4 DEF Listed

\* Only t has changed, and is at x.
Moved(f, g, t, x) ==
    /\ g \in [Tasks -> Task]
    /\ \A u \in Tasks \ {t} : g[u] = f[u]
    /\ g[t].pc = x

\* ... with the job and the loop it had.
Same(f, g, t) == g[t].job = f[t].job /\ g[t].next = f[t].next /\ g[t].last = f[t].last

\* A goroutine that goes on to x, its job and its loop as they are.
LEMMA GoesOn ==
    ASSUME NEW f \in [Tasks -> Task], NEW t \in Tasks, NEW x \in Steps,
           NEW g, g = [f EXCEPT ![t].pc = x]
    PROVE  Moved(f, g, t, x) /\ Same(f, g, t)
BY DEF Task, Steps, Moved, Same

\* The same for one that takes up a job.
LEMMA TakesUp ==
    ASSUME NEW f \in [Tasks -> Task], NEW t \in Tasks, NEW x \in Steps,
           NEW j \in {"get", "update"}, NEW g, g = [f EXCEPT ![t].job = j, ![t].pc = x]
    PROVE  Moved(f, g, t, x) /\ g[t].job = j
BY DEF Task, Steps, Moved

----------------------------------------------------------------------------
(* The list and the map. *)

StaticInv == StaticTypeOK /\ GettersMake /\ ListIsFilled

\* The entries that are put into the map are those of the list.
LEMMA EntriesAreListed ==
    ASSUME NEW l \in Lists \cup {<<>>}
    PROVE  Entries(l) = {l[i] : i \in {j \in 1..Len(l) : Numbered(l[j])}}
BY ListsOfIDs DEF Entries

\* Who is not at the list may do what it will.
LEMMA OthersFill ==
    ASSUME ListIsFilled, NEW t \in Tasks, task[t].pc # "begin", ~FillsList(t),
           \A u \in Tasks \ {t} : task'[u] = task[u],
           UNCHANGED <<table, list, partial>>, map \subseteq map', alive' => alive
    PROVE  ListIsFilled'
<1>0. Entries(list)' = Entries(list) /\ \A x : Numbered(x)' = Numbered(x)
  BY DEF Entries, Numbered, Listed
<1> SUFFICES ASSUME alive', ~partial
             PROVE  \/ \E u \in Tasks : task'[u].pc = "begin" \/ FillsList(u)'
                    \/ Entries(list) \subseteq map'
  BY <1>0 DEF ListIsFilled
<1>1. CASE Entries(list) \subseteq map
  BY <1>1
<1>2. CASE \E u \in Tasks : task[u].pc = "begin" \/ FillsList(u)
  <2>1. PICK u \in Tasks : task[u].pc = "begin" \/ FillsList(u)
    BY <1>2
  <2>2. u # t /\ task'[u] = task[u]
    BY <2>1
  <2>3. task'[u].pc = "begin" \/ FillsList(u)'
    BY <1>0, <2>1, <2>2 DEF FillsList
  <2>4. QED BY <2>3
<1>3. QED BY <1>1, <1>2 DEF ListIsFilled

\* A step of one goroutine, t, that leaves the list and the map alone and goes on
\* to something else than to begin or fill.
LEMMA StepsAside ==
    ASSUME StaticInv, NEW t \in Tasks, task[t].pc \notin {"begin", "fill"},
           task' \in [Tasks -> Task], \A u \in Tasks \ {t} : task'[u] = task[u],
           task'[t].pc # "fill", t \in Requests => task'[t].job = "get" /\ task'[t].pc # "fetch",
           raw' \in Raws, updates' \in 0..MaxUpdates,
           alive' \in BOOLEAN, alive' => alive, UNCHANGED <<table, list, made, map, partial>>
    PROVE  StaticInv'
<1>1. StaticTypeOK'
  BY DEF StaticInv, StaticTypeOK, Raws, Fetched
<1>2. GettersMake'
  BY DEF StaticInv, GettersMake, Tasks
<1>3. ListIsFilled'
  BY OthersFill DEF StaticInv, FillsList
<1>4. QED BY <1>1, <1>2, <1>3 DEF StaticInv

LEMMA CheckKeeps ==
    ASSUME StaticInv, alive, NEW t \in Tasks, Check(t)
    PROVE  StaticInv'
<1>1. /\ task \in [Tasks -> Task] /\ raw \in Raws
      /\ updates \in 0..MaxUpdates /\ alive \in BOOLEAN
  BY DEF StaticInv, StaticTypeOK, Raws
<1> DEFINE x == IF list = <<>> THEN "read" ELSE AfterGet(t)
<1>2. x \in Steps \ {"fill", "begin"} /\ (t \in Requests => x # "fetch")
  BY StaticAssumption DEF AfterGet, Steps
<1>3. /\ task[t].pc = "check" /\ task' = [task EXCEPT ![t].job = "get", ![t].pc = x]
      /\ UNCHANGED <<table, raw, list, made, map, partial, updates, alive>>
  BY DEF Check
<1> HIDE DEF x
<1>4. Moved(task, task', t, x) /\ task'[t].job = "get"
  <2>1. x \in Steps
    BY <1>2
  <2>2. task' = [task EXCEPT ![t].job = "get", ![t].pc = x] /\ task \in [Tasks -> Task]
    BY <1>1, <1>3
  <2>3. QED BY <2>1, <2>2 DEF Moved, Task, Steps
<1>5. QED BY <1>1, <1>2, <1>3, <1>4, StepsAside DEF Moved, Same

LEMMA ReadKeeps ==
    ASSUME StaticInv, alive, NEW t \in Tasks, Read(t)
    PROVE  StaticInv'
<1>1. /\ task \in [Tasks -> Task] /\ updates \in 0..MaxUpdates /\ alive \in BOOLEAN
      /\ t \in Requests => task[t].job = "get"
  BY DEF StaticInv, StaticTypeOK, Raws, GettersMake
<1>2. /\ task[t].pc = "read" /\ task' = [task EXCEPT ![t].pc = "decode"]
      /\ raw' = Json(BuiltIn) /\ UNCHANGED <<table, list, made, map, partial, updates, alive>>
  BY DEF Read
<1>3. Moved(task, task', t, "decode") /\ Same(task, task', t)
  BY <1>1, <1>2, GoesOn, SomeSteps
<1>4. raw' \in Raws
  BY <1>2 DEF Raws
<1>5. QED BY <1>1, <1>2, <1>3, <1>4, StepsAside DEF Moved, Same

LEMMA AnswerKeeps ==
    ASSUME StaticInv, alive, NEW t \in Tasks, Answer(t)
    PROVE  StaticInv'
<1>1. /\ task \in [Tasks -> Task] /\ raw \in Raws
      /\ updates \in 0..MaxUpdates /\ alive \in BOOLEAN
      /\ t \in Requests => task[t].job = "get"
  BY DEF StaticInv, StaticTypeOK, Raws, GettersMake
<1>2. /\ task[t].pc = "answer" /\ task' = [task EXCEPT ![t].pc = "done"]
      /\ UNCHANGED <<table, raw, list, made, map, partial, updates, alive>>
  BY DEF Answer
<1>3. Moved(task, task', t, "done") /\ Same(task, task', t)
  BY <1>1, <1>2, GoesOn, SomeSteps
<1>4. QED BY <1>1, <1>2, <1>3, StepsAside DEF Moved, Same

LEMMA FetchKeeps ==
    ASSUME StaticInv, alive, NEW t \in Tasks, Fetch(t)
    PROVE  StaticInv'
<1>1. /\ task \in [Tasks -> Task] /\ raw \in Raws
      /\ updates \in 0..MaxUpdates /\ alive \in BOOLEAN /\ task[t].pc = "fetch"
      /\ t \notin Requests /\ UNCHANGED <<table, list, made, map, partial, updates, alive>>
  BY DEF StaticInv, StaticTypeOK, Raws, GettersMake, Fetch
<1>2. raw' \in Raws
  <2>1. Fetched \subseteq Raws /\ Garbled \in Fetched
    BY DEF Raws, Fetched
  <2>2. raw' = raw \/ raw' \in Fetched \cup {Garbled}
    BY DEF Fetch
  <2>3. QED BY <1>1, <2>1, <2>2
<1>3. CASE task' = [task EXCEPT ![t].pc = "done"]
  <2>1. Moved(task, task', t, "done")
    BY <1>1, <1>3, GoesOn, SomeSteps
  <2>2. QED BY <1>1, <1>2, <2>1, StepsAside DEF Moved
<1>4. CASE task' = [task EXCEPT ![t].job = "update", ![t].pc = "decode"]
  <2>1. Moved(task, task', t, "decode")
    BY <1>1, <1>4, TakesUp, SomeSteps
  <2>2. QED BY <1>1, <1>2, <2>1, StepsAside DEF Moved
<1>5. QED BY <1>3, <1>4 DEF Fetch

LEMMA DecodeKeeps ==
    ASSUME StaticInv, alive, NEW t \in Tasks, Decode(t)
    PROVE  StaticInv'
<1>1. /\ task \in [Tasks -> Task] /\ raw \in Raws /\ partial \in BOOLEAN
      /\ alive \in BOOLEAN /\ task[t].pc = "decode" /\ list \in Lists \cup {<<>>}
      /\ IF raw.kind = "garbled"
         THEN UNCHANGED <<list, partial>>
         ELSE list' = raw.list /\ partial' = (raw.kind = "mistyped")
      /\ UNCHANGED <<table, raw, made, map, updates>>
  BY DEF StaticInv, StaticTypeOK, Raws, Decode
<1>2. list' \in Lists \cup {<<>>} /\ partial' \in BOOLEAN
  BY <1>1, RawLists
<1>3. ASSUME NEW x \in Steps \ {"fill", "fetch"}, Moved(task, task', t, x), Same(task, task', t),
             alive' \in BOOLEAN
      PROVE  StaticTypeOK' /\ GettersMake'
  <2>1. StaticTypeOK'
    BY <1>1, <1>2, <1>3 DEF StaticInv, StaticTypeOK, Raws, Fetched, Moved
  <2>2. GettersMake'
    BY <1>1, <1>3 DEF StaticInv, GettersMake, Moved, Same, Tasks
  <2>3. QED BY <2>1, <2>2
<1>4. CASE task' = [task EXCEPT ![t].pc = "begin"] /\ UNCHANGED alive
  <2>1. Moved(task, task', t, "begin") /\ Same(task, task', t)
    BY <1>1, <1>4, GoesOn, SomeSteps
  <2>2. StaticTypeOK' /\ GettersMake'
    BY <1>1, <1>3, <1>4, <2>1, SomeSteps
  <2>3. ListIsFilled'
    BY <2>1 DEF ListIsFilled, Moved
  <2>4. QED BY <2>2, <2>3 DEF StaticInv
<1>5. CASE Quit(t)
  <2>1. task' = [task EXCEPT ![t].pc = "done"] /\ alive' = FALSE
    BY <1>5 DEF Quit
  <2>2. Moved(task, task', t, "done") /\ Same(task, task', t)
    BY <1>1, <2>1, GoesOn, SomeSteps
  <2>3. StaticTypeOK' /\ GettersMake'
    BY <1>3, <2>1, <2>2, SomeSteps
  <2>4. ListIsFilled'
    BY <2>1 DEF ListIsFilled
  <2>5. QED BY <2>3, <2>4 DEF StaticInv
<1>6. CASE raw.kind # "valid" /\ task' = [task EXCEPT ![t].pc = "done"] /\ UNCHANGED alive
  <2>1. Moved(task, task', t, "done") /\ Same(task, task', t)
    BY <1>1, <1>6, GoesOn, SomeSteps
  <2>2. StaticTypeOK' /\ GettersMake'
    BY <1>1, <1>3, <1>6, <2>1, SomeSteps
  <2>3. ListIsFilled'
    <3>1. CASE raw.kind = "garbled"
      BY <1>1, <1>6, <2>1, <3>1, OthersFill DEF StaticInv, Moved, FillsList
    <3>2. CASE raw.kind # "garbled"
      <4>1. partial'
        <5>1. raw.kind = "mistyped"
          BY <1>1, <1>6, <3>2 DEF Raws, Fetched, Json, Mistyped, Garbled
        <5>2. QED BY <1>1, <3>2, <5>1
      <4>2. QED BY <4>1 DEF ListIsFilled
    <3>3. QED BY <3>1, <3>2
  <2>4. QED BY <2>2, <2>3 DEF StaticInv
<1>7. \/ task' = [task EXCEPT ![t].pc = "begin"] /\ UNCHANGED alive
      \/ Quit(t)
      \/ raw.kind # "valid" /\ task' = [task EXCEPT ![t].pc = "done"] /\ UNCHANGED alive
  BY DEF Decode
<1>8. QED BY <1>4, <1>5, <1>6, <1>7

LEMMA BeginKeeps ==
    ASSUME StaticInv, alive, NEW t \in Tasks, Begin(t)
    PROVE  StaticInv'
<1>1. /\ task \in [Tasks -> Task] /\ made \in BOOLEAN /\ map \subseteq IDs
      /\ alive \in BOOLEAN /\ task[t].pc = "begin" /\ list \in Lists \cup {<<>>}
      /\ task[t].job \in {"get", "update"} /\ UNCHANGED <<table, raw, list, partial, updates>>
  BY DEF StaticInv, StaticTypeOK, Begin, Task
<1>2. /\ made' \in BOOLEAN /\ map' \subseteq IDs
      /\ made => made'
      /\ task[t].job = "get" => made'
  BY <1>1 DEF Begin
<1>3. t \in Requests => task[t].job = "get"
  BY DEF StaticInv, GettersMake
<1>4. CASE list # <<>>
  <2>1. /\ task' = [task EXCEPT ![t].pc = "fill", ![t].next = 1, ![t].last = Len(list)]
        /\ UNCHANGED alive
    BY <1>4 DEF Begin
  <2>2. Len(list) \in Nat \ {0}
    BY <1>1, <1>4, ListsOfIDs, StaticAssumption, EmptySeq
  <2>3. /\ Moved(task, task', t, "fill") /\ task'[t].job = task[t].job
        /\ task'[t].next = 1 /\ task'[t].last = Len(list)
    BY <1>1, <2>1, <2>2, SomeSteps DEF Moved, Task, Steps
  <2>4. StaticTypeOK'
    BY <1>1, <1>2, <2>1, <2>2, <2>3 DEF StaticInv, StaticTypeOK, Raws, Moved
  <2>5. GettersMake'
    BY <1>2, <1>3, <2>3 DEF StaticInv, GettersMake, Moved, Tasks
  <2>6. FillsList(t)'
    BY <1>1, <2>3 DEF FillsList, Moved
  <2>7. QED BY <2>4, <2>5, <2>6 DEF StaticInv, ListIsFilled
<1>5. CASE list = <<>>
  <2>1. task' = [task EXCEPT ![t].pc = "done"] /\ alive' \in BOOLEAN
    BY <1>1, <1>5 DEF Begin, Quit
  <2>2. Moved(task, task', t, "done") /\ Same(task, task', t)
    BY <1>1, <2>1, GoesOn, SomeSteps
  <2>3. StaticTypeOK'
    BY <1>1, <1>2, <2>1, <2>2 DEF StaticInv, StaticTypeOK, Raws, Moved
  <2>4. GettersMake'
    <3>1. \A u \in Requests : task'[u].job = "get" /\ task'[u].pc # "fetch"
      BY <1>3, <2>2 DEF StaticInv, GettersMake, Moved, Same, Tasks
    <3>2. \A u \in Tasks : task'[u].pc = "fill" /\ task'[u].job = "get" => made'
      BY <1>2, <2>2 DEF StaticInv, GettersMake, Moved
    <3>3. QED BY <3>1, <3>2 DEF GettersMake
  <2>5. ListIsFilled'
    <3>1. Listed(list)' = {}
      BY <1>1, <1>5 DEF Listed
    <3>2. Entries(list)' \subseteq map'
      BY <3>1 DEF Entries
    <3>3. QED BY <3>2 DEF ListIsFilled
  <2>6. QED BY <2>3, <2>4, <2>5 DEF StaticInv
<1>6. QED BY <1>4, <1>5

LEMMA FillKeeps ==
    ASSUME StaticInv, alive, NEW t \in Tasks, Fill(t)
    PROVE  StaticInv'
<1> DEFINE i == task[t].next
<1>1. /\ task \in [Tasks -> Task] /\ made \in BOOLEAN /\ map \subseteq IDs
      /\ alive \in BOOLEAN /\ task[t].pc = "fill" /\ list \in Lists \cup {<<>>}
      /\ i \in 1..task[t].last /\ i \in Nat /\ task[t].last \in Nat
      /\ UNCHANGED <<table, raw, list, made, partial, updates>>
  BY DEF StaticInv, StaticTypeOK, Fill, Task
<1>2. /\ t \in Requests => task[t].job = "get"
      /\ task[t].job = "get" => made
  BY <1>1 DEF StaticInv, GettersMake
<1>3. Len(list) \in Nat /\ \A k \in 1..Len(list) : list[k] \in IDs
  BY <1>1, ListsOfIDs
<1>4. CASE i > Len(list) \/ (~made /\ Numbered(list[i]))
  <2>1. /\ task' = [task EXCEPT ![t].pc = "done"]
        /\ alive' = (t \in Requests) /\ UNCHANGED map
    BY <1>4 DEF Fill, Panic
  <2>2. Moved(task, task', t, "done") /\ Same(task, task', t)
    BY <1>1, <2>1, GoesOn, SomeSteps
  <2>3. StaticTypeOK'
    BY <1>1, <2>1, <2>2 DEF StaticInv, StaticTypeOK, Raws, Moved
  <2>4. GettersMake'
    BY <1>1, <1>2, <2>2 DEF StaticInv, GettersMake, Moved, Same, Tasks
  <2>5. ListIsFilled'
    <3>1. CASE t \in Requests
      <4>1. ~FillsList(t)
        BY <1>1, <1>2, <1>3, <1>4, <3>1 DEF FillsList
      <4>2. QED BY <1>1, <2>1, <2>2, <3>1, <4>1, OthersFill DEF StaticInv, Moved
    <3>2. CASE t \notin Requests
      BY <2>1, <3>2 DEF ListIsFilled
    <3>3. QED BY <3>1, <3>2
  <2>6. QED BY <2>3, <2>4, <2>5 DEF StaticInv
<1>5. CASE i <= Len(list) /\ (made \/ ~Numbered(list[i]))
  <2> DEFINE x == IF i < task[t].last THEN "fill"
                  ELSE IF task[t].job = "get" THEN AfterGet(t) ELSE "done"
  <2>0. ~(i > Len(list) \/ (~made /\ Numbered(list[i])))
    BY <1>1, <1>3, <1>5
  <2>1. /\ map' = map \cup {e \in {list[i]} : Numbered(e)} /\ UNCHANGED alive
        /\ task' = [task EXCEPT ![t].next = i + 1, ![t].pc = x]
    BY <2>0, Zenon DEF Fill, Filled
  <2>2. /\ x \in Steps /\ x # "begin"
        /\ t \in Requests => x # "fetch"
        /\ x = "fill" => i < task[t].last
        /\ x # "fill" => i = task[t].last
    BY <1>1, <1>2, StaticAssumption DEF AfterGet, Steps
  <2> HIDE DEF x
  <2>3. /\ Moved(task, task', t, x) /\ task'[t].job = task[t].job
        /\ task'[t].next = i + 1 /\ task'[t].last = task[t].last
    <3>1. i + 1 \in Nat
      BY <1>1
    <3> HIDE DEF i
    <3>2. QED BY <1>1, <2>1, <2>2, <3>1 DEF Moved, Task, Steps
  <2>4. list[i] \in IDs
    BY <1>1, <1>3, <1>5
  <2>5. StaticTypeOK'
    <3>1. map' \subseteq IDs
      BY <1>1, <2>1, <2>4
    <3>2. \A u \in Tasks : task'[u].pc = "fill" => task'[u].next \in 1..task'[u].last
      BY <1>1, <2>2, <2>3 DEF StaticInv, StaticTypeOK, Raws, Moved
    <3>3. QED BY <1>1, <2>1, <2>3, <3>1, <3>2 DEF StaticInv, StaticTypeOK, Raws, Moved
  <2>6. GettersMake'
    BY <1>1, <1>2, <1>5, <2>2, <2>3 DEF StaticInv, GettersMake, Moved, Tasks
  <2>7. ListIsFilled'
    <3>1. CASE FillsList(t)
      <4>1. \A k \in 1..i : Numbered(list[k])' => list[k] \in map'
        BY <1>1, <2>1, <3>1 DEF FillsList, Numbered
      <4>2. CASE x = "fill"
        <5>1. FillsList(t)'
          BY <1>1, <2>3, <3>1, <4>1, <4>2 DEF FillsList, Moved
        <5>2. QED BY <5>1 DEF ListIsFilled
      <4>3. CASE x # "fill"
        <5>1. i = Len(list)
          BY <2>2, <3>1, <4>3 DEF FillsList
        <5>2. Entries(list)' \subseteq map'
          BY <1>1, <4>1, <5>1, EntriesAreListed DEF Entries, Numbered, Listed
        <5>3. QED BY <5>2 DEF ListIsFilled
      <4>4. QED BY <4>2, <4>3
    <3>2. CASE ~FillsList(t)
      <4>1. map \subseteq map'
        BY <2>1
      <4>2. QED BY <1>1, <2>1, <2>3, <3>2, <4>1, OthersFill DEF StaticInv, Moved
    <3>3. QED BY <3>1, <3>2
  <2>8. QED BY <2>5, <2>6, <2>7 DEF StaticInv
<1>6. QED BY <1>1, <1>3, <1>4, <1>5

LEMMA WorkKeeps ==
    ASSUME StaticInv, alive, NEW t \in Tasks, Work(t)
    PROVE  StaticInv'
BY CheckKeeps, ReadKeeps, FetchKeeps, DecodeKeeps, BeginKeeps, FillKeeps, AnswerKeeps DEF Work

LEMMA DailyKeeps ==
    ASSUME StaticInv, alive, Daily
    PROVE  StaticInv'
<1> DEFINE t == "daily"
<1>1. /\ t \in Tasks /\ t \notin Requests
  BY StaticAssumption DEF Tasks
<1>2. /\ task \in [Tasks -> Task] /\ raw \in Raws
      /\ alive \in BOOLEAN /\ updates \in 0..MaxUpdates
  BY DEF StaticInv, StaticTypeOK, Raws
<1>3. /\ task[t].pc \in {"idle", "done"} /\ updates' \in 0..MaxUpdates
      /\ task' = [task EXCEPT ![t].pc = "fetch"]
      /\ UNCHANGED <<table, raw, list, made, map, partial, alive>>
  BY <1>2, StaticAssumption DEF Daily
<1> HIDE DEF t
<1>4. Moved(task, task', t, "fetch") /\ Same(task, task', t)
  BY <1>1, <1>2, <1>3, GoesOn, SomeSteps
<1>5. QED BY <1>1, <1>2, <1>3, <1>4, StepsAside DEF Moved

LEMMA RequestKeeps ==
    ASSUME StaticInv, alive, NEW t \in Requests, Request(t)
    PROVE  StaticInv'
<1>1. /\ t \in Tasks /\ task \in [Tasks -> Task] /\ alive \in BOOLEAN
      /\ raw \in Raws
      /\ updates \in 0..MaxUpdates /\ task[t].job = "get"
  BY DEF StaticInv, StaticTypeOK, Raws, GettersMake, Tasks
<1>2. /\ task[t].pc = "idle" /\ UNCHANGED <<table, raw, list, made, map, partial, updates, alive>>
      /\ \/ task' = [task EXCEPT ![t].pc = "check"]
         \/ task' = [task EXCEPT ![t].pc = "answer"]
  BY DEF Request
<1>3. PICK x \in {"check", "answer"} : task' = [task EXCEPT ![t].pc = x]
  BY <1>2
<1>4. Moved(task, task', t, x) /\ Same(task, task', t)
  <2>1. x \in Steps
    BY <1>3, SomeSteps
  <2>2. QED BY <1>1, <1>3, <2>1, GoesOn
<1>5. QED BY <1>1, <1>2, <1>3, <1>4, StepsAside DEF Moved, Same

\* What nobody at the tables does leaves them; a process that ends leaves all.
LEMMA TablesStay ==
    ASSUME StaticInv, UNCHANGED <<table, raw, list, made, map, partial, task, updates>>,
           alive' = alive \/ alive' = FALSE
    PROVE  StaticInv'
<1>1. StaticTypeOK'
  BY DEF StaticInv, StaticTypeOK, Raws
<1>2. GettersMake'
  BY DEF StaticInv, GettersMake
<1>3. ListIsFilled'
  BY DEF StaticInv, ListIsFilled, FillsList, Entries, Listed, Numbered
<1>4. QED BY <1>1, <1>2, <1>3 DEF StaticInv

----------------------------------------------------------------------------
(* The whole server. *)

Nobody == [t \in Tasks |-> Idle]

LEMMA EverybodyIdle ==
    /\ Nobody \in [Tasks -> Task]
    /\ \A t \in Tasks : Nobody[t].pc = "idle" /\ Nobody[t].job = "get"
BY DEF Nobody, Idle, Task

\* At a start nobody is at the tables.
LEMMA StartsAfresh ==
    /\ Init => StaticInv
    /\ StaticInv /\ Restart => StaticInv'
<1>1. ASSUME Init PROVE StaticInv
  <2>1. task = Nobody
    BY <1>1 DEF Init, Nobody
  <2>2. /\ task \in [Tasks -> Task]
        /\ \A t \in Tasks : task[t].pc = "idle" /\ task[t].job = "get"
    BY <2>1, EverybodyIdle
  <2>3. StaticTypeOK
    <3>1. updates \in 0..MaxUpdates
      BY <1>1, StaticAssumption DEF Init
    <3>2. QED BY <1>1, <2>2, <3>1 DEF Init, StaticTypeOK, Fetched
  <2>4. GettersMake
    BY <2>2 DEF GettersMake, Tasks
  <2>5. ListIsFilled
    BY <1>1 DEF Init, ListIsFilled, Entries, Listed
  <2>6. QED BY <2>3, <2>4, <2>5 DEF StaticInv
<1>2. ASSUME StaticInv, Restart PROVE StaticInv'
  <2>1. task' = Nobody
    BY <1>2 DEF Restart, Nobody
  <2>2. /\ task' \in [Tasks -> Task]
        /\ \A t \in Tasks : task'[t].pc = "idle" /\ task'[t].job = "get"
    BY <2>1, EverybodyIdle
  <2>3. StaticTypeOK'
    BY <1>2, <2>2 DEF Restart, StaticInv, StaticTypeOK, Fetched
  <2>4. GettersMake'
    BY <2>2 DEF GettersMake, Tasks
  <2>5. ListIsFilled'
    BY <1>2 DEF Restart, ListIsFilled, Entries, Listed
  <2>6. QED BY <2>3, <2>4, <2>5 DEF StaticInv
<1>3. QED BY <1>1, <1>2

\* Main starts the first of them, and else ends the process at most.
LEMMA MainKeepsTables ==
    ASSUME StaticInv, StartupInv, alive, Main
    PROVE  StaticInv'
<1>1. CASE Start
  <2> DEFINE t == "starter"
  <2>1. /\ t \in Tasks /\ t \notin Requests
    BY StaticAssumption DEF Tasks
  <2>2. /\ task \in [Tasks -> Task] /\ raw \in Raws
        /\ alive \in BOOLEAN /\ updates \in 0..MaxUpdates
    BY DEF StaticInv, StaticTypeOK, Raws
  <2>3. /\ task' = [task EXCEPT ![t].pc = "check"]
        /\ pc = "start" /\ UNCHANGED <<table, raw, list, made, map, partial, updates, alive>>
    BY <1>1 DEF Start
  <2>4. task[t].pc = "idle"
    BY <2>1, <2>3 DEF StartupInv, NothingRunsYet
  <2> HIDE DEF t
  <2>5. Moved(task, task', t, "check") /\ Same(task, task', t)
    BY <2>1, <2>2, <2>3, GoesOn, SomeSteps
  <2>6. QED BY <2>1, <2>2, <2>3, <2>4, <2>5, StepsAside DEF Moved
<1>2. CASE First \/ Create \/ SeedUsers \/ SeedTalkgroups \/ SaveSettings \/ Serve
  <2>1. /\ UNCHANGED <<table, raw, list, made, map, partial, task, updates>>
        /\ alive' = alive \/ alive' = FALSE
    BY <1>2 DEF First, Create, SeedUsers, SeedTalkgroups, SaveSettings, Serve, Exit, dbVars
  <2>2. QED BY <2>1, TablesStay
<1>3. QED BY <1>1, <1>2 DEF Main

LEMMA NextKeepsTables ==
    ASSUME StaticInv, StartupInv, [Next]_vars
    PROVE  StaticInv'
<1>1. CASE alive /\ Main
  BY <1>1, MainKeepsTables
<1>2. CASE DeleteUsers \/ DeleteTalkgroup \/ Crash \/ UNCHANGED vars
  <2>1. /\ UNCHANGED <<table, raw, list, made, map, partial, task, updates>>
        /\ alive' = alive \/ alive' = FALSE
    BY <1>2 DEF DeleteUsers, DeleteTalkgroup, Crash, Exit, vars, dbVars
  <2>2. QED BY <2>1, TablesStay
<1>3. CASE alive /\ Static
  <2>1. CASE MapAbort
    <3>1. UNCHANGED <<table, raw, list, made, map, partial, task, updates>> /\ alive' = FALSE
      BY <2>1 DEF MapAbort
    <3>2. QED BY <3>1, TablesStay
  <2>2. QED BY <1>3, <2>1, WorkKeeps, DailyKeeps, RequestKeeps DEF Static
<1>4. CASE Restart
  BY <1>4, StartsAfresh
<1>5. QED BY <1>1, <1>2, <1>3, <1>4 DEF Next

\* Main's own variables.
MainTypeOK ==
    /\ pc \in {"first", "create", "users", "talkgroups", "save", "start", "schedule", "up"}
    /\ settings \in {"none", "unseeded", "seeded"}
    /\ {users, talkgroup} \subseteq {"none", "there", "deleted"}
    /\ interrupted \in BOOLEAN
    /\ deaths \in 0..MaxDeaths

LEMMA MainIsTyped ==
    ASSUME MainTypeOK, [Next]_vars
    PROVE  MainTypeOK'
<1> USE DEF MainTypeOK
<1>1. CASE First \/ Create \/ SaveSettings \/ Start \/ Serve
  BY <1>1 DEF First, Create, SaveSettings, Start, Serve
<1>2. CASE SeedUsers \/ SeedTalkgroups
  BY <1>2 DEF SeedUsers, SeedTalkgroups, Exit
<1>3. CASE DeleteUsers \/ DeleteTalkgroup \/ Restart
  BY <1>3 DEF DeleteUsers, DeleteTalkgroup, Restart
<1>4. ASSUME Dies PROVE deaths' \in 0..MaxDeaths
  BY <1>4, StartupAssumption DEF Dies
<1>5. CASE Crash
  BY <1>4, <1>5 DEF Crash
<1>6. CASE Static
  BY <1>4, <1>6 DEF Static
<1>7. CASE UNCHANGED vars
  BY <1>7 DEF vars, mainVars
<1>8. QED BY <1>1, <1>2, <1>3, <1>5, <1>6, <1>7 DEF Next, Main

LEMMA TablesInvariant == Spec => [](StaticInv /\ MainTypeOK)
<1>1. Init => StaticInv /\ MainTypeOK
  <2>1. Init => MainTypeOK
    <3>1. Init => deaths \in 0..MaxDeaths
      BY StartupAssumption DEF Init
    <3>2. QED BY <3>1 DEF Init, MainTypeOK
  <2>2. QED BY <2>1, StartsAfresh
<1>2. StaticInv /\ MainTypeOK /\ StartupInv /\ [Next]_vars => StaticInv' /\ MainTypeOK'
  BY NextKeepsTables, MainIsTyped
<1>3. QED BY <1>1, <1>2, StartupInvariant, PTL DEF Spec

\* Every variable of main and of the static tables has its type, the index that a
\* goroutine fills next among those of the list it began with (StaticDB, Startup).
THEOREM StartupIsTyped == Spec => []TypeOK
<1>1. StaticInv /\ MainTypeOK => TypeOK
  BY DEF StaticInv, MainTypeOK, TypeOK
<1>2. QED BY <1>1, TablesInvariant, PTL

\* However many goroutines decode the list and fill the map at the same time, and
\* whenever the process ends: once they are done, who is listed is in the map
\* (userdb.go:96, repeaterdb.go:99), if what was decoded last had no error.
THEOREM TableIsComplete == Spec => []TableComplete
<1>1. ASSUME StaticInv PROVE TableComplete
  <2> SUFFICES ASSUME alive, Settled, ~partial
               PROVE  Entries(list) \subseteq map
    BY DEF TableComplete
  <2>1. \A t \in Tasks : task[t].pc # "begin" /\ ~FillsList(t)
    BY DEF Settled, FillsList
  <2>2. QED BY <1>1, <2>1 DEF StaticInv, ListIsFilled
<1>2. QED BY <1>1, TablesInvariant, PTL
=============================================================================

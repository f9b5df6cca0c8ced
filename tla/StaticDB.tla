------------------------------ MODULE StaticDB ------------------------------
(***************************************************************************)
(* One of the two tables of registered IDs in memory: repeaterdb and       *)
(* userdb.  A table is a list, decoded on first use from what is built in  *)
(* and anew by Update, and a map that is filled from the list.  Whoever    *)
(* comes first decodes it, nobody takes a lock, and the map is read and    *)
(* written while it is filled.                                             *)
(***************************************************************************)
EXTENDS Naturals, Sequences

CONSTANTS
    BuiltIn,      \* the list that is built in
    Downloads,    \* lists that Update may be given
    NoID,         \* the ID of an entry that has none: "" or text, and 0 of a user
    Requests,     \* requests of the web API
    MaxUpdates    \* bound: daily updates

Listed(l) == {l[i] : i \in DOMAIN l}
IDs       == Listed(BuiltIn) \cup UNION {Listed(l) : l \in Downloads}
Lists     == {BuiltIn} \cup Downloads
Tasks     == {"starter", "daily"} \cup Requests

ASSUME StaticAssumption ==
    /\ MaxUpdates \in Nat
    /\ BuiltIn # <<>>
    /\ \A l \in Lists : l \in Seq(Listed(l))
    /\ Requests \cap {"starter", "daily"} = {}

VARIABLES
    table,     \* "repeaters" or "users"
    raw,       \* uncompressedJSON: what Unmarshal makes of it, one variable for all
    list,      \* dmrRepeaters.Repeaters, dmrUsers.Users
    made,      \* the map has been made; it is nil before
    map,       \* dmrRepeaterMap, dmrUserMap: the IDs it holds
    partial,   \* history: the list is of a decoding that has failed
    task,      \* task[t]: a goroutine in GetDMRRepeaters or Update
    updates,   \* daily updates begun
    alive      \* the process runs

dbVars == <<table, raw, list, made, map, partial, task, updates, alive>>

\* job: the function it runs; next: the index it fills next; last: the length of
\* the list when it began to fill.
Task == [pc : {"idle", "check", "read", "fetch", "decode", "begin", "fill", "answer", "done"},
         job : {"get", "update"}, next : Nat, last : Nat]
Idle == [pc |-> "idle", job |-> "get", next |-> 0, last |-> 0]

\* JSON that is one makes a list.  Where a value has not the type of its field,
\* the rest is decoded and the error comes after; where the syntax or the list's own
\* type is wrong, the list is left as it is.
Json(l)     == [kind |-> "valid", list |-> l]
Mistyped(l) == [kind |-> "mistyped", list |-> l]
Garbled     == [kind |-> "garbled", list |-> <<>>]

Fetched == {Json(l) : l \in Downloads} \cup {Mistyped(l) : l \in Downloads} \cup {Garbled}

\* The entries that the loops over the list put into the map: repeaterdb skips an
\* ID that is no number, userdb decodes numbers.
Numbered(x) == table = "users" \/ x # NoID
Entries(l)  == {x \in Listed(l) : Numbered(x)}

----------------------------------------------------------------------------
\* A panic ends the process, but for one in a request.
Panic(t) ==
    /\ task' = [task EXCEPT ![t].pc = "done"]
    /\ alive' = (t \in Requests)

\* klog.Exit.
Quit(t) == task' = [task EXCEPT ![t].pc = "done"] /\ alive' = FALSE

\* The starter updates the table when it has got it; a request reads it.
AfterGet(t) == IF t = "starter" THEN "fetch" ELSE "answer"

Check(t) ==
    /\ task[t].pc = "check"
    /\ task' = [task EXCEPT ![t].job = "get",
                            ![t].pc = IF list = <<>> THEN "read" ELSE AfterGet(t)]
    /\ UNCHANGED <<table, raw, list, made, map, partial, updates, alive>>

\* What is built in is unpacked ...
Read(t) ==
    /\ task[t].pc = "read"
    /\ raw' = Json(BuiltIn)
    /\ task' = [task EXCEPT ![t].pc = "decode"]
    /\ UNCHANGED <<table, list, made, map, partial, updates, alive>>

\* ... to where Update downloads, which may fail before, meanwhile, or not.
Fetch(t) ==
    /\ task[t].pc = "fetch"
    /\ \/ task' = [task EXCEPT ![t].pc = "done"] /\ raw' \in {raw, Garbled}
       \/ /\ raw' \in Fetched
          /\ task' = [task EXCEPT ![t].job = "update", ![t].pc = "decode"]
    /\ UNCHANGED <<table, list, made, map, partial, updates, alive>>

\* What is there by now is decoded.  After an error, getting ends the process and
\* updating gives up; an empty list ends the process of who updates.
Decode(t) ==
    /\ task[t].pc = "decode"
    /\ IF raw.kind = "garbled"
       THEN UNCHANGED <<list, partial>>
       ELSE list' = raw.list /\ partial' = (raw.kind = "mistyped")
    /\ IF raw.kind = "valid" /\ (raw.list # <<>> \/ task[t].job = "get")
       THEN task' = [task EXCEPT ![t].pc = "begin"] /\ UNCHANGED alive
       ELSE IF raw.kind = "valid" \/ task[t].job = "get"
       THEN Quit(t)
       ELSE task' = [task EXCEPT ![t].pc = "done"] /\ UNCHANGED alive
    /\ UNCHANGED <<table, raw, made, map, updates>>

\* A new map takes the place of the old one, but for repeaterdb.Update, and the
\* loop over the list begins.  There is nothing to get from an empty list.
Begin(t) ==
    /\ task[t].pc = "begin"
    /\ IF task[t].job = "get" \/ table = "users"
       THEN made' = TRUE /\ map' = {}
       ELSE UNCHANGED <<made, map>>
    /\ IF list # <<>>
       THEN /\ task' = [task EXCEPT ![t].pc = "fill", ![t].next = 1, ![t].last = Len(list)]
            /\ UNCHANGED alive
       ELSE IF task[t].job = "get"
       THEN Quit(t)
       ELSE task' = [task EXCEPT ![t].pc = "done"] /\ UNCHANGED alive
    /\ UNCHANGED <<table, raw, list, partial, updates>>

\* Mutant of Filled: one entry too many.
FilledTooFar(t, i) ==
    [task EXCEPT ![t].next = i + 1,
                 ![t].pc = IF i <= task[t].last THEN "fill"
                           ELSE IF task[t].job = "get" THEN AfterGet(t) ELSE "done"]

\* The goroutine's state when it has filled entry i.
Filled(t, i) ==
    [task EXCEPT ![t].next = i + 1,
                 ![t].pc = IF i < task[t].last THEN "fill"
                           ELSE IF task[t].job = "get" THEN AfterGet(t) ELSE "done"]

\* Mutant of Fill: the entries are those of the list when the loop began.
FillCopy(t) ==
    LET i == task[t].next
        l == IF task[t].job = "get" THEN BuiltIn ELSE list
    IN  /\ task[t].pc = "fill"
        /\ IF i > Len(l) \/ (~made /\ Numbered(l[i]))
           THEN Panic(t) /\ UNCHANGED map
           ELSE /\ map' = map \cup {x \in {l[i]} : Numbered(x)}
                /\ task' = Filled(t, i) /\ UNCHANGED alive
        /\ UNCHANGED <<table, raw, list, made, partial, updates>>

\* The loop runs over as many entries as the list had when it began, and reads
\* them from the list there is now.
Fill(t) ==
    LET i == task[t].next
    IN  /\ task[t].pc = "fill"
        /\ IF i > Len(list) \/ (~made /\ Numbered(list[i]))
           THEN Panic(t) /\ UNCHANGED map
           ELSE /\ map' = map \cup {x \in {list[i]} : Numbered(x)}
                /\ task' = Filled(t, i) /\ UNCHANGED alive
        /\ UNCHANGED <<table, raw, list, made, partial, updates>>

\* At midnight.
Daily ==
    /\ task["daily"].pc \in {"idle", "done"} /\ updates < MaxUpdates
    /\ updates' = updates + 1
    /\ task' = [task EXCEPT !["daily"].pc = "fetch"]
    /\ UNCHANGED <<table, raw, list, made, map, partial, alive>>

\* A request asks GetRepeater or GetDMRUsers, or IsInDB, which decodes nothing.
Request(t) ==
    /\ task[t].pc = "idle"
    /\ task' = [task EXCEPT ![t].pc = "check"] \/ task' = [task EXCEPT ![t].pc = "answer"]
    /\ UNCHANGED <<table, raw, list, made, map, partial, updates, alive>>

Answer(t) ==
    /\ task[t].pc = "answer"
    /\ task' = [task EXCEPT ![t].pc = "done"]
    /\ UNCHANGED <<table, raw, list, made, map, partial, updates, alive>>

\* The runtime ends a process that it finds writing to a map while another reads
\* or writes it.
Writes(t) == task[t].pc = "fill"
Uses(t)   == task[t].pc \in {"fill", "answer"}

MapAbort ==
    /\ \E t \in Tasks : Writes(t) /\ \E u \in Tasks \ {t} : Uses(u)
    /\ alive' = FALSE
    /\ UNCHANGED <<table, raw, list, made, map, partial, task, updates>>

Work(t) ==
    \/ Check(t)
    \/ Read(t)
    \/ Fetch(t)
    \/ Decode(t)
    \/ Begin(t)
    \/ Fill(t)
    \/ Answer(t)

----------------------------------------------------------------------------
(* Properties. *)

\* The list, the map and the goroutines.
StaticTypeOK ==
    /\ table \in {"repeaters", "users"}
    /\ raw \in {Json(BuiltIn)} \cup Fetched
    /\ list \in Lists \cup {<<>>}
    /\ made \in BOOLEAN /\ map \subseteq IDs /\ partial \in BOOLEAN
    /\ task \in [Tasks -> Task]
    /\ \A t \in Tasks : task[t].pc = "fill" => task[t].next \in 1..task[t].last
    /\ updates \in 0..MaxUpdates
    /\ alive \in BOOLEAN

\* Nobody decodes or updates.
Settled == \A t \in Tasks : task[t].pc \in {"idle", "answer", "done"}

\* However the first uses, the updates and their failures overlap, the map holds
\* every entry of the list when the last of them is done: IsInDB (repeaterdb.go:58)
\* then refuses nobody who is on it.  A list that a failed decoding has left is
\* excepted: no update fills the map from it (repeaterdb.go:150, userdb.go:131).
TableComplete == alive /\ Settled /\ ~partial => Entries(list) \subseteq map

\* The inductive invariant of TableComplete.  A request only gets, and who gets has
\* made the map it fills, ...
GettersMake ==
    /\ \A t \in Requests : task[t].job = "get" /\ task[t].pc # "fetch"
    /\ \A t \in Tasks : task[t].pc = "fill" /\ task[t].job = "get" => made

\* ... t fills from the list there is, and what it has passed is in the map, ...
FillsList(t) ==
    /\ task[t].pc = "fill" /\ task[t].last = Len(list)
    /\ \A i \in 1..(task[t].next - 1) : Numbered(list[i]) => list[i] \in map

\* ... and a list that is not all in the map has somebody who is at it.
ListIsFilled ==
    alive /\ ~partial =>
        \/ \E t \in Tasks : task[t].pc = "begin" \/ FillsList(t)
        \/ Entries(list) \subseteq map

\* Who was in the table is in it while it is updated.  (Violated: userdb.Update
\* replaces the map by an empty one and then fills it.)
KnownStaysKnown == alive /\ list # <<>> /\ made => map # {}
=============================================================================

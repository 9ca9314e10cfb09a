------------------------------ MODULE Statements ------------------------------
(***************************************************************************)
(* The generated Insert, Update and Upsert of internal/models: goroutines  *)
(* that share, per table, three caches of SQL statements under a RWMutex.  *)
(* A call looks its statement up (or builds it), executes it, and then     *)
(* stores it.  A statement is what decides which columns are written and   *)
(* which are read back into the object.                                    *)
(*                                                                         *)
(* A value is only who wrote it: the goroutine, the database (Default), or *)
(* nobody (Zero, the zero value of the Go type).                           *)
(***************************************************************************)
EXTENDS Naturals, Sequences, SequencesExt, Functions

CONSTANTS
    Goroutine,
    Id,           \* primary keys there are
    Given,        \* those that callers choose themselves
    Zero, Default,
    Asked(_),     \* the boil.Columns callers pass to Insert and Update of a table
    Upserts(_),   \* the arguments callers pass to its Upsert
    Varied(_),    \* columns with a default that callers may set
    MaxCalls

VARIABLES
    table,    \* the table the goroutines work on
    rows,     \* its rows
    cache,    \* tenantInsertCache, tenantUpdateCache, tenantUpsertCache and so on
    job,      \* the call each goroutine is in
    calls

vars == <<table, rows, cache, job, calls>>

-----------------------------------------------------------------------------
(* The tables *)

tenants == [noDefault |-> <<"name", "queue_name">>,
            withDefault |-> <<"id", "status", "max_workers", "current_workers", "consumer_tag",
                              "created_at", "updated_at", "deleted_at">>,
            primaryKey |-> {"id"}, unique |-> {{"id"}, {"queue_name"}}]

messages == [noDefault |-> <<"tenant_id", "payload">>,
             withDefault |-> <<"id", "status", "retry_count", "max_retries", "scheduled_at",
                               "processed_at", "created_at">>,
             primaryKey |-> {"id", "tenant_id"}, unique |-> {{"id", "tenant_id"}}]

tenant_configs == [noDefault |-> <<"tenant_id", "config_key", "config_value">>,
                   withDefault |-> <<"id", "version", "is_active", "created_at", "updated_at">>,
                   primaryKey |-> {"id"},
                   unique |-> {{"id"}, {"tenant_id", "config_key", "is_active"}}]

message_processing_logs == [noDefault |-> <<"message_id", "tenant_id", "status">>,
                            withDefault |-> <<"id", "worker_id", "error_message",
                                              "processing_duration_ms", "created_at">>,
                            primaryKey |-> {"id"}, unique |-> {{"id"}}]

dead_letter_messages == [noDefault |-> <<"original_message_id", "tenant_id", "payload",
                                         "failure_reason", "retry_count">>,
                         withDefault |-> <<"id", "last_error", "created_at">>,
                         primaryKey |-> {"id"}, unique |-> {{"id"}}]

Schema == [tenants |-> tenants, messages |-> messages, tenant_configs |-> tenant_configs,
           message_processing_logs |-> message_processing_logs,
           dead_letter_messages |-> dead_letter_messages]
Table == DOMAIN Schema

this == Schema[table]
Required == ToSet(this.noDefault)
Defaulted == ToSet(this.withDefault)
AllColumns == Required \cup Defaulted

-----------------------------------------------------------------------------
(* boil.Columns *)

None == [kind |-> "0", cols |-> <<>>]
Infer == [kind |-> "1", cols |-> <<>>]
Whitelist(cols) == [kind |-> "2", cols |-> cols]
Greylist(cols) == [kind |-> "3", cols |-> cols]
Blacklist(cols) == [kind |-> "4", cols |-> cols]

\* What Columns c picks if it picks `inferred' when left to itself.
Picked(c, inferred) ==
    CASE c.kind = "0" -> {}
      [] c.kind = "1" -> inferred
      [] c.kind = "2" -> ToSet(c.cols)
      [] c.kind = "3" -> inferred \cup ToSet(c.cols)
      [] c.kind = "4" -> inferred \ ToSet(c.cols)

InsertColumnSet(c, nzDefaults) == Picked(c, Required \cup nzDefaults)
UpdateColumnSet(c) == Picked(c, AllColumns \ this.primaryKey)

NonZeroDefaultSet(o) == {c \in Defaulted : o[c] # Zero}

\* Columns with a default, in the order of the table.
InOrder(t, cols) == SelectSeq(Schema[t].withDefault, LAMBDA c : c \in cols)

-----------------------------------------------------------------------------
(* Cache keys and statements *)

Concat(names) == FoldLeft(LAMBDA a, b : a \o b, "", names)

makeCacheKey(c, nzDefaults) ==
    c.kind \o Concat(c.cols) \o (IF nzDefaults # <<>> THEN "." ELSE "") \o Concat(nzDefaults)

\* The options are not part of it.
UpsertKey(a, nzDefaults) ==
    (IF a.onConflict THEN "t" ELSE "f") \o "." \o Concat(a.conflict)
        \o "." \o a.update.kind \o Concat(a.update.cols)
        \o "." \o a.insert.kind \o Concat(a.insert.cols) \o "." \o Concat(nzDefaults)

\* Mutant: Upsert leaves the conflict columns out of the key.
KeyWithoutConflict(a, o) ==
    LET nzDefaults == InOrder(table, NonZeroDefaultSet(o)) IN
    CASE a.verb = "insert" -> makeCacheKey(a.insert, nzDefaults)
      [] a.verb = "update" -> makeCacheKey(a.update, <<>>)
      [] a.verb = "upsert" -> UpsertKey([a EXCEPT !.conflict = <<>>], nzDefaults)

KeyOf(a, o) ==
    LET nzDefaults == InOrder(table, NonZeroDefaultSet(o)) IN
    CASE a.verb = "insert" -> makeCacheKey(a.insert, nzDefaults)
      [] a.verb = "update" -> makeCacheKey(a.update, <<>>)
      [] a.verb = "upsert" -> UpsertKey(a, nzDefaults)

InsertStatement(a, o) ==
    LET wl == InsertColumnSet(a.insert, NonZeroDefaultSet(o)) IN
    [insert |-> wl, update |-> {}, returning |-> IF a.insert = None THEN {} ELSE Defaulted \ wl,
     conflict |-> {}, option |-> "none"]

\* Mutant: created_at is written like the others.
UpdateEverything(a) ==
    [insert |-> {}, update |-> UpdateColumnSet(a.update), returning |-> {}, conflict |-> {},
     option |-> "none"]

UpdateStatement(a) ==
    LET wl == UpdateColumnSet(a.update) IN
    [insert |-> {}, update |-> IF a.update.kind = "2" THEN wl ELSE wl \ {"created_at"},
     returning |-> {}, conflict |-> {}, option |-> "none"]

\* The columns of the conflict that is caught: those given, or the primary key;
\* none, any conflict, only if nothing is to be updated.
Conflict(a) ==
    IF a.conflict # <<>> THEN ToSet(a.conflict)
    ELSE IF a.onConflict THEN this.primaryKey ELSE {}

\* Mutant: a column that was inserted need not be read back.
UpsertReturnsTheRest(a, o) ==
    LET insert == InsertColumnSet(a.insert, NonZeroDefaultSet(o))
        update == UpdateColumnSet(a.update) IN
    [insert |-> insert, update |-> IF a.onConflict THEN update ELSE {},
     returning |-> AllColumns \ insert, conflict |-> Conflict(a), option |-> a.option]

\* buildUpsertQueryPostgres with its caller: on a conflict do nothing, or write what
\* update names.
UpsertStatement(a, o) ==
    LET insert == InsertColumnSet(a.insert, NonZeroDefaultSet(o))
        update == UpdateColumnSet(a.update) IN
    [insert |-> insert, update |-> IF a.onConflict THEN update ELSE {},
     returning |-> AllColumns \ (insert \cap update), conflict |-> Conflict(a), option |-> a.option]

StatementFor(a, o) ==
    CASE a.verb = "insert" -> InsertStatement(a, o)
      [] a.verb = "update" -> UpdateStatement(a)
      [] a.verb = "upsert" -> UpsertStatement(a, o)

\* Neither an update nor an updating upsert without columns can be built.
Buildable(a) ==
    \/ a.verb = "insert"
    \/ a.verb = "update" /\ UpdateStatement(a).update # {}
    \/ a.verb = "upsert" /\ (a.onConflict => UpdateColumnSet(a.update) # {})

-----------------------------------------------------------------------------
(* A call *)

Idle == [at |-> "idle"]

\* What the caller passes.  The options of Upsert there are: UpsertUpdateSet with an
\* assignment that keeps the row, and UpsertConflictTarget with any constraint.
Options == {"none", "keep", "target"}

InsertCall(c) ==
    [verb |-> "insert", onConflict |-> FALSE, conflict |-> <<>>, update |-> None, insert |-> c,
     option |-> "none"]
UpdateCall(c) ==
    [verb |-> "update", onConflict |-> FALSE, conflict |-> <<>>, update |-> c, insert |-> None,
     option |-> "none"]
UpsertCall(u) ==
    [verb |-> "upsert", onConflict |-> u.onConflict, conflict |-> u.conflict,
     update |-> u.update, insert |-> u.insert, option |-> u.option]

\* What a caller sets: the columns without default, some of the others, and the
\* key, or not.  Insert and Upsert set the time stamps, Update only updated_at.
Object(g, id, set, verb) ==
    LET stamps == IF verb = "update" THEN {"updated_at"} ELSE {"created_at", "updated_at"} IN
    [c \in AllColumns |->
        IF c = "id" THEN id
        ELSE IF c \in Required \cup set \cup stamps THEN g ELSE Zero]

\* Under RLock.
Lookup(g, a, id, set) ==
    LET o == Object(g, id, set, a.verb)
        key == KeyOf(a, o)
        hit == key \in DOMAIN cache[a.verb] IN
    /\ job[g] = Idle
    /\ calls < MaxCalls /\ calls' = calls + 1
    /\ hit \/ Buildable(a)
    /\ job' = [job EXCEPT ![g] =
          [at |-> "run", args |-> a, object |-> o, key |-> key, hit |-> hit, row |-> {},
           statement |-> IF hit THEN cache[a.verb][key] ELSE StatementFor(a, o)]]
    /\ UNCHANGED <<table, rows, cache>>

SameKey(r, s) == \A c \in this.primaryKey : r[c] = s[c]

\* The row an INSERT of these columns makes; the database finds a new key.
NewRows(o, insert) ==
    {r \in {[c \in AllColumns |-> IF c \in insert THEN o[c] ELSE IF c = "id" THEN i ELSE Default] :
               i \in Id} :
        "id" \in insert \/ \A s \in rows : r["id"] # s["id"]}

\* The row a conflicting or updated row s becomes.
Written(s, r, j) ==
    IF j.statement.option = "keep" THEN s
    ELSE [c \in AllColumns |-> IF c \in j.statement.update THEN r[c] ELSE s[c]]

\* One row was written and is read back where the statement says so.
Wrote(g, r, old) ==
    /\ rows' = (rows \ old) \cup {r}
    /\ job' = [job EXCEPT ![g].at = "ran", ![g].row = {r},
                 ![g].object = [c \in AllColumns |->
                                  IF c \in job[g].statement.returning THEN r[c] ELSE @[c]]]

Fails(g) == job' = [job EXCEPT ![g] = Idle] /\ UNCHANGED rows

NothingWritten(g) == job' = [job EXCEPT ![g].at = "ran"] /\ UNCHANGED rows

ExecuteInsert(g) ==
    LET j == job[g] IN
    /\ j.args.verb = "insert"
    /\ \E r \in NewRows(j.object, j.statement.insert) :
         IF Required \subseteq j.statement.insert /\ \A s \in rows : ~SameKey(r, s)
         THEN Wrote(g, r, {}) ELSE Fails(g)

\* The number of rows affected is returned, the object not refreshed.
ExecuteUpdate(g) ==
    LET j == job[g]  old == {s \in rows : SameKey(s, j.object)} IN
    /\ j.args.verb = "update"
    /\ IF old = {} THEN NothingWritten(g)
       ELSE \E s \in old : Wrote(g, Written(s, j.object, j), old)

\* The rows an INSERT of r may conflict with in the constraints a statement names.
\* Whether another row has the values of r is known of the primary key, and left
\* open of the other constraints; columns that are none make an error.
Conflicts(r, st) ==
    LET named == IF st.option = "target" \/ st.conflict = {} THEN this.unique
                 ELSE this.unique \cap {st.conflict} IN
    (IF this.primaryKey \in named THEN {{s \in rows : SameKey(s, r)}} ELSE {})
      \cup (IF named \subseteq {this.primaryKey} THEN {} ELSE {{}} \cup {{s} : s \in rows})

\* A key that is there, of the row inserted or updated, is an error if it is not
\* the conflict that was to be caught.
ExecuteUpsert(g) ==
    LET j == job[g] IN
    /\ j.args.verb = "upsert"
    /\ Required \subseteq j.statement.insert
    /\ \E r \in NewRows(j.object, j.statement.insert) : \E old \in Conflicts(r, j.statement) :
         \/ /\ old = {}
            /\ \A s \in rows : ~SameKey(r, s)
            /\ Wrote(g, r, {})
         \/ old # {} /\ j.statement.update = {} /\ NothingWritten(g)   \* ErrNoRows
         \/ \E s \in old :
              /\ j.statement.update # {}
              /\ \A q \in rows \ old : ~SameKey(Written(s, r, j), q)
              /\ Wrote(g, Written(s, r, j), old)

\* An error returns before the statement is stored.
Execute(g) ==
    /\ job[g].at = "run"
    /\ ExecuteInsert(g) \/ ExecuteUpdate(g) \/ ExecuteUpsert(g) \/ Fails(g)
    /\ UNCHANGED <<table, cache, calls>>

\* Under Lock, only if it was not found: another goroutine may have stored it since.
Store(g) ==
    LET j == job[g] IN
    /\ j.at = "ran"
    /\ job' = [job EXCEPT ![g] = Idle]
    /\ cache' = IF j.hit THEN cache
                ELSE [cache EXCEPT ![j.args.verb] =
                        [k \in DOMAIN @ \cup {j.key} |-> IF k = j.key THEN j.statement ELSE @[k]]]
    /\ UNCHANGED <<table, rows, calls>>

-----------------------------------------------------------------------------
(* The functions of each table *)

Insert(g, t) ==
    \E c \in Asked(t), id \in Given \cup {Zero}, set \in SUBSET Varied(t) :
        table = t /\ Lookup(g, InsertCall(c), id, set)

Update(g, t) ==
    \E c \in Asked(t), id \in Given, set \in SUBSET Varied(t) :
        table = t /\ Lookup(g, UpdateCall(c), id, set)

Upsert(g, t) ==
    \E u \in Upserts(t), id \in Given \cup {Zero}, set \in SUBSET Varied(t) :
        table = t /\ Lookup(g, UpsertCall(u), id, set)

\* One statement that is not cached; its errors change nothing.
Uncached(g, t) ==
    /\ table = t /\ job[g] = Idle
    /\ calls < MaxCalls /\ calls' = calls + 1
    /\ UNCHANGED <<table, cache, job>>

Delete(g, t) ==
    /\ Uncached(g, t)
    /\ \E id \in Id : rows' = {r \in rows : ~SameKey(r, Object(g, id, {}, "delete"))}

\* Of the rows that match a query, or those with the keys of a slice.
UpdateAll(g, t) ==
    /\ Uncached(g, t)
    /\ \E matching \in SUBSET rows, M \in SUBSET Varied(t) :
         /\ M # {}
         /\ rows' = (rows \ matching)
                      \cup {[c \in AllColumns |-> IF c \in M THEN g ELSE r[c]] : r \in matching}

DeleteAll(g, t) == Uncached(g, t) /\ rows' \in SUBSET rows

TenantInsert(g) == Insert(g, "tenants")
TenantUpdate(g) == Update(g, "tenants")
TenantUpsert(g) == Upsert(g, "tenants")
TenantDelete(g) == Delete(g, "tenants")
TenantUpdateAll(g) == UpdateAll(g, "tenants")
TenantDeleteAll(g) == DeleteAll(g, "tenants")
MessageInsert(g) == Insert(g, "messages")
MessageUpdate(g) == Update(g, "messages")
MessageUpsert(g) == Upsert(g, "messages")
MessageDelete(g) == Delete(g, "messages")
MessageUpdateAll(g) == UpdateAll(g, "messages")
MessageDeleteAll(g) == DeleteAll(g, "messages")
TenantConfigInsert(g) == Insert(g, "tenant_configs")
TenantConfigUpdate(g) == Update(g, "tenant_configs")
TenantConfigUpsert(g) == Upsert(g, "tenant_configs")
TenantConfigDelete(g) == Delete(g, "tenant_configs")
TenantConfigUpdateAll(g) == UpdateAll(g, "tenant_configs")
TenantConfigDeleteAll(g) == DeleteAll(g, "tenant_configs")
MessageProcessingLogInsert(g) == Insert(g, "message_processing_logs")
MessageProcessingLogUpdate(g) == Update(g, "message_processing_logs")
MessageProcessingLogUpsert(g) == Upsert(g, "message_processing_logs")
MessageProcessingLogDelete(g) == Delete(g, "message_processing_logs")
MessageProcessingLogUpdateAll(g) == UpdateAll(g, "message_processing_logs")
MessageProcessingLogDeleteAll(g) == DeleteAll(g, "message_processing_logs")
DeadLetterMessageInsert(g) == Insert(g, "dead_letter_messages")
DeadLetterMessageUpdate(g) == Update(g, "dead_letter_messages")
DeadLetterMessageUpsert(g) == Upsert(g, "dead_letter_messages")
DeadLetterMessageDelete(g) == Delete(g, "dead_letter_messages")
DeadLetterMessageUpdateAll(g) == UpdateAll(g, "dead_letter_messages")
DeadLetterMessageDeleteAll(g) == DeleteAll(g, "dead_letter_messages")

Init ==
    /\ table \in Table
    /\ rows = {}
    /\ cache = [verb \in {"insert", "update", "upsert"} |-> <<>>]
    /\ job = [g \in Goroutine |-> Idle]
    /\ calls = 0

Next ==
    \E g \in Goroutine :
        \/ TenantInsert(g) \/ TenantUpdate(g) \/ TenantUpsert(g)
        \/ TenantDelete(g) \/ TenantUpdateAll(g) \/ TenantDeleteAll(g)
        \/ MessageInsert(g) \/ MessageUpdate(g) \/ MessageUpsert(g)
        \/ MessageDelete(g) \/ MessageUpdateAll(g) \/ MessageDeleteAll(g)
        \/ TenantConfigInsert(g) \/ TenantConfigUpdate(g) \/ TenantConfigUpsert(g)
        \/ TenantConfigDelete(g) \/ TenantConfigUpdateAll(g) \/ TenantConfigDeleteAll(g)
        \/ MessageProcessingLogInsert(g) \/ MessageProcessingLogUpdate(g) \/ MessageProcessingLogUpsert(g)
        \/ MessageProcessingLogDelete(g) \/ MessageProcessingLogUpdateAll(g) \/ MessageProcessingLogDeleteAll(g)
        \/ DeadLetterMessageInsert(g) \/ DeadLetterMessageUpdate(g) \/ DeadLetterMessageUpsert(g)
        \/ DeadLetterMessageDelete(g) \/ DeadLetterMessageUpdateAll(g) \/ DeadLetterMessageDeleteAll(g)
        \/ Execute(g) \/ Store(g)

Spec == Init /\ [][Next]_vars

-----------------------------------------------------------------------------
(* Properties *)

\* Whoever built and stored it, a call executes the statement its own arguments
\* call for: the cache keys, strings without separators between the names, tell
\* apart the columns to insert and to update, those that have values, and the
\* conflict columns (tenants.go 1328-1354) - but not the options of Upsert
\* (1309), with which a call may get a statement that was built for another one.
RightStatement ==
    \A g \in Goroutine : job[g].at = "run" =>
        \E x \in Options :
            job[g].statement = [StatementFor(job[g].args, job[g].object) EXCEPT !.option =
                                  IF job[g].args.verb = "upsert" THEN x ELSE @]

\* After an Insert, or an Upsert that wrote, the object the caller holds is the
\* row, whatever columns were asked for and whatever was there: what the caller
\* did not write was read back.  Only if the statement has an option, the
\* caller's own or a stranger's, it may not be.
Mirror ==
    \A g \in Goroutine :
        (job[g].at = "ran" /\ job[g].args.verb # "update" /\ job[g].statement.option = "none")
            => \A r \in job[g].row : job[g].object = r

\* Update and Upsert leave alone what their caller did not name: no call, also
\* none that runs a statement another goroutine built, changes other columns of
\* an existing row, and an update without a whitelist not the time of creation.
OwnColumns ==
    [][\A g \in Goroutine : (job[g].at = "run" /\ job'[g].at = "ran") =>
         \A s \in rows, r \in job'[g].row : SameKey(s, r) =>
            {c \in AllColumns : r[c] # s[c]} \subseteq
                UpdateColumnSet(job[g].args.update)
                    \ (IF job[g].args.verb = "update" /\ job[g].args.update.kind # "2"
                       THEN {"created_at"} ELSE {})]_vars
===============================================================================

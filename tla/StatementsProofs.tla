---------------------------- MODULE StatementsProofs ----------------------------
(***************************************************************************)
(* Proofs about Statements, for any number of goroutines, keys and calls,  *)
(* and whatever columns the callers ask for.                               *)
(***************************************************************************)
EXTENDS Access, TLAPS

-----------------------------------------------------------------------------
(* The tables *)

\* What the proofs need to know of the five tables.
LEMMA TableFacts ==
    ASSUME NEW t \in S!Table
    PROVE  LET required == S!ToSet(S!Schema[t].noDefault)
               defaulted == S!ToSet(S!Schema[t].withDefault) IN
           /\ required # {}
           /\ required \cap defaulted = {}
           /\ S!Schema[t].primaryKey \subseteq required \cup defaulted
<1>1. S!Table = {"tenants", "messages", "tenant_configs", "message_processing_logs",
                 "dead_letter_messages"}
  BY DEF S!Table, S!Schema
<1>2. CASE t = "tenants"
  BY <1>2 DEF S!Schema, S!tenants, S!ToSet
<1>3. CASE t = "messages"
  BY <1>3 DEF S!Schema, S!messages, S!ToSet
<1>4. CASE t = "tenant_configs"
  BY <1>4 DEF S!Schema, S!tenant_configs, S!ToSet
<1>5. CASE t = "message_processing_logs"
  BY <1>5 DEF S!Schema, S!message_processing_logs, S!ToSet
<1>6. CASE t = "dead_letter_messages"
  BY <1>6 DEF S!Schema, S!dead_letter_messages, S!ToSet
<1> QED
  BY <1>1, <1>2, <1>3, <1>4, <1>5, <1>6

-----------------------------------------------------------------------------
(* The invariant *)

Verb == {"insert", "update", "upsert"}

\* The calls there are on table t.
Calls(t) == {S!InsertCall(c) : c \in Asked(t)} \cup {S!UpdateCall(c) : c \in Asked(t)}
              \cup {S!UpsertCall(u) : u \in Upserts(t)}

\* Key and statement depend on the object only by the set N of its defaulted
\* columns that are not zero.
KeyFor(a, N) ==
    CASE a.verb = "insert" -> S!makeCacheKey(a.insert, S!InOrder(table, N))
      [] a.verb = "update" -> S!makeCacheKey(a.update, <<>>)
      [] a.verb = "upsert" -> S!UpsertKey(a, S!InOrder(table, N))

\* st is the statement for a and N, but perhaps with another option.
IsStatement(st, a, N) ==
    \E x \in S!Options :
        st = CASE a.verb = "insert" ->
                    [insert |-> S!InsertColumnSet(a.insert, N), update |-> {},
                     returning |-> IF a.insert = S!None THEN {}
                                   ELSE S!Defaulted \ S!InsertColumnSet(a.insert, N),
                     conflict |-> {}, option |-> "none"]
               [] a.verb = "update" -> S!UpdateStatement(a)
               [] a.verb = "upsert" ->
                    [insert |-> S!InsertColumnSet(a.insert, N),
                     update |-> IF a.onConflict THEN S!UpdateColumnSet(a.update) ELSE {},
                     returning |-> S!AllColumns \ (S!InsertColumnSet(a.insert, N)
                                                     \cap S!UpdateColumnSet(a.update)),
                     conflict |-> S!Conflict(a), option |-> x]

\* st was built for a call with verb v and key k.
Built(v, k, st) ==
    \E a \in Calls(table), N \in SUBSET Settable(table) :
        a.verb = v /\ KeyFor(a, N) = k /\ IsStatement(st, a, N)

\* Who stores a statement in the cache has built it, or somebody else with the same key has.
CacheInv ==
    /\ DOMAIN cache = Verb
    /\ \A v \in Verb : \A k \in DOMAIN cache[v] : Built(v, k, cache[v][k])

\* Before it is executed, key and statement belong to the object; afterwards the
\* object is the row, if no option interferes.
CallInv(at, a, o, k, st, row) ==
    /\ a \in Calls(table)
    /\ Built(a.verb, k, st)
    /\ at = "run" => /\ row = {}
                     /\ S!NonZeroDefaultSet(o) \in SUBSET Settable(table)
                     /\ k = KeyFor(a, S!NonZeroDefaultSet(o))
    /\ at = "ran" /\ a.verb # "update" /\ st.option = "none" => \A r \in row : o = r

JobInv ==
    /\ DOMAIN job = Goroutine
    /\ \A g \in Goroutine :
         \/ job[g] = S!Idle
         \/ \E at \in {"run", "ran"}, hit \in BOOLEAN : \E a, o, k, st, row :
              /\ job[g] = [at |-> at, args |-> a, object |-> o, key |-> k, hit |-> hit,
                           row |-> row, statement |-> st]
              /\ CallInv(at, a, o, k, st, row)

\* The primary key tells the rows of a table apart.
DistinctKeys == \A r, s \in rows : S!SameKey(r, s) => r = s

StatementsInv ==
    /\ table \in S!Table
    /\ CacheInv
    /\ JobInv
    /\ DistinctKeys
-----------------------------------------------------------------------------
(* What every step needs *)

\* The table stays the same, and with it what a statement for it is.
LEMMA SameTable ==
    ASSUME table' = table
    PROVE  /\ \A v, k, st : Built(v, k, st)' <=> Built(v, k, st)
           /\ \A at, a, o, k, st, row : CallInv(at, a, o, k, st, row)' <=> CallInv(at, a, o, k, st, row)
           /\ \A r, s : S!SameKey(r, s)' <=> S!SameKey(r, s)
<1>1. \A v, k, st : Built(v, k, st)' <=> Built(v, k, st)
  BY DEF Built, KeyFor, IsStatement, S!Conflict, S!InsertColumnSet, S!UpdateStatement, S!UpdateColumnSet,
         S!AllColumns, S!Required, S!Defaulted, S!this
<1>2. \A o : S!NonZeroDefaultSet(o)' = S!NonZeroDefaultSet(o)
  BY DEF S!NonZeroDefaultSet, S!Defaulted, S!this
<1>3. \A a, N : KeyFor(a, N)' = KeyFor(a, N)
  BY DEF KeyFor
<1>4. \A at, a, o, k, st, row : CallInv(at, a, o, k, st, row)' <=> CallInv(at, a, o, k, st, row)
  BY <1>1, <1>2, <1>3 DEF CallInv
<1>5. \A r, s : S!SameKey(r, s)' <=> S!SameKey(r, s)
  BY DEF S!SameKey, S!this
<1> QED
  BY <1>1, <1>4, <1>5

\* One goroutine's call goes on or ends.
LEMMA JobStep ==
    ASSUME JobInv, table' = table, NEW g \in Goroutine, NEW j,
           job' = [job EXCEPT ![g] = j],
           \/ j = S!Idle
           \/ \E at \in {"run", "ran"}, hit \in BOOLEAN : \E a, o, k, st, row :
                /\ j = [at |-> at, args |-> a, object |-> o, key |-> k, hit |-> hit,
                        row |-> row, statement |-> st]
                /\ CallInv(at, a, o, k, st, row)
    PROVE  JobInv'
<1> DEFINE Good(x) ==
             \/ x = S!Idle
             \/ \E at \in {"run", "ran"}, hit \in BOOLEAN : \E a, o, k, st, row :
                  /\ x = [at |-> at, args |-> a, object |-> o, key |-> k, hit |-> hit,
                          row |-> row, statement |-> st]
                  /\ CallInv(at, a, o, k, st, row)
<1>1. DOMAIN job = Goroutine /\ \A h \in Goroutine : Good(job[h])
  BY DEF JobInv
<1>2. Good(j)
  OBVIOUS
<1> HIDE DEF Good
<1>3. DOMAIN job' = Goroutine /\ \A h \in Goroutine : job'[h] = IF h = g THEN j ELSE job[h]
  BY <1>1
<1>4. \A h \in Goroutine : Good(job'[h])
  BY <1>1, <1>2, <1>3
<1>5. \A at, a, o, k, st, row : CallInv(at, a, o, k, st, row)' <=> CallInv(at, a, o, k, st, row)
  BY SameTable
<1> QED
  BY <1>3, <1>4, <1>5 DEF Good, JobInv

\* The cache and the rows, if a step leaves them alone.
LEMMA CacheUnchanged ==
    ASSUME CacheInv, UNCHANGED <<table, cache>>
    PROVE  CacheInv'
BY SameTable DEF CacheInv

LEMMA RowsUnchanged ==
    ASSUME DistinctKeys, UNCHANGED <<table, rows>>
    PROVE  DistinctKeys'
BY SameTable DEF DistinctKeys

-----------------------------------------------------------------------------
(* Looking up *)

LEMMA KeyOfObject ==
    ASSUME NEW a \in Calls(table), NEW o
    PROVE  S!KeyOf(a, o) = KeyFor(a, S!NonZeroDefaultSet(o))
BY DEF S!KeyOf, KeyFor

LEMMA CallVerb ==
    ASSUME NEW t, NEW a \in Calls(t)
    PROVE  a.verb \in Verb /\ (t \in S!Table => a.option \in S!Options)
BY KnownOptions DEF Calls, S!InsertCall, S!UpdateCall, S!UpsertCall, Verb, S!Options

LEMMA OwnStatement ==
    ASSUME table \in S!Table, NEW a \in Calls(table), NEW o
    PROVE  IsStatement(S!StatementFor(a, o), a, S!NonZeroDefaultSet(o))
<1>1. a.verb \in Verb /\ a.option \in S!Options
  BY CallVerb
<1>0. "none" \in S!Options
  BY DEF S!Options
<1>2. CASE a.verb = "insert"
  BY <1>0, <1>2 DEF S!StatementFor, S!InsertStatement, IsStatement
<1>3. CASE a.verb = "update"
  BY <1>0, <1>3 DEF S!StatementFor, IsStatement
<1>4. CASE a.verb = "upsert"
  BY <1>1, <1>4 DEF S!StatementFor, S!UpsertStatement, IsStatement
<1> QED
  BY <1>1, <1>2, <1>3, <1>4 DEF Verb

\* An object has values only where its caller or the library puts them.
LEMMA ObjectIsSettable ==
    ASSUME table \in S!Table, NEW g, NEW id, NEW set \in SUBSET Varied(table), NEW verb
    PROVE  S!NonZeroDefaultSet(S!Object(g, id, set, verb)) \in SUBSET Settable(table)
<1>1. S!Required \cap S!Defaulted = {}
  BY TableFacts DEF S!Required, S!Defaulted, S!this
<1>2. S!Defaulted = S!ToSet(S!Schema[table].withDefault)
  BY DEF S!Defaulted, S!this
<1>3. ASSUME NEW c \in S!Defaulted, S!Object(g, id, set, verb)[c] # Zero
      PROVE  c \in Varied(table) \cup {"id", "created_at", "updated_at"}
  BY <1>1, <1>3 DEF S!Object, S!AllColumns
<1> QED
  BY <1>2, <1>3 DEF S!NonZeroDefaultSet, Settable

LEMMA LookupKeepsInv ==
    ASSUME StatementsInv, NEW g \in Goroutine, NEW a \in Calls(table), NEW id,
           NEW set \in SUBSET Varied(table), S!Lookup(g, a, id, set)
    PROVE  StatementsInv'
<1> DEFINE o == S!Object(g, id, set, a.verb)
           N == S!NonZeroDefaultSet(o)
           key == S!KeyOf(a, o)
           hit == key \in DOMAIN cache[a.verb]
           st == IF hit THEN cache[a.verb][key] ELSE S!StatementFor(a, o)
           j == [at |-> "run", args |-> a, object |-> o, key |-> key, hit |-> hit, row |-> {},
                 statement |-> st]
<1>1. job' = [job EXCEPT ![g] = j] /\ UNCHANGED <<table, rows, cache>>
  BY DEF S!Lookup
<1>2. N \in SUBSET Settable(table)
  BY ObjectIsSettable DEF StatementsInv
<1>3. key = KeyFor(a, N)
  BY KeyOfObject
<1>4. IsStatement(S!StatementFor(a, o), a, N)
  BY OwnStatement DEF StatementsInv
<1>5. a.verb \in Verb
  BY CallVerb
<1> HIDE DEF o, key
<1>6. Built(a.verb, key, st)
  <2>1. CASE hit
    BY <1>5, <2>1 DEF StatementsInv, CacheInv
  <2>2. CASE ~hit
    BY <1>2, <1>3, <1>4, <2>2 DEF Built
  <2> QED
    BY <2>1, <2>2
<1> HIDE DEF st, hit
<1>7. CallInv("run", a, o, key, st, {})
  BY <1>2, <1>3, <1>6 DEF CallInv
<1>8. JobInv'
  <2>1. hit \in BOOLEAN
    BY DEF hit
  <2>2. \E at \in {"run", "ran"}, b \in BOOLEAN : \E c, p, k, s, row :
          /\ j = [at |-> at, args |-> c, object |-> p, key |-> k, hit |-> b, row |-> row,
                  statement |-> s]
          /\ CallInv(at, c, p, k, s, row)
    BY <1>7, <2>1
  <2> HIDE DEF j
  <2> QED
    BY <1>1, <2>2, JobStep DEF StatementsInv
<1> QED
  BY <1>1, <1>8, CacheUnchanged, RowsUnchanged DEF StatementsInv

-----------------------------------------------------------------------------
(* Storing and executing *)

\* What is known of a goroutine whose call is at p.
LEMMA TheCall ==
    ASSUME JobInv, NEW g \in Goroutine, NEW p \in {"run", "ran"}, job[g].at = p
    PROVE  \E hit \in BOOLEAN : \E a, o, k, st, row :
             /\ job[g] = [at |-> p, args |-> a, object |-> o, key |-> k, hit |-> hit,
                          row |-> row, statement |-> st]
             /\ CallInv(p, a, o, k, st, row)
BY DEF JobInv, S!Idle

LEMMA StoreKeepsInv == ASSUME StatementsInv, NEW g \in Goroutine, S!Store(g) PROVE StatementsInv'
<1>1. PICK hit \in BOOLEAN : \E a, o, k, st, row :
        /\ job[g] = [at |-> "ran", args |-> a, object |-> o, key |-> k, hit |-> hit,
                     row |-> row, statement |-> st]
        /\ CallInv("ran", a, o, k, st, row)
  BY TheCall DEF StatementsInv, S!Store
<1>2. PICK a, o, k, st, row :
        /\ job[g] = [at |-> "ran", args |-> a, object |-> o, key |-> k, hit |-> hit,
                     row |-> row, statement |-> st]
        /\ CallInv("ran", a, o, k, st, row)
  BY <1>1
<1>3. a.verb \in Verb /\ Built(a.verb, k, st)
  BY <1>2, CallVerb DEF CallInv
<1>4. /\ job' = [job EXCEPT ![g] = S!Idle]
      /\ UNCHANGED <<table, rows>>
      /\ cache' = IF hit THEN cache
                  ELSE [cache EXCEPT ![a.verb] =
                          [q \in DOMAIN @ \cup {k} |-> IF q = k THEN st ELSE @[q]]]
  BY <1>2 DEF S!Store
<1>5. JobInv'
  BY <1>4, JobStep DEF StatementsInv
<1>6. CacheInv'
  <2>1. CASE hit
    BY <1>4, <2>1, CacheUnchanged DEF StatementsInv
  <2>2. CASE ~hit
    <3>1. DOMAIN cache' = Verb
      BY <1>4, <2>2 DEF StatementsInv, CacheInv
    <3>2. \A v \in Verb : v # a.verb => cache'[v] = cache[v]
      BY <1>4, <2>2 DEF StatementsInv, CacheInv
    <3>3. cache'[a.verb] = [q \in DOMAIN cache[a.verb] \cup {k} |->
                              IF q = k THEN st ELSE cache[a.verb][q]]
      BY <1>3, <1>4, <2>2 DEF StatementsInv, CacheInv
    <3>4. \A v \in Verb : \A q \in DOMAIN cache'[v] : Built(v, q, cache'[v][q])
      BY <1>3, <3>2, <3>3 DEF StatementsInv, CacheInv
    <3> QED
      BY <1>4, <3>1, <3>4, SameTable DEF CacheInv
  <2> QED
    BY <2>1, <2>2
<1> QED
  BY <1>4, <1>5, <1>6, RowsUnchanged DEF StatementsInv

\* An inserted row has the key nobody has; a written one the key it had.
LEMMA WrittenKeepsDistinctKeys ==
    ASSUME DistinctKeys, table' = table, NEW old \in SUBSET rows, NEW r,
           rows' = (rows \ old) \cup {r},
           \A s \in rows \ old : ~S!SameKey(r, s)
    PROVE  DistinctKeys'
<1>1. \A x, y : S!SameKey(x, y) => S!SameKey(y, x)
  BY DEF S!SameKey
<1>2. \A x, y \in rows' : S!SameKey(x, y) => x = y
  BY <1>1 DEF DistinctKeys
<1> QED
  BY <1>2, SameTable DEF DistinctKeys

\* A row that is updated from an object with its key keeps the key.
LEMMA WrittenKeepsKey ==
    ASSUME table \in S!Table, NEW s, NEW r, NEW j, S!SameKey(s, r)
    PROVE  S!SameKey(S!Written(s, r, j), s)
<1>1. \A c \in S!this.primaryKey : c \in S!AllColumns /\ s[c] = r[c]
  BY TableFacts DEF S!SameKey, S!AllColumns, S!Required, S!Defaulted, S!this
<1> QED
  BY <1>1 DEF S!Written, S!SameKey

\* A call that wrote row r in place of old.
LEMMA WroteKeepsInv ==
    ASSUME StatementsInv, NEW g \in Goroutine, NEW hit \in BOOLEAN,
           NEW a, NEW o, NEW k, NEW st, NEW row,
           job[g] = [at |-> "run", args |-> a, object |-> o, key |-> k, hit |-> hit,
                     row |-> row, statement |-> st],
           CallInv("run", a, o, k, st, row),
           NEW old \in SUBSET rows, NEW r, S!Wrote(g, r, old), UNCHANGED <<table, cache>>,
           \A s \in rows \ old : ~S!SameKey(r, s),
           a.verb # "update" /\ st.option = "none" =>
             [c \in S!AllColumns |-> IF c \in st.returning THEN r[c] ELSE o[c]] = r
    PROVE  StatementsInv'
<1> DEFINE p == [c \in S!AllColumns |-> IF c \in st.returning THEN r[c] ELSE o[c]]
           j == [at |-> "ran", args |-> a, object |-> p, key |-> k, hit |-> hit, row |-> {r},
                 statement |-> st]
<1>1. job' = [job EXCEPT ![g] = j]
  <2>1. job' = [job EXCEPT ![g].at = "ran", ![g].row = {r}, ![g].object = p]
    BY DEF S!Wrote
  <2> HIDE DEF p
  <2>2. [[[job[g] EXCEPT !.at = "ran"] EXCEPT !.row = {r}] EXCEPT !.object = p] = j
    <3> DEFINE j1 == [at |-> "ran", args |-> a, object |-> o, key |-> k, hit |-> hit,
                      row |-> row, statement |-> st]
               j2 == [at |-> "ran", args |-> a, object |-> o, key |-> k, hit |-> hit,
                      row |-> {r}, statement |-> st]
    <3>1. [job[g] EXCEPT !.at = "ran"] = j1
      OBVIOUS
    <3>2. [j1 EXCEPT !.row = {r}] = j2
      OBVIOUS
    <3>3. [j2 EXCEPT !.object = p] = j
      OBVIOUS
    <3> HIDE DEF j1, j2, j
    <3> QED
      BY <3>1, <3>2, <3>3
  <2>3. g \in DOMAIN job
    BY DEF StatementsInv, JobInv
  <2> HIDE DEF j
  <2> QED
    BY <2>1, <2>2, <2>3
<1> HIDE DEF p
<1>2. CallInv("ran", a, p, k, st, {r})
  BY DEF CallInv, p
<1>3. \E at \in {"run", "ran"}, b \in BOOLEAN : \E c, q, kk, s, rr :
        /\ j = [at |-> at, args |-> c, object |-> q, key |-> kk, hit |-> b, row |-> rr,
                statement |-> s]
        /\ CallInv(at, c, q, kk, s, rr)
  BY <1>2
<1> HIDE DEF j
<1>4. JobInv'
  BY <1>1, <1>3, JobStep DEF StatementsInv
<1>5. DistinctKeys'
  BY WrittenKeepsDistinctKeys DEF S!Wrote, StatementsInv
<1> QED
  BY <1>4, <1>5, CacheUnchanged DEF StatementsInv

LEMMA FailsKeepsInv ==
    ASSUME StatementsInv, NEW g \in Goroutine, S!Fails(g), UNCHANGED <<table, cache>>
    PROVE  StatementsInv'
<1>1. JobInv'
  BY JobStep DEF S!Fails, StatementsInv
<1> QED
  BY <1>1, CacheUnchanged, RowsUnchanged DEF S!Fails, StatementsInv

LEMMA NothingWrittenKeepsInv ==
    ASSUME StatementsInv, NEW g \in Goroutine, NEW hit \in BOOLEAN,
           NEW a, NEW o, NEW k, NEW st, NEW row,
           job[g] = [at |-> "run", args |-> a, object |-> o, key |-> k, hit |-> hit,
                     row |-> row, statement |-> st],
           CallInv("run", a, o, k, st, row),
           S!NothingWritten(g), UNCHANGED <<table, cache>>
    PROVE  StatementsInv'
<1> DEFINE j == [at |-> "ran", args |-> a, object |-> o, key |-> k, hit |-> hit, row |-> row,
                 statement |-> st]
<1>1. job' = [job EXCEPT ![g] = j]
  <2>1. [job[g] EXCEPT !.at = "ran"] = j
    OBVIOUS
  <2> HIDE DEF j
  <2> QED
    BY <2>1 DEF S!NothingWritten
<1>2. CallInv("ran", a, o, k, st, row)
  BY DEF CallInv
<1>3. \E at \in {"run", "ran"}, b \in BOOLEAN : \E c, q, kk, s, rr :
        /\ j = [at |-> at, args |-> c, object |-> q, key |-> kk, hit |-> b, row |-> rr,
                statement |-> s]
        /\ CallInv(at, c, q, kk, s, rr)
  BY <1>2
<1> HIDE DEF j
<1>4. JobInv'
  BY <1>1, <1>3, JobStep DEF StatementsInv
<1> QED
  BY <1>4, CacheUnchanged, RowsUnchanged DEF S!NothingWritten, StatementsInv

\* What an INSERT does not write it reads back: there are always columns without
\* default, and they must be written.
LEMMA InsertReadsBack ==
    ASSUME table \in S!Table, NEW k, NEW st, Built("insert", k, st),
           S!Required \subseteq st.insert, NEW o, NEW r \in S!NewRows(o, st.insert)
    PROVE  [c \in S!AllColumns |-> IF c \in st.returning THEN r[c] ELSE o[c]] = r
<1>1. PICK a, N : a.verb = "insert" /\ IsStatement(st, a, N)
  BY DEF Built
<1>2. /\ st.insert = S!InsertColumnSet(a.insert, N)
      /\ st.returning = IF a.insert = S!None THEN {} ELSE S!Defaulted \ st.insert
  BY <1>1 DEF IsStatement
<1>3. a.insert # S!None
  <2>1. SUFFICES ASSUME a.insert = S!None PROVE FALSE
    OBVIOUS
  <2>2. st.insert = {}
    BY <1>2, <2>1 DEF S!InsertColumnSet, S!Picked, S!None
  <2>3. S!Required # {}
    BY TableFacts DEF S!Required, S!this
  <2> QED
    BY <2>2, <2>3
<1>4. \A c \in S!AllColumns : c \in st.returning \/ c \in st.insert
  BY <1>2, <1>3 DEF S!AllColumns
<1>5. PICK i : r = [c \in S!AllColumns |-> IF c \in st.insert THEN o[c]
                                           ELSE IF c = "id" THEN i ELSE Default]
  BY DEF S!NewRows
<1> QED
  BY <1>4, <1>5

\* What an INSERT with ON CONFLICT does not write, in one case or the other, it
\* reads back.
LEMMA UpsertStatementIs ==
    ASSUME NEW k, NEW st, Built("upsert", k, st)
    PROVE  /\ \A c \in S!AllColumns : c \notin st.returning => c \in st.insert
           /\ st.update # {} => \A c \in S!AllColumns : c \notin st.returning => c \in st.update
<1>1. PICK a, N : a.verb = "upsert" /\ IsStatement(st, a, N)
  BY DEF Built
<1> QED
  BY <1>1 DEF IsStatement

LEMMA UpsertReadsBack ==
    ASSUME NEW k, NEW st, Built("upsert", k, st), NEW o, NEW r \in S!NewRows(o, st.insert)
    PROVE  [c \in S!AllColumns |-> IF c \in st.returning THEN r[c] ELSE o[c]] = r
<1>1. PICK i : r = [c \in S!AllColumns |-> IF c \in st.insert THEN o[c]
                                           ELSE IF c = "id" THEN i ELSE Default]
  BY DEF S!NewRows
<1> QED
  BY <1>1, UpsertStatementIs

LEMMA UpsertWritesTheRest ==
    ASSUME NEW k, NEW st, Built("upsert", k, st), NEW o, NEW r \in S!NewRows(o, st.insert),
           st.update # {}
    PROVE  \A c \in S!AllColumns : c \notin st.returning => c \in st.update /\ r[c] = o[c]
<1>1. \A c \in S!AllColumns : c \notin st.returning => c \in st.insert /\ c \in st.update
  BY UpsertStatementIs
<1>2. PICK i : r = [c \in S!AllColumns |-> IF c \in st.insert THEN o[c]
                                           ELSE IF c = "id" THEN i ELSE Default]
  BY DEF S!NewRows
<1> QED
  BY <1>1, <1>2

\* Rows other than those with the key of o do not have that of what replaces them.
LEMMA WrittenIsDistinct ==
    ASSUME table \in S!Table, NEW o, NEW j,
           NEW s \in {t \in rows : S!SameKey(t, o)}
    PROVE  \A t \in rows \ {u \in rows : S!SameKey(u, o)} : ~S!SameKey(S!Written(s, o, j), t)
<1>1. S!SameKey(S!Written(s, o, j), s)
  BY WrittenKeepsKey
<1> DEFINE w == S!Written(s, o, j)
<1> HIDE DEF w
<1>2. S!SameKey(w, s)
  BY <1>1 DEF w
<1>3. \A t : S!SameKey(w, t) => S!SameKey(t, o)
  BY <1>2 DEF S!SameKey
<1> QED
  BY <1>3 DEF w

LEMMA ExecuteKeepsInv ==
    ASSUME StatementsInv, NEW g \in Goroutine, S!Execute(g)
    PROVE  StatementsInv'
<1>1. PICK hit \in BOOLEAN : \E a, o, k, st, row :
        /\ job[g] = [at |-> "run", args |-> a, object |-> o, key |-> k, hit |-> hit,
                     row |-> row, statement |-> st]
        /\ CallInv("run", a, o, k, st, row)
  BY TheCall DEF StatementsInv, S!Execute
<1>2. PICK a, o, k, st, row :
        /\ job[g] = [at |-> "run", args |-> a, object |-> o, key |-> k, hit |-> hit,
                     row |-> row, statement |-> st]
        /\ CallInv("run", a, o, k, st, row)
  BY <1>1
<1>3. /\ job[g].args = a /\ job[g].object = o /\ job[g].statement = st
      /\ Built(a.verb, k, st)
  BY <1>2 DEF CallInv
<1>4. UNCHANGED <<table, cache>>
  BY DEF S!Execute
<1>5. table \in S!Table
  BY DEF StatementsInv
<1>6. CASE S!ExecuteInsert(g)
  <2>1. PICK r \in S!NewRows(o, st.insert) :
          /\ a.verb = "insert"
          /\ IF S!Required \subseteq st.insert /\ \A s \in rows : ~S!SameKey(r, s)
             THEN S!Wrote(g, r, {}) ELSE S!Fails(g)
    BY <1>3, <1>6 DEF S!ExecuteInsert
  <2>2. CASE S!Fails(g)
    BY <1>4, <2>2, FailsKeepsInv
  <2>3. CASE /\ S!Required \subseteq st.insert /\ \A s \in rows : ~S!SameKey(r, s)
             /\ S!Wrote(g, r, {})
    <3>1. [c \in S!AllColumns |-> IF c \in st.returning THEN r[c] ELSE o[c]] = r
      BY <1>3, <1>5, <2>1, <2>3, InsertReadsBack
    <3> QED
      BY <1>2, <1>4, <2>3, <3>1, WroteKeepsInv
  <2> QED
    BY <2>1, <2>2, <2>3
<1>7. CASE S!ExecuteUpdate(g)
  <2> DEFINE old == {s \in rows : S!SameKey(s, o)}
  <2>1. /\ a.verb = "update"
        /\ IF old = {} THEN S!NothingWritten(g)
           ELSE \E s \in old : S!Wrote(g, S!Written(s, o, job[g]), old)
    BY <1>3, <1>7 DEF S!ExecuteUpdate
  <2>2. CASE S!NothingWritten(g)
    BY <1>2, <1>4, <2>2, NothingWrittenKeepsInv
  <2>3. ASSUME NEW s \in old, S!Wrote(g, S!Written(s, o, job[g]), old) PROVE StatementsInv'
    <3>1. \A t \in rows \ old : ~S!SameKey(S!Written(s, o, job[g]), t)
      BY <1>5, WrittenIsDistinct
    <3> QED
      BY <1>2, <1>4, <2>1, <2>3, <3>1, WroteKeepsInv
  <2> QED
    BY <2>1, <2>2, <2>3
<1>8. CASE S!ExecuteUpsert(g)
  <2>0. PICK r \in S!NewRows(o, st.insert) : \E old \in S!Conflicts(r, st) :
          /\ a.verb = "upsert"
          /\ \/ /\ old = {}
                /\ \A s \in rows : ~S!SameKey(r, s)
                /\ S!Wrote(g, r, {})
             \/ S!NothingWritten(g)
             \/ \E s \in old :
                  /\ st.update # {}
                  /\ \A q \in rows \ old : ~S!SameKey(S!Written(s, r, job[g]), q)
                  /\ S!Wrote(g, S!Written(s, r, job[g]), old)
    BY <1>3, <1>8 DEF S!ExecuteUpsert
  <2>1. PICK old \in S!Conflicts(r, st) :
          /\ a.verb = "upsert"
          /\ \/ /\ old = {}
                /\ \A s \in rows : ~S!SameKey(r, s)
                /\ S!Wrote(g, r, {})
             \/ S!NothingWritten(g)
             \/ \E s \in old :
                  /\ st.update # {}
                  /\ \A q \in rows \ old : ~S!SameKey(S!Written(s, r, job[g]), q)
                  /\ S!Wrote(g, S!Written(s, r, job[g]), old)
    BY <2>0
  <2>2. Built("upsert", k, st)
    BY <1>3, <2>1
  <2>3. old \in SUBSET rows
    BY DEF S!Conflicts
  <2>4. CASE S!NothingWritten(g)
    BY <1>2, <1>4, <2>4, NothingWrittenKeepsInv
  <2>5. CASE (\A s \in rows : ~S!SameKey(r, s)) /\ S!Wrote(g, r, {})
    <3>1. [c \in S!AllColumns |-> IF c \in st.returning THEN r[c] ELSE o[c]] = r
      BY <2>2, UpsertReadsBack
    <3> QED
      BY <1>2, <1>4, <2>5, <3>1, WroteKeepsInv
  <2>6. ASSUME NEW s \in old, st.update # {},
               \A q \in rows \ old : ~S!SameKey(S!Written(s, r, job[g]), q),
               S!Wrote(g, S!Written(s, r, job[g]), old)
        PROVE  StatementsInv'
    <3> DEFINE w == S!Written(s, r, job[g])
    <3> HIDE DEF w
    <3>2. st.option = "none" => [c \in S!AllColumns |-> IF c \in st.returning THEN w[c] ELSE o[c]] = w
      <4>1. \A c \in S!AllColumns : c \notin st.returning => c \in st.update /\ r[c] = o[c]
        BY <2>2, <2>6, UpsertWritesTheRest
      <4>2. st.option = "none" => w = [c \in S!AllColumns |-> IF c \in st.update THEN r[c] ELSE s[c]]
        BY <1>3 DEF w, S!Written
      <4> QED
        BY <4>1, <4>2
    <3>3. S!Wrote(g, w, old) /\ \A q \in rows \ old : ~S!SameKey(w, q)
      BY <2>6 DEF w
    <3> QED
      BY <1>2, <1>4, <2>3, <3>2, <3>3, WroteKeepsInv
  <2> QED
    BY <2>1, <2>4, <2>5, <2>6
<1>9. CASE S!Fails(g)
  BY <1>4, <1>9, FailsKeepsInv
<1> QED
  BY <1>6, <1>7, <1>8, <1>9 DEF S!Execute

-----------------------------------------------------------------------------
(* Statements that are not cached *)

LEMMA OnlyRowsKeepsInv ==
    ASSUME StatementsInv, UNCHANGED <<table, cache, job>>, DistinctKeys'
    PROVE  StatementsInv'
<1>1. JobInv'
  BY SameTable DEF StatementsInv, JobInv
<1> QED
  BY <1>1, CacheUnchanged DEF StatementsInv

LEMMA FewerRowsKeepsInv ==
    ASSUME StatementsInv, UNCHANGED <<table, cache, job>>, rows' \subseteq rows
    PROVE  StatementsInv'
<1>1. DistinctKeys'
  BY SameTable DEF StatementsInv, DistinctKeys
<1> QED
  BY <1>1, OnlyRowsKeepsInv

LEMMA UpdateAllKeepsInv ==
    ASSUME StatementsInv, NEW g, NEW t, S!UpdateAll(g, t)
    PROVE  StatementsInv'
<1>1. PICK matching \in SUBSET rows, M \in SUBSET Varied(table) :
        rows' = (rows \ matching)
                  \cup {[c \in S!AllColumns |-> IF c \in M THEN g ELSE r[c]] : r \in matching}
  BY DEF S!UpdateAll, S!Uncached
<1>2. UNCHANGED <<table, cache, job>>
  BY DEF S!UpdateAll, S!Uncached
<1> DEFINE w(r) == [c \in S!AllColumns |-> IF c \in M THEN g ELSE r[c]]
<1>3. \A r : S!SameKey(w(r), r)
  <2>1. \A c \in S!this.primaryKey : c \in S!AllColumns /\ c \notin M
    BY TableFacts, KeysAreNotVaried
       DEF StatementsInv, S!AllColumns, S!Required, S!Defaulted, S!this
  <2> QED
    BY <2>1 DEF S!SameKey
<1> HIDE DEF w
<1>4. \A x \in rows' : \E r \in rows : /\ S!SameKey(x, r)
                                      /\ \/ x = r /\ r \notin matching
                                         \/ x = w(r) /\ r \in matching
  <2>1. rows' = (rows \ matching) \cup {w(r) : r \in matching}
    BY <1>1 DEF w
  <2>2. \A r : S!SameKey(r, r)
    BY DEF S!SameKey
  <2>3. ASSUME NEW x \in rows \ matching
        PROVE  \E r \in rows : /\ S!SameKey(x, r)
                              /\ \/ x = r /\ r \notin matching
                                 \/ x = w(r) /\ r \in matching
    BY <2>2
  <2>4. ASSUME NEW x \in {w(r) : r \in matching}
        PROVE  \E r \in rows : /\ S!SameKey(x, r)
                              /\ \/ x = r /\ r \notin matching
                                 \/ x = w(r) /\ r \in matching
    BY <1>3
  <2> QED
    BY <2>1, <2>3, <2>4
<1>5. \A x, y \in rows' : S!SameKey(x, y) => x = y
  <2> SUFFICES ASSUME NEW x \in rows', NEW y \in rows', S!SameKey(x, y) PROVE x = y
    OBVIOUS
  <2>1. PICK r \in rows : /\ S!SameKey(x, r)
                        /\ \/ x = r /\ r \notin matching
                           \/ x = w(r) /\ r \in matching
    BY <1>4
  <2>2. PICK s \in rows : /\ S!SameKey(y, s)
                        /\ \/ y = s /\ s \notin matching
                           \/ y = w(s) /\ s \in matching
    BY <1>4
  <2>3. S!SameKey(r, s)
    BY <2>1, <2>2 DEF S!SameKey
  <2>4. r = s
    BY <2>3 DEF StatementsInv, DistinctKeys
  <2> QED
    BY <2>1, <2>2, <2>4
<1>6. DistinctKeys'
  BY <1>2, <1>5, SameTable DEF DistinctKeys
<1> QED
  BY <1>2, <1>6, OnlyRowsKeepsInv

-----------------------------------------------------------------------------
(* The invariant holds *)

LEMMA StatementsInitInv == S!Init => StatementsInv
<1> SUFFICES ASSUME S!Init PROVE StatementsInv
  OBVIOUS
<1>1. CacheInv
  <2>1. DOMAIN cache = Verb /\ \A v \in Verb : cache[v] = <<>>
    BY DEF S!Init, Verb
  <2>2. DOMAIN <<>> = {}
    OBVIOUS
  <2> QED
    BY <2>1, <2>2 DEF CacheInv
<1>2. JobInv
  BY DEF S!Init, JobInv
<1> QED
  BY <1>1, <1>2 DEF S!Init, StatementsInv, DistinctKeys

LEMMA CallsOfTables ==
    ASSUME NEW g, NEW t, S!Insert(g, t) \/ S!Update(g, t) \/ S!Upsert(g, t)
    PROVE  \E a \in Calls(table), set \in SUBSET Varied(table) : \E id : S!Lookup(g, a, id, set)
<1>1. CASE S!Insert(g, t)
  <2>1. PICK c \in Asked(t), id \in Given \cup {Zero}, set \in SUBSET Varied(t) :
          table = t /\ S!Lookup(g, S!InsertCall(c), id, set)
    BY <1>1 DEF S!Insert
  <2>2. S!InsertCall(c) \in Calls(table)
    BY <2>1 DEF Calls
  <2> QED
    BY <2>1, <2>2
<1>2. CASE S!Update(g, t)
  <2>1. PICK c \in Asked(t), id \in Given, set \in SUBSET Varied(t) :
          table = t /\ S!Lookup(g, S!UpdateCall(c), id, set)
    BY <1>2 DEF S!Update
  <2>2. S!UpdateCall(c) \in Calls(table)
    BY <2>1 DEF Calls
  <2> QED
    BY <2>1, <2>2
<1>3. CASE S!Upsert(g, t)
  <2>1. PICK u \in Upserts(t), id \in Given \cup {Zero}, set \in SUBSET Varied(t) :
          table = t /\ S!Lookup(g, S!UpsertCall(u), id, set)
    BY <1>3 DEF S!Upsert
  <2>2. S!UpsertCall(u) \in Calls(table)
    BY <2>1 DEF Calls
  <2> QED
    BY <2>1, <2>2
<1> QED
  BY <1>1, <1>2, <1>3

\* The functions of the five tables are six, for each.
LEMMA StepsOfTables ==
    ASSUME S!Next
    PROVE  \E g \in Goroutine :
             \/ \E t : S!Insert(g, t) \/ S!Update(g, t) \/ S!Upsert(g, t)
             \/ \E t : S!Delete(g, t) \/ S!DeleteAll(g, t)
             \/ \E t : S!UpdateAll(g, t)
             \/ S!Execute(g)
             \/ S!Store(g)
BY DEF S!Next, S!TenantInsert, S!TenantUpdate, S!TenantUpsert, S!TenantDelete, S!TenantUpdateAll,
       S!TenantDeleteAll, S!MessageInsert, S!MessageUpdate, S!MessageUpsert, S!MessageDelete,
       S!MessageUpdateAll, S!MessageDeleteAll, S!TenantConfigInsert, S!TenantConfigUpdate,
       S!TenantConfigUpsert, S!TenantConfigDelete, S!TenantConfigUpdateAll,
       S!TenantConfigDeleteAll, S!MessageProcessingLogInsert, S!MessageProcessingLogUpdate,
       S!MessageProcessingLogUpsert, S!MessageProcessingLogDelete,
       S!MessageProcessingLogUpdateAll, S!MessageProcessingLogDeleteAll,
       S!DeadLetterMessageInsert, S!DeadLetterMessageUpdate, S!DeadLetterMessageUpsert,
       S!DeadLetterMessageDelete, S!DeadLetterMessageUpdateAll, S!DeadLetterMessageDeleteAll

LEMMA StatementsStepInv == StatementsInv /\ [S!Next]_S!vars => StatementsInv'
<1> SUFFICES ASSUME StatementsInv, [S!Next]_S!vars PROVE StatementsInv'
  OBVIOUS
<1>1. CASE S!Next
  <2>1. PICK g \in Goroutine :
             \/ \E t : S!Insert(g, t) \/ S!Update(g, t) \/ S!Upsert(g, t)
             \/ \E t : S!Delete(g, t) \/ S!DeleteAll(g, t)
             \/ \E t : S!UpdateAll(g, t)
             \/ S!Execute(g)
             \/ S!Store(g)
    BY <1>1, StepsOfTables
  <2>2. CASE \E t : S!Insert(g, t) \/ S!Update(g, t) \/ S!Upsert(g, t)
    <3>1. PICK a \in Calls(table), set \in SUBSET Varied(table) : \E id : S!Lookup(g, a, id, set)
      BY <2>2, CallsOfTables
    <3> QED
      BY <3>1, LookupKeepsInv
  <2>3. CASE \E t : S!Delete(g, t) \/ S!DeleteAll(g, t)
    <3>1. UNCHANGED <<table, cache, job>> /\ rows' \subseteq rows
      BY <2>3 DEF S!Delete, S!DeleteAll, S!Uncached
    <3> QED
      BY <3>1, FewerRowsKeepsInv
  <2>4. CASE \E t : S!UpdateAll(g, t)
    BY <2>4, UpdateAllKeepsInv
  <2>5. CASE S!Execute(g)
    BY <2>5, ExecuteKeepsInv
  <2>6. CASE S!Store(g)
    BY <2>6, StoreKeepsInv
  <2> QED
    BY <2>1, <2>2, <2>3, <2>4, <2>5, <2>6
<1>2. CASE UNCHANGED S!vars
  BY <1>2, FewerRowsKeepsInv DEF S!vars
<1> QED
  BY <1>1, <1>2

\* Through every interleaving of look-ups, executions and stores: what the caches
\* hold under a key was built for a call with that key, every call has a statement
\* of its key, and the primary keys stay distinct.
THEOREM StatementsHold == Spec => []StatementsInv
<1>1. Init => S!Init
  BY DEF Init
<1>2. [Next]_vars => [S!Next]_S!vars
  BY DEF Next, vars, sVars, rVars, lVars, cVars, S!vars
<1> QED
  BY <1>1, <1>2, StatementsInitInv, StatementsStepInv, PTL DEF Spec

-----------------------------------------------------------------------------
(* The theorems *)

\* What Insert and Upsert return is the row, whoever built the statement: this
\* does not need the keys to tell calls apart (tenants.go 1113-1161, 1362-1426).
THEOREM ObjectMirrorsRow == Spec => []Mirror
<1>1. StatementsInv => Mirror
  <2> SUFFICES ASSUME StatementsInv, NEW g \in Goroutine, job[g].at = "ran",
                      job[g].args.verb # "update", job[g].statement.option = "none"
               PROVE  \A r \in job[g].row : job[g].object = r
    BY DEF Mirror, S!Mirror
  <2>1. PICK hit \in BOOLEAN : \E a, o, k, st, row :
          /\ job[g] = [at |-> "ran", args |-> a, object |-> o, key |-> k, hit |-> hit,
                       row |-> row, statement |-> st]
          /\ CallInv("ran", a, o, k, st, row)
    BY TheCall DEF StatementsInv
  <2> QED
    BY <2>1 DEF CallInv
<1> QED
  BY <1>1, StatementsHold, PTL

\* One key, one verb: one statement, but for the options.
LEMMA KeyDeterminesStatement ==
    ASSUME table \in S!Table, NEW a \in Calls(table), NEW b \in Calls(table),
           NEW N \in SUBSET Settable(table), NEW M \in SUBSET Settable(table),
           a.verb = b.verb, KeyFor(a, N) = KeyFor(b, M),
           NEW st, IsStatement(st, b, M)
    PROVE  IsStatement(st, a, N)
<1>1. CASE a.verb = "insert"
  <2>0. b.verb = "insert"
    BY <1>1
  <2>1. PICK c \in Asked(table) : a = S!InsertCall(c)
    BY <1>1 DEF Calls, S!InsertCall, S!UpdateCall, S!UpsertCall
  <2>2. PICK d \in Asked(table) : b = S!InsertCall(d)
    BY <2>0 DEF Calls, S!InsertCall, S!UpdateCall, S!UpsertCall
  <2>3. a.insert = c /\ b.insert = d
    BY <2>1, <2>2 DEF S!InsertCall
  <2>4. S!makeCacheKey(c, S!InOrder(table, N)) = S!makeCacheKey(d, S!InOrder(table, M))
    BY <1>1, <2>3 DEF KeyFor
  <2>5. c = d /\ N = M
    BY <2>4, KeysTellApart
  <2> QED
    BY <2>1, <2>2, <2>5
<1>2. CASE a.verb = "update"
  <2>0. b.verb = "update"
    BY <1>2
  <2>1. PICK c \in Asked(table) : a = S!UpdateCall(c)
    BY <1>2 DEF Calls, S!InsertCall, S!UpdateCall, S!UpsertCall
  <2>2. PICK d \in Asked(table) : b = S!UpdateCall(d)
    BY <2>0 DEF Calls, S!InsertCall, S!UpdateCall, S!UpsertCall
  <2>3. a.update = c /\ b.update = d
    BY <2>1, <2>2 DEF S!UpdateCall
  <2>4. S!makeCacheKey(c, <<>>) = S!makeCacheKey(d, <<>>)
    BY <1>2, <2>3 DEF KeyFor
  <2>5. c = d
    BY <2>4, KeysTellApart
  <2> QED
    BY <1>2, <2>1, <2>2, <2>5 DEF IsStatement
<1>3. CASE a.verb = "upsert"
  <2>0. b.verb = "upsert"
    BY <1>3
  <2>1. PICK u \in Upserts(table) : a = S!UpsertCall(u)
    BY <1>3 DEF Calls, S!InsertCall, S!UpdateCall, S!UpsertCall
  <2>2. PICK v \in Upserts(table) : b = S!UpsertCall(v)
    BY <2>0 DEF Calls, S!InsertCall, S!UpdateCall, S!UpsertCall
  <2>3. S!UpsertKey(S!UpsertCall(u), S!InOrder(table, N))
          = S!UpsertKey(S!UpsertCall(v), S!InOrder(table, M))
    BY <1>3, <2>1, <2>2 DEF KeyFor
  <2>4. /\ u.onConflict = v.onConflict /\ u.conflict = v.conflict
        /\ u.update = v.update /\ u.insert = v.insert
        /\ N = M
    BY <2>3, KeysTellApart
  <2>5. /\ a.update = b.update /\ a.insert = b.insert
        /\ a.onConflict = b.onConflict /\ a.conflict = b.conflict
    BY <2>1, <2>2, <2>4 DEF S!UpsertCall
  <2>6. S!Conflict(a) = S!Conflict(b)
    BY <2>5 DEF S!Conflict
  <2> QED
    BY <1>3, <2>4, <2>5, <2>6 DEF IsStatement
<1> QED
  BY <1>1, <1>2, <1>3, CallVerb DEF Verb

\* If the keys tell calls apart, what is executed is the statement of the call's own
\* arguments, but for the option.
LEMMA StatementToRun ==
    ASSUME StatementsInv, NEW g \in Goroutine, job[g].at = "run"
    PROVE  /\ job[g].args.verb \in Verb
           /\ IsStatement(job[g].statement, job[g].args, S!NonZeroDefaultSet(job[g].object))
           /\ job[g].row = {}
<1>1. PICK hit \in BOOLEAN : \E a, o, k, st, row :
        /\ job[g] = [at |-> "run", args |-> a, object |-> o, key |-> k, hit |-> hit,
                     row |-> row, statement |-> st]
        /\ CallInv("run", a, o, k, st, row)
  BY TheCall DEF StatementsInv
<1>2. PICK a, o, k, st, row :
        /\ job[g] = [at |-> "run", args |-> a, object |-> o, key |-> k, hit |-> hit,
                     row |-> row, statement |-> st]
        /\ CallInv("run", a, o, k, st, row)
  BY <1>1
<1> DEFINE N == S!NonZeroDefaultSet(o)
<1>3. a \in Calls(table) /\ Built(a.verb, k, st) /\ row = {}
  BY <1>2 DEF CallInv
<1>4. N \in SUBSET Settable(table) /\ k = KeyFor(a, N)
  BY <1>2 DEF CallInv
<1> HIDE DEF N
<1>5. PICK b \in Calls(table), M \in SUBSET Settable(table) :
        b.verb = a.verb /\ KeyFor(b, M) = k /\ IsStatement(st, b, M)
  BY <1>3 DEF Built
<1>6. IsStatement(st, a, N)
  BY <1>3, <1>4, <1>5, KeyDeterminesStatement DEF StatementsInv
<1>7. a.verb \in Verb
  BY <1>3, CallVerb
<1>8. job[g].args = a /\ job[g].object = o /\ job[g].statement = st /\ job[g].row = row
  BY <1>2
<1> QED
  BY <1>3, <1>6, <1>7, <1>8 DEF N

\* A statement writes of an existing row only what its call named.
LEMMA UpdatesOnlyOwn ==
    ASSUME NEW st, NEW a, NEW N, a.verb \in Verb, IsStatement(st, a, N)
    PROVE  st.update \subseteq
             S!UpdateColumnSet(a.update)
               \ (IF a.verb = "update" /\ a.update.kind # "2" THEN {"created_at"} ELSE {})
<1>1. CASE a.verb = "insert"
  BY <1>1 DEF IsStatement
<1>2. CASE a.verb = "update"
  BY <1>2 DEF IsStatement, S!UpdateStatement
<1>3. CASE a.verb = "upsert"
  BY <1>3 DEF IsStatement
<1> QED
  BY <1>1, <1>2, <1>3 DEF Verb

\* Only the execution of its own statement takes a call on.
LEMMA OnlyExecute ==
    ASSUME JobInv, NEW h \in Goroutine, job[h].at = "run", job'[h].at = "ran", S!Next
    PROVE  S!Execute(h)
<1>1. PICK g \in Goroutine :
        \/ \E t : S!Insert(g, t) \/ S!Update(g, t) \/ S!Upsert(g, t)
        \/ \E t : S!Delete(g, t) \/ S!DeleteAll(g, t)
        \/ \E t : S!UpdateAll(g, t)
        \/ S!Execute(g)
        \/ S!Store(g)
  BY StepsOfTables
<1>2. DOMAIN job = Goroutine
  BY DEF JobInv
<1>3. ASSUME NEW j, job' = [job EXCEPT ![g] = j] PROVE g = h
  BY <1>2, <1>3
<1>4. CASE \E t : S!Insert(g, t) \/ S!Update(g, t) \/ S!Upsert(g, t)
  <2>1. job[g] = S!Idle /\ \E j : job' = [job EXCEPT ![g] = j]
    BY <1>4 DEF S!Insert, S!Update, S!Upsert, S!Lookup
  <2> QED
    BY <1>3, <2>1 DEF S!Idle
<1>5. CASE \E t : S!Delete(g, t) \/ S!DeleteAll(g, t) \/ S!UpdateAll(g, t)
  BY <1>5 DEF S!Delete, S!DeleteAll, S!UpdateAll, S!Uncached
<1>6. CASE S!Execute(g)
  <2>1. S!Fails(g) => job' = [job EXCEPT ![g] = S!Idle]
    BY DEF S!Fails
  <2>2. S!NothingWritten(g) => job' = [job EXCEPT ![g] = [job[g] EXCEPT !.at = "ran"]]
    BY DEF S!NothingWritten
  <2>3. \A r, old : S!Wrote(g, r, old) => \E j : job' = [job EXCEPT ![g] = j]
    BY DEF S!Wrote
  <2>4. \/ S!Fails(g) \/ S!NothingWritten(g) \/ \E r, old : S!Wrote(g, r, old)
    BY <1>6 DEF S!Execute, S!ExecuteInsert, S!ExecuteUpdate, S!ExecuteUpsert
  <2>5. g = h
    BY <1>3, <2>1, <2>2, <2>3, <2>4
  <2> QED
    BY <1>6, <2>5
<1>7. CASE S!Store(g)
  <2>1. job[g].at = "ran" /\ job' = [job EXCEPT ![g] = S!Idle]
    BY <1>7 DEF S!Store
  <2> QED
    BY <1>3, <2>1
<1> QED
  BY <1>1, <1>4, <1>5, <1>6, <1>7
\* What a row that replaces s, or joins it, has of s.
LEMMA WrittenChangesOnlyUpdate ==
    ASSUME NEW s, NEW r, NEW j
    PROVE  \A c \in S!AllColumns : c \notin j.statement.update => S!Written(s, r, j)[c] = s[c]
BY DEF S!Written

\* The row goroutine g has after executing differs from one with its key at most
\* in what the statement updates.
LEMMA ExecuteChangesOnlyUpdate ==
    ASSUME StatementsInv, NEW g \in Goroutine, S!Execute(g), job'[g].at = "ran",
           NEW s \in rows, NEW r \in job'[g].row, S!SameKey(s, r)
    PROVE  \A c \in S!AllColumns : r[c] # s[c] => c \in job[g].statement.update
<1> DEFINE st == job[g].statement
           o == job[g].object
           fields == {"at", "args", "object", "key", "hit", "row", "statement"}
<1>0. DOMAIN job[g] = fields /\ job[g] = [f \in fields |-> job[g][f]]
  <2>1. PICK hit \in BOOLEAN : \E a, p, k, q, row :
          /\ job[g] = [at |-> "run", args |-> a, object |-> p, key |-> k, hit |-> hit,
                       row |-> row, statement |-> q]
          /\ CallInv("run", a, p, k, q, row)
    BY TheCall DEF StatementsInv, S!Execute
  <2> QED
    BY <2>1
<1>1. job[g].row = {} /\ g \in DOMAIN job
  BY StatementToRun DEF S!Execute, StatementsInv, JobInv
<1>2. \A x, y, z : S!SameKey(x, y) => S!SameKey(y, x) /\ (S!SameKey(y, z) => S!SameKey(x, z))
  BY DEF S!SameKey
<1>3. ASSUME NEW w, NEW old, S!Wrote(g, w, old) PROVE r = w
  <2> DEFINE p == [c \in S!AllColumns |-> IF c \in st.returning THEN w[c] ELSE o[c]]
             j1 == [job[g] EXCEPT !.at = "ran"]
             j2 == [j1 EXCEPT !.row = {w}]
             j3 == [j2 EXCEPT !.object = p]
  <2>1. j3.row = {w}
    <3> HIDE DEF p
    <3>1. DOMAIN j2 = fields /\ j2.row = {w}
      BY <1>0
    <3> HIDE DEF j2, fields
    <3>2. "row" \in fields
      BY DEF fields
    <3> QED
      BY <3>1, <3>2
  <2>2. job' = [job EXCEPT ![g] = j3]
    <3>1. job' = [job EXCEPT ![g].at = "ran", ![g].row = {w}, ![g].object = p]
      BY <1>3 DEF S!Wrote
    <3> HIDE DEF p
    <3> QED
      BY <1>1, <3>1
  <2> HIDE DEF j3
  <2>3. job'[g].row = {w}
    BY <1>1, <2>1, <2>2
  <2> QED
    BY <2>3
<1>4. ~S!NothingWritten(g)
  <2>1. SUFFICES ASSUME S!NothingWritten(g) PROVE job'[g].row = {}
    OBVIOUS
  <2> QED
    BY <1>0, <1>1, <2>1 DEF S!NothingWritten
<1>5. ~S!Fails(g)
  BY <1>1 DEF S!Fails, S!Idle
\* The row that was written is s.
<1>6. ASSUME NEW x, NEW old \in SUBSET rows, NEW t \in old,
             \A u \in old : S!SameKey(u, t),
             \A u \in rows \ old : ~S!SameKey(S!Written(t, x, job[g]), u),
             S!Wrote(g, S!Written(t, x, job[g]), old)
      PROVE  \A c \in S!AllColumns : r[c] # s[c] => c \in st.update
  <2>1. r = S!Written(t, x, job[g])
    BY <1>3, <1>6
  <2>2. s \in old
    BY <1>2, <1>6, <2>1
  <2>3. s = t
    BY <1>6, <2>2 DEF StatementsInv, DistinctKeys
  <2> QED
    BY <2>1, <2>3, WrittenChangesOnlyUpdate
<1>7. CASE S!ExecuteInsert(g)
  <2>1. PICK x \in S!NewRows(o, st.insert) :
          IF S!Required \subseteq st.insert /\ \A t \in rows : ~S!SameKey(x, t)
          THEN S!Wrote(g, x, {}) ELSE S!Fails(g)
    BY <1>7 DEF S!ExecuteInsert
  <2>2. S!Wrote(g, x, {}) /\ ~S!SameKey(x, s)
    BY <1>5, <2>1
  <2> QED
    BY <1>2, <1>3, <2>2
<1>8. CASE S!ExecuteUpdate(g)
  <2>1. IF {u \in rows : S!SameKey(u, o)} = {} THEN S!NothingWritten(g)
        ELSE \E t \in {u \in rows : S!SameKey(u, o)} :
               S!Wrote(g, S!Written(t, o, job[g]), {u \in rows : S!SameKey(u, o)})
    BY <1>8 DEF S!ExecuteUpdate
  <2> DEFINE old == {u \in rows : S!SameKey(u, o)}
  <2>2. PICK t \in old : S!Wrote(g, S!Written(t, o, job[g]), old)
    BY <1>4, <2>1
  <2>3. \A u \in rows \ old : ~S!SameKey(S!Written(t, o, job[g]), u)
    BY WrittenIsDistinct DEF StatementsInv
  <2>4. \A u \in old : S!SameKey(u, t)
    BY <1>2, <2>2
  <2> HIDE DEF old
  <2>5. old \in SUBSET rows
    BY DEF old
  <2> QED
    BY <1>6, <2>2, <2>3, <2>4, <2>5
<1>9. CASE S!ExecuteUpsert(g)
  <2>0. PICK x \in S!NewRows(o, st.insert) : \E old \in S!Conflicts(x, st) :
          \/ /\ \A u \in rows : ~S!SameKey(x, u)
             /\ S!Wrote(g, x, {})
          \/ \E t \in old :
               /\ \A u \in rows \ old : ~S!SameKey(S!Written(t, x, job[g]), u)
               /\ S!Wrote(g, S!Written(t, x, job[g]), old)
    BY <1>4, <1>9 DEF S!ExecuteUpsert
  <2>1. PICK old \in S!Conflicts(x, st) :
          \/ /\ \A u \in rows : ~S!SameKey(x, u)
             /\ S!Wrote(g, x, {})
          \/ \E t \in old :
               /\ \A u \in rows \ old : ~S!SameKey(S!Written(t, x, job[g]), u)
               /\ S!Wrote(g, S!Written(t, x, job[g]), old)
    BY <2>0
  <2>2. CASE (\A u \in rows : ~S!SameKey(x, u)) /\ S!Wrote(g, x, {})
    <3>1. r = x
      BY <1>3, <2>2
    <3> QED
      BY <1>2, <2>2, <3>1
  <2>3. ASSUME NEW t \in old,
               \A u \in rows \ old : ~S!SameKey(S!Written(t, x, job[g]), u),
               S!Wrote(g, S!Written(t, x, job[g]), old)
        PROVE  \A c \in S!AllColumns : r[c] # s[c] => c \in st.update
    <3>1. old \in SUBSET rows
      BY DEF S!Conflicts
    <3>2. \A u \in old : S!SameKey(u, t)
      <4>1. \/ old = {u \in rows : S!SameKey(u, x)}
            \/ old = {}
            \/ \E u \in rows : old = {u}
        BY DEF S!Conflicts
      <4>2. S!SameKey(t, t)
        BY DEF S!SameKey
      <4> QED
        BY <1>2, <4>1, <4>2
    <3> QED
      BY <1>6, <2>3, <3>1, <3>2
  <2> QED
    BY <2>1, <2>2, <2>3
<1> QED
  BY <1>5, <1>7, <1>8, <1>9 DEF S!Execute

\* Whoever built the statement it runs, a call changes of an existing row only
\* the columns its own caller named, and an update without a whitelist not
\* created_at (tenants.go 1193-1209, 1362-1402).
THEOREM OnlyOwnColumnsChange == Spec => OwnColumns
<1>1. StatementsInv /\ [S!Next]_S!vars =>
        [\A g \in Goroutine : (job[g].at = "run" /\ job'[g].at = "ran") =>
           \A s \in rows, r \in job'[g].row : S!SameKey(s, r) =>
              {c \in S!AllColumns : r[c] # s[c]} \subseteq
                  S!UpdateColumnSet(job[g].args.update)
                      \ (IF job[g].args.verb = "update" /\ job[g].args.update.kind # "2"
                         THEN {"created_at"} ELSE {})]_S!vars
  <2> SUFFICES ASSUME StatementsInv, S!Next, NEW g \in Goroutine,
                      job[g].at = "run", job'[g].at = "ran",
                      NEW s \in rows, NEW r \in job'[g].row, S!SameKey(s, r)
               PROVE  {c \in S!AllColumns : r[c] # s[c]} \subseteq
                        S!UpdateColumnSet(job[g].args.update)
                            \ (IF job[g].args.verb = "update" /\ job[g].args.update.kind # "2"
                               THEN {"created_at"} ELSE {})
    OBVIOUS
  <2>1. S!Execute(g)
    BY OnlyExecute DEF StatementsInv
  <2>2. \A c \in S!AllColumns : r[c] # s[c] => c \in job[g].statement.update
    BY <2>1, ExecuteChangesOnlyUpdate
  <2>3. job[g].statement.update \subseteq
          S!UpdateColumnSet(job[g].args.update)
            \ (IF job[g].args.verb = "update" /\ job[g].args.update.kind # "2"
               THEN {"created_at"} ELSE {})
    BY StatementToRun, UpdatesOnlyOwn
  <2> QED
    BY <2>2, <2>3
<1>2. Init => S!Init
  BY DEF Init
<1>3. [Next]_vars => [S!Next]_S!vars
  BY DEF Next, vars, sVars, rVars, lVars, cVars, S!vars
<1> QED
  BY <1>1, <1>2, <1>3, StatementsInitInv, StatementsStepInv, PTL DEF Spec, OwnColumns, S!OwnColumns
===============================================================================

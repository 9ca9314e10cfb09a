-------------------------------- MODULE Access --------------------------------
(***************************************************************************)
(* Four parts that do not interact, each with its own actions and bounds:  *)
(* a behaviour is one of a single part, the others stay where they start.  *)
(***************************************************************************)
EXTENDS Integers, Sequences, FiniteSets

CONSTANTS Goroutine, Id, Given, Zero, Default, Asked(_), Upserts(_), Varied(_),
          MaxCalls,                                                            \* Statements
          TenantObject, ChildObject, TenantId, ChildId, Nil, MaxOperations,    \* Relations
          MaxMessages, LimitParam, CursorParam, NotANumber, MaxRequests,       \* Listing
          Absent                                                               \* ConfigResolution

\* Cursors are what strconv makes of the query string: a number or an error.
ASSUME CursorsAreNumbers == CursorParam \subseteq Int \cup {NotANumber}

\* Memory holds finitely many objects, the tables finitely many keys.
ASSUME FinitelyMany ==
    /\ IsFiniteSet(TenantObject) /\ IsFiniteSet(ChildObject)
    /\ IsFiniteSet(TenantId) /\ IsFiniteSet(ChildId)

VARIABLES part,
          table, rows, cache, job, calls,
          relation, tenantRow, childRow, tenant, child, operations, torn, moved, rewritten,
          count, answer, asked, received, requests,
          section, file, dotenv, env, stage, config

S == INSTANCE Statements
R == INSTANCE Relations
L == INSTANCE Listing
C == INSTANCE ConfigResolution

\* Columns with a default that may have a value when a caller's object is written.
Settable(t) ==
    S!ToSet(S!Schema[t].withDefault) \cap (Varied(t) \cup {"id", "created_at", "updated_at"})

\* Callers do not change the key of a row by UpdateAll.
ASSUME KeysAreNotVaried == \A t \in S!Table : Varied(t) \cap S!Schema[t].primaryKey = {}

\* The options an Upsert may have.
ASSUME KnownOptions == \A t \in S!Table : \A u \in Upserts(t) : u.option \in S!Options

\* The names of the columns in a row do not run into one another: the string that
\* is the key of a statement cache comes from one choice of columns and one set of
\* columns with values.  (It does, as no name of a table begins with another.)
ASSUME KeysTellApart ==
    \A t \in S!Table : \A M, N \in SUBSET Settable(t) :
        /\ \A c, d \in Asked(t) :
             /\ S!makeCacheKey(c, S!InOrder(t, M)) = S!makeCacheKey(d, S!InOrder(t, N))
                  => c = d /\ M = N
             /\ S!makeCacheKey(c, <<>>) = S!makeCacheKey(d, <<>>) => c = d
        /\ \A u, v \in Upserts(t) :
             S!UpsertKey(S!UpsertCall(u), S!InOrder(t, M)) = S!UpsertKey(S!UpsertCall(v), S!InOrder(t, N))
               => /\ u.onConflict = v.onConflict /\ u.conflict = v.conflict
                  /\ u.update = v.update /\ u.insert = v.insert
                  /\ M = N

sVars == <<table, rows, cache, job, calls>>
rVars == <<relation, tenantRow, childRow, tenant, child, operations, torn, moved, rewritten>>
lVars == <<count, answer, asked, received, requests>>
cVars == <<section, file, dotenv, env, stage, config>>
vars == <<part, sVars, rVars, lVars, cVars>>

Init ==
    /\ part \in {"statements", "relations", "listing", "config"}
    /\ S!Init /\ (part = "statements" \/ table = "tenants")
    /\ R!Init /\ (part = "relations" \/ (relation = "TenantConfigs" /\ tenantRow = {}))
    /\ L!Init
    /\ C!Init /\ (part = "config" \/ (section = "database" /\ file = Absent /\ dotenv = Absent
                                     /\ \A v \in C!Variable : env[v] = "unset"))

Next ==
    /\ UNCHANGED part
    /\ \/ part = "statements" /\ S!Next /\ UNCHANGED <<rVars, lVars, cVars>>
       \/ part = "relations" /\ R!Next /\ UNCHANGED <<sVars, lVars, cVars>>
       \/ part = "listing" /\ L!Next /\ UNCHANGED <<sVars, rVars, cVars>>
       \/ part = "config" /\ C!Next /\ UNCHANGED <<sVars, rVars, lVars>>

Spec == Init /\ [][Next]_vars

-----------------------------------------------------------------------------
(* The properties of the parts, as their modules state them *)

RightStatement == S!RightStatement
Mirror == S!Mirror
OwnColumns == S!OwnColumns
KeyAgreesWithPointer == R!KeyAgreesWithPointer
ListedWherePointed == R!ListedWherePointed
InOneList == R!InOneList
PagesAreHonest == L!PagesAreHonest
CursorsLeadOn == L!CursorsLeadOn
DocumentedVariablesTakeEffect == C!DocumentedVariablesTakeEffect
EnvironmentWins == C!EnvironmentWins
===============================================================================

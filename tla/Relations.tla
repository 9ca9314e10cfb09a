------------------------------- MODULE Relations -------------------------------
(***************************************************************************)
(* The relations of internal/models: tenants and the three kinds of        *)
(* objects that belong to one, linked both ways by their R structs.  The   *)
(* links are in memory, the foreign key is in the object and in the row;   *)
(* AddX, SetTenant, the eager loaders and Reload change some of the four   *)
(* and leave the others.  One goroutine owns the objects.                  *)
(***************************************************************************)
EXTENDS Naturals, Sequences, SequencesExt, FiniteSets, FiniteSetsExt

CONSTANTS
    TenantObject, ChildObject,   \* objects in memory, at most
    TenantId, ChildId,           \* primary keys
    Nil,
    MaxOperations

VARIABLES
    relation,   \* the kind of children: only one at a time matters
    tenantRow,  \* ids of the rows of tenants
    childRow,   \* the tenant_id of each row of the children, or Nil
    tenant,     \* tenant objects: id and R.<children>
    child,      \* child objects: id, TenantID, R.Tenant
    operations,
    torn,       \* history: children a failed AddX has changed
    moved,      \* children AddX or SetTenant gave another tenant object
    rewritten   \* tenant objects whose R a load or Reload has replaced

vars == <<relation, tenantRow, childRow, tenant, child, operations, torn, moved, rewritten>>
rowVars == <<tenantRow, childRow>>

Relation == {"DeadLetterMessages", "MessageProcessingLogs", "TenantConfigs"}

\* An object that does not exist (yet).
Free == [id |-> Nil]

Tenants == {o \in TenantObject : tenant[o] # Free}
Children == {c \in ChildObject : child[c] # Free}

Step == operations < MaxOperations /\ operations' = operations + 1 /\ UNCHANGED relation

Init ==
    /\ relation \in Relation
    /\ tenantRow \in SUBSET TenantId
    /\ childRow \in [ChildId -> tenantRow \cup {Nil}]
    /\ tenant = [o \in TenantObject |-> Free]
    /\ child = [c \in ChildObject |-> Free]
    /\ operations = 0
    /\ torn = {}
    /\ moved = {}
    /\ rewritten = {}

-----------------------------------------------------------------------------
(* Finding, inserting, reloading *)

\* A new object without links, for a row there is or one that is to be inserted.
NewTenant ==
    \E t \in TenantId :
        /\ Step
        /\ Tenants # TenantObject
        /\ tenant' = [tenant EXCEPT ![CHOOSE o \in TenantObject \ Tenants : TRUE] =
                        [id |-> t, children |-> <<>>]]
        /\ UNCHANGED <<rowVars, child, torn, moved, rewritten>>

NewChild ==
    \E i \in ChildId :
        /\ Step
        /\ Children # ChildObject
        /\ child' = [child EXCEPT ![CHOOSE c \in ChildObject \ Children : TRUE] = [id |-> i, tenantID |-> childRow[i], tenant |-> Nil]]
        /\ UNCHANGED <<rowVars, tenant, torn, moved, rewritten>>

\* *o = *ret: the columns of the row, and no links.
ReloadTenant ==
    \E o \in Tenants :
        /\ Step
        /\ tenant[o].id \in tenantRow
        /\ tenant' = [tenant EXCEPT ![o].children = <<>>]
        /\ rewritten' = rewritten \cup {o}
        /\ UNCHANGED <<rowVars, child, torn, moved>>

ReloadChild ==
    \E c \in Children :
        /\ Step
        /\ childRow[child[c].id] # Nil
        /\ child' = [child EXCEPT ![c].tenantID = childRow[child[c].id], ![c].tenant = Nil]
        /\ torn' = torn \ {c}
        /\ UNCHANGED <<rowVars, tenant, moved, rewritten>>

-----------------------------------------------------------------------------
(* AddX and SetTenant *)

\* Any objects, also two of one row, or one of them twice.
Related == {s \in BoundedSeq(Children, 2) : s # <<>>}

\* The first k statements succeed.  An update of no row does; an insert of a row
\* that exists, or a foreign key without a tenant, does not.
RowsWritten(insert, s, k, t) ==
    LET written == {i \in ChildId : /\ \E n \in 1 .. k : child[s[n]].id = i
                                    /\ insert \/ childRow[i] # Nil} IN
    /\ insert => \A m, n \in 1 .. k : /\ childRow[child[s[n]].id] = Nil
                                      /\ child[s[m]].id = child[s[n]].id => m = n
    /\ written # {} => t \in tenantRow'
    /\ childRow' = [i \in ChildId |-> IF i \in written THEN t ELSE childRow[i]]

\* The objects of the first k are given the id.
Assigned(s, k, t) ==
    [c \in ChildObject |-> IF \E n \in 1 .. k : s[n] = c THEN [child[c] EXCEPT !.tenantID = t]
                           ELSE child[c]]

\* One of the statements fails.  The object whose insert fails has its TenantID
\* already, the one whose update fails has not.
AddFails(o, s, insert) ==
    \E k \in 0 .. Len(s) - 1 :
        LET n == IF insert THEN k + 1 ELSE k IN
        /\ RowsWritten(insert, s, k, tenant[o].id)
        /\ child' = Assigned(s, n, tenant[o].id)
        /\ torn' = torn \cup {s[i] : i \in 1 .. n}
        /\ UNCHANGED <<tenant, moved, rewritten>>

\* The objects are linked when all statements have succeeded.
Linked(o, s, children) ==
    /\ tenant' = [tenant EXCEPT ![o].children = children]
    /\ child' = [c \in ChildObject |->
                    IF c \in ToSet(s) THEN [child[c] EXCEPT !.tenantID = tenant[o].id, !.tenant = o]
                    ELSE child[c]]
    /\ torn' = torn \ ToSet(s)
    /\ moved' = moved \cup ToSet(s)
    /\ UNCHANGED rewritten

\* Mutant: the list is made anew.
AddReplaces(insert) ==
    \E o \in Tenants, s \in Related :
      /\ Step /\ UNCHANGED tenantRow
      /\ \/ /\ RowsWritten(insert, s, Len(s), tenant[o].id)
            /\ Linked(o, s, s)
         \/ AddFails(o, s, insert)

Add(insert) ==
    \E o \in Tenants, s \in Related :
      /\ Step /\ UNCHANGED tenantRow
      /\ \/ /\ RowsWritten(insert, s, Len(s), tenant[o].id)
            /\ Linked(o, s, tenant[o].children \o s)
         \/ AddFails(o, s, insert)

\* Mutant: the foreign key in the object is forgotten.
SetKeepsTenantID ==
    \E c \in Children, o \in Tenants :
        /\ Step /\ UNCHANGED tenantRow
        /\ RowsWritten(FALSE, <<c>>, 1, tenant[o].id)
        /\ child' = [child EXCEPT ![c].tenant = o]
        /\ tenant' = [tenant EXCEPT ![o].children = Append(@, c)]
        /\ moved' = moved \cup {c}
        /\ UNCHANGED <<torn, rewritten>>

\* If it is asked for, the row of the tenant is inserted first, and stays if the
\* update then fails.  The child is not taken from the list it was in.
SetTenant ==
    \E c \in Children, o \in Tenants :
        /\ Step
        /\ tenantRow' \in {tenantRow, tenantRow \cup {tenant[o].id}}
        /\ \/ /\ RowsWritten(FALSE, <<c>>, 1, tenant[o].id)
              /\ Linked(o, <<c>>, Append(tenant[o].children, c))
           \/ UNCHANGED <<childRow, tenant, child, torn, moved, rewritten>>

-----------------------------------------------------------------------------
(* Eager loading: fresh objects for the rows the query returns *)

RowsOf(ids) == {i \in ChildId : childRow[i] \in ids}

\* Fresh objects, one for each row.
Fits(is, objects) == Cardinality(is) <= Cardinality(objects)
Fresh(is, objects) == CHOOSE f \in [is -> objects] : IsInjective(f)

\* The local tenant object a row is given to: the first one with its id.
FirstWith(s, t) == s[CHOOSE n \in DOMAIN s : tenant[s[n]].id = t
                                             /\ \A m \in 1 .. n - 1 : tenant[s[m]].id # t]

\* The rows become objects that point to the tenant object `of' their tenant_id.
Loaded(is, f, of) ==
    child' = [c \in ChildObject |->
                IF \E i \in is : f[i] = c
                THEN LET i == CHOOSE j \in is : f[j] = c IN
                     [id |-> i, tenantID |-> childRow[i], tenant |-> of[childRow[i]]]
                ELSE child[c]]

\* The R of one tenant object is replaced.
LoadChildrenOfOne ==
    \E o \in Tenants :
    LET is == RowsOf({tenant[o].id})
        f == Fresh(is, ChildObject \ Children) IN
        /\ Step
        /\ Fits(is, ChildObject \ Children)
        /\ Loaded(is, f, [t \in TenantId |-> o])
        /\ tenant' = [tenant EXCEPT ![o].children = SetToSeq({f[i] : i \in is})]
        /\ rewritten' = rewritten \cup {o}
        /\ UNCHANGED <<rowVars, torn, moved>>

\* Mutant: the loop over the local objects goes on after a match.
LoadWithoutBreak ==
    \E s \in BoundedSeq(Tenants, 2) :
    LET is == RowsOf({tenant[s[n]].id : n \in DOMAIN s})
        f == Fresh(is, ChildObject \ Children) IN
        /\ Step /\ s # <<>>
        /\ Fits(is, ChildObject \ Children)
        /\ Loaded(is, f, [t \in {childRow[i] : i \in is} |-> FirstWith(s, t)])
        /\ tenant' = [o \in TenantObject |->
                        IF o \in ToSet(s)
                        THEN [tenant[o] EXCEPT !.children = @ \o SetToSeq(
                                {f[i] : i \in {j \in is : childRow[j] = tenant[o].id}})]
                        ELSE tenant[o]]
        /\ UNCHANGED <<rowVars, torn, moved, rewritten>>

\* To those of a slice the rows are added.
LoadChildrenOfSlice ==
    \E s \in BoundedSeq(Tenants, 2) :
    LET is == RowsOf({tenant[s[n]].id : n \in DOMAIN s})
        f == Fresh(is, ChildObject \ Children) IN
        /\ Step /\ s # <<>>
        /\ Fits(is, ChildObject \ Children)
        /\ Loaded(is, f, [t \in {childRow[i] : i \in is} |-> FirstWith(s, t)])
        /\ tenant' = [o \in TenantObject |->
                        IF o \in ToSet(s)
                        THEN [tenant[o] EXCEPT !.children = @ \o SetToSeq(
                                {f[i] : i \in {j \in is : FirstWith(s, childRow[j]) = o}})]
                        ELSE tenant[o]]
        /\ UNCHANGED <<rowVars, torn, moved, rewritten>>

\* Of children: one fresh tenant object for each id among them, shared by those
\* that have it.  The tenant object a child had keeps it in its list.
LoadTenants(cs) ==
    LET ids == {child[c].tenantID : c \in cs} \cap tenantRow
        found == {c \in cs : child[c].tenantID \in ids}
        f == Fresh(ids, TenantObject \ Tenants) IN
        /\ Step
        /\ Fits(ids, TenantObject \ Tenants)
        /\ child' = [c \in ChildObject |->
                       IF c \in found THEN [child[c] EXCEPT !.tenant = f[child[c].tenantID]]
                       ELSE child[c]]
        /\ tenant' = [o \in TenantObject |->
                        IF \E t \in ids : f[t] = o
                        THEN LET t == CHOOSE u \in ids : f[u] = o IN
                             [id |-> t, children |-> SetToSeq({c \in found : child[c].tenantID = t})]
                        ELSE tenant[o]]
        /\ moved' = moved \cup found
        /\ torn' = torn \ found
        /\ UNCHANGED <<rowVars, rewritten>>

\* For one child (singular) or a slice of them.
LoadTenant == \E cs \in SUBSET Children : cs # {} /\ LoadTenants(cs)

-----------------------------------------------------------------------------
(* The functions of each relation *)

LoadChildren(r) == relation = r /\ (LoadChildrenOfOne \/ LoadChildrenOfSlice)
AddChildren(r) == relation = r /\ \E insert \in BOOLEAN : Add(insert)

LoadDeadLetterMessages == LoadChildren("DeadLetterMessages")
LoadMessageProcessingLogs == LoadChildren("MessageProcessingLogs")
LoadTenantConfigs == LoadChildren("TenantConfigs")
AddDeadLetterMessages == AddChildren("DeadLetterMessages")
AddMessageProcessingLogs == AddChildren("MessageProcessingLogs")
AddTenantConfigs == AddChildren("TenantConfigs")
DeadLetterMessageLoadTenant == relation = "DeadLetterMessages" /\ LoadTenant
MessageProcessingLogLoadTenant == relation = "MessageProcessingLogs" /\ LoadTenant
TenantConfigLoadTenant == relation = "TenantConfigs" /\ LoadTenant
DeadLetterMessageSetTenant == relation = "DeadLetterMessages" /\ SetTenant
MessageProcessingLogSetTenant == relation = "MessageProcessingLogs" /\ SetTenant
TenantConfigSetTenant == relation = "TenantConfigs" /\ SetTenant

Next ==
    \/ NewTenant \/ NewChild \/ ReloadTenant \/ ReloadChild
    \/ LoadDeadLetterMessages \/ LoadMessageProcessingLogs \/ LoadTenantConfigs
    \/ AddDeadLetterMessages \/ AddMessageProcessingLogs \/ AddTenantConfigs
    \/ DeadLetterMessageLoadTenant \/ MessageProcessingLogLoadTenant \/ TenantConfigLoadTenant
    \/ DeadLetterMessageSetTenant \/ MessageProcessingLogSetTenant \/ TenantConfigSetTenant

Spec == Init /\ [][Next]_vars

-----------------------------------------------------------------------------
(* Properties *)

\* An object that points to a tenant object has that tenant's id in its foreign
\* key, through loads, moves and reloads in any order - unless an AddX that
\* returned an error had already assigned it another one: it does not undo what
\* it did before the statement that failed.
KeyAgreesWithPointer ==
    \A c \in Children :
        child[c].tenant # Nil => child[c].tenantID = tenant[child[c].tenant].id \/ c \in torn

\* The links go both ways: an object is in the list of the tenant object it
\* points to, unless a singular load or a Reload has replaced that list.
ListedWherePointed ==
    \A c \in Children :
        (child[c].tenant # Nil /\ child[c].tenant \notin rewritten)
            => c \in ToSet(tenant[child[c].tenant].children)

\* An object is in the lists of two tenant objects only if it was moved (AddX
\* and SetTenant do not take it out of the old list): eager loading gives each
\* row to one tenant object, also when two of the slice have the same id.
InOneList ==
    \A o, p \in Tenants :
        o # p => ToSet(tenant[o].children) \cap ToSet(tenant[p].children) \subseteq moved
===============================================================================

---------------------------- MODULE RelationsProofs ----------------------------
(***************************************************************************)
(* Proofs about Relations, for any number of objects, rows and operations. *)
(***************************************************************************)
EXTENDS Access, FiniteSetTheorems, FunctionTheorems, SequenceTheorems, TLAPS

-----------------------------------------------------------------------------
(* Sequences and fresh objects *)

\* Relations' own copies of the library's operators are the library's.
LEMMA SameLibrary ==
    /\ \A X : R!IsFiniteSet(X) <=> IsFiniteSet(X)
    /\ \A X : R!Cardinality(X) = Cardinality(X)
BY DEF R!IsFiniteSet, IsFiniteSet, R!Cardinality, Cardinality

LEMMA ToSetConcat ==
    ASSUME NEW X, NEW s \in Seq(X), NEW t \in Seq(X)
    PROVE  /\ s \o t \in Seq(X)
           /\ R!ToSet(s \o t) = R!ToSet(s) \cup R!ToSet(t)
<1>1. /\ s \o t \in Seq(X)
      /\ Len(s \o t) = Len(s) + Len(t)
      /\ \A i \in 1 .. Len(s) + Len(t) :
           (s \o t)[i] = IF i <= Len(s) THEN s[i] ELSE t[i - Len(s)]
  BY ConcatProperties
<1>2. /\ Len(s) \in Nat /\ DOMAIN s = 1 .. Len(s)
      /\ Len(t) \in Nat /\ DOMAIN t = 1 .. Len(t)
      /\ DOMAIN (s \o t) = 1 .. Len(s \o t)
  BY <1>1, LenProperties
<1>3. ASSUME NEW x \in R!ToSet(s \o t) PROVE x \in R!ToSet(s) \cup R!ToSet(t)
  <2>1. PICK i \in 1 .. Len(s) + Len(t) : x = (s \o t)[i]
    BY <1>1, <1>2, <1>3 DEF R!ToSet
  <2>2. CASE i <= Len(s)
    BY <1>1, <1>2, <2>1, <2>2 DEF R!ToSet
  <2>3. CASE ~(i <= Len(s))
    <3>1. i - Len(s) \in 1 .. Len(t) /\ x = t[i - Len(s)]
      BY <1>1, <1>2, <2>1, <2>3
    <3> QED
      BY <3>1, <1>2 DEF R!ToSet
  <2> QED
    BY <2>2, <2>3
<1>4. ASSUME NEW x \in R!ToSet(s) PROVE x \in R!ToSet(s \o t)
  <2>1. PICK i \in 1 .. Len(s) : x = s[i]
    BY <1>2, <1>4 DEF R!ToSet
  <2>2. i \in 1 .. Len(s) + Len(t) /\ (s \o t)[i] = x
    BY <1>1, <1>2, <2>1
  <2> QED
    BY <2>2, <1>1, <1>2 DEF R!ToSet
<1>5. ASSUME NEW x \in R!ToSet(t) PROVE x \in R!ToSet(s \o t)
  <2>1. PICK i \in 1 .. Len(t) : x = t[i]
    BY <1>2, <1>5 DEF R!ToSet
  <2>2. Len(s) + i \in 1 .. Len(s) + Len(t) /\ (s \o t)[Len(s) + i] = x
    BY <1>1, <1>2, <2>1
  <2> QED
    BY <2>2, <1>1, <1>2 DEF R!ToSet
<1> QED
  BY <1>1, <1>3, <1>4, <1>5

\* The members of a list are what it lists.
LEMMA ToSetType ==
    ASSUME NEW X, NEW s \in Seq(X)
    PROVE  R!ToSet(s) \subseteq X
BY LenProperties, ElementOfSeq DEF R!ToSet

\* One fresh object for each row: if there are enough, the choice exists.
LEMMA FreshIsInjective ==
    ASSUME NEW is, NEW objects, IsFiniteSet(is), IsFiniteSet(objects), R!Fits(is, objects)
    PROVE  /\ R!Fresh(is, objects) \in [is -> objects]
           /\ \A i, j \in is : R!Fresh(is, objects)[i] = R!Fresh(is, objects)[j] => i = j
<1>1. \E f \in [is -> objects] : \A i, j \in is : f[i] = f[j] => i = j
  <2>1. /\ Cardinality(is) \in Nat /\ ExistsBijection(1 .. Cardinality(is), is)
        /\ Cardinality(objects) \in Nat /\ ExistsBijection(1 .. Cardinality(objects), objects)
    BY FS_CardinalityType
  <2>2. Cardinality(is) <= Cardinality(objects)
    BY SameLibrary DEF R!Fits
  <2>3. PICK g \in Bijection(1 .. Cardinality(objects), objects) : TRUE
    BY <2>1, Fun_ExistsBij
  <2>4. PICK h \in Bijection(is, 1 .. Cardinality(is)) : TRUE
    BY <2>1, Fun_ExistsBij, Fun_ExistsBijSymmetric
  <2>5. /\ g \in [1 .. Cardinality(objects) -> objects]
        /\ \A i, j \in 1 .. Cardinality(objects) : g[i] = g[j] => i = j
        /\ h \in [is -> 1 .. Cardinality(is)]
        /\ \A i, j \in is : h[i] = h[j] => i = j
    BY <2>3, <2>4 DEF Bijection, Injection, IsInjective
  <2>6. \A i \in is : h[i] \in 1 .. Cardinality(objects)
    BY <2>1, <2>2, <2>5
  <2> DEFINE f == [i \in is |-> g[h[i]]]
  <2>7. f \in [is -> objects] /\ \A i, j \in is : f[i] = f[j] => i = j
    BY <2>5, <2>6
  <2> QED
    BY <2>7
<1>2. \E f \in [is -> objects] : R!IsInjective(f)
  BY <1>1 DEF R!IsInjective
<1>3. R!Fresh(is, objects) \in [is -> objects] /\ R!IsInjective(R!Fresh(is, objects))
  BY <1>2 DEF R!Fresh
<1> QED
  BY <1>3 DEF R!IsInjective

\* A finite set as a list has the members of the set.
LEMMA SetToSeqMembers ==
    ASSUME NEW X, NEW T \in SUBSET X, IsFiniteSet(T)
    PROVE  /\ R!SetToSeq(T) \in Seq(X)
           /\ R!ToSet(R!SetToSeq(T)) = T
<1> DEFINE n == Cardinality(T)
<1>1. n \in Nat /\ ExistsBijection(1 .. n, T)
  BY FS_CardinalityType
<1>2. PICK g \in Bijection(1 .. n, T) : TRUE
  BY <1>1, Fun_ExistsBij
<1>3. g \in [1 .. n -> T] /\ \A i, j \in 1 .. n : g[i] = g[j] => i = j
  BY <1>2 DEF Bijection, Injection, IsInjective
<1>4. \E f \in [1 .. n -> T] : R!IsInjective(f)
  BY <1>3 DEF R!IsInjective
<1>5. /\ R!SetToSeq(T) \in [1 .. n -> T]
      /\ R!IsInjective(R!SetToSeq(T))
  BY <1>4, SameLibrary DEF R!SetToSeq
<1> DEFINE s == R!SetToSeq(T)
<1> HIDE DEF n, s
<1>6. s \in Injection(1 .. n, T)
  BY <1>5, Fun_IsInj DEF s, R!IsInjective
<1>7. s \in Surjection(1 .. n, T)
  <2>1. Cardinality(1 .. n) = n
    BY <1>1, FS_Interval
  <2> QED
    BY <1>6, <2>1, FS_Injection DEF n
<1>8. \A x \in T : \E i \in 1 .. n : s[i] = x
  BY <1>7 DEF Surjection
<1>9. s \in Seq(X)
  BY <1>1, <1>5 DEF s
<1>10. DOMAIN s = 1 .. n
  BY <1>5 DEF s
<1> QED
  BY <1>5, <1>8, <1>9, <1>10 DEF s, R!ToSet
-----------------------------------------------------------------------------
(* The invariant *)

TenantRecord == [id : TenantId, children : Seq(ChildObject)]
ChildRecord == [id : ChildId, tenantID : TenantId \cup {Nil}, tenant : TenantObject \cup {Nil}]

\* What the variables are.
RelationsTypeOK ==
    /\ tenantRow \subseteq TenantId
    /\ childRow \in [ChildId -> TenantId \cup {Nil}]
    /\ tenant \in [TenantObject -> {R!Free} \cup TenantRecord]
    /\ child \in [ChildObject -> {R!Free} \cup ChildRecord]

\* No R struct refers to an object that does not exist: a fresh object is one
\* nobody knows.
NoDanglingLink ==
    /\ \A c \in R!Children : child[c].tenant # Nil => child[c].tenant \in R!Tenants
    /\ \A o \in R!Tenants : R!ToSet(tenant[o].children) \subseteq R!Children

RelationsInv ==
    /\ RelationsTypeOK
    /\ NoDanglingLink
    /\ KeyAgreesWithPointer
    /\ ListedWherePointed
    /\ InOneList

-----------------------------------------------------------------------------
(* Objects that exist and objects that do not *)

LEMMA RecordsAreObjects ==
    /\ \A r \in TenantRecord : r # R!Free
    /\ \A r \in ChildRecord : r # R!Free
<1>1. ASSUME NEW r \in TenantRecord PROVE r # R!Free
  <2>1. "children" \in DOMAIN r /\ "children" \notin DOMAIN R!Free
    BY DEF TenantRecord, R!Free
  <2> QED
    BY <2>1
<1>2. ASSUME NEW r \in ChildRecord PROVE r # R!Free
  <2>1. "tenant" \in DOMAIN r /\ "tenant" \notin DOMAIN R!Free
    BY DEF ChildRecord, R!Free
  <2> QED
    BY <2>1
<1> QED
  BY <1>1, <1>2

LEMMA ObjectsAreRecords ==
    RelationsTypeOK =>
        /\ \A o \in R!Tenants : o \in TenantObject /\ tenant[o] \in TenantRecord
        /\ \A c \in R!Children : c \in ChildObject /\ child[c] \in ChildRecord
BY DEF RelationsTypeOK, R!Tenants, R!Children

-----------------------------------------------------------------------------
(* Finding, inserting, reloading *)

LEMMA NewTenantKeepsInv == RelationsInv /\ R!NewTenant => RelationsInv'
<1> SUFFICES ASSUME RelationsInv, R!NewTenant PROVE RelationsInv'
  OBVIOUS
<1> DEFINE o == CHOOSE p \in TenantObject \ R!Tenants : TRUE
<1>1. o \in TenantObject /\ o \notin R!Tenants
  <2>1. \E p \in TenantObject : p \notin R!Tenants
    BY DEF R!NewTenant, R!Tenants
  <2> QED
    BY <2>1
<1>2. PICK t \in TenantId :
        /\ tenant' = [tenant EXCEPT ![o] = [id |-> t, children |-> <<>>]]
        /\ UNCHANGED <<tenantRow, childRow, child, torn, moved, rewritten>>
  BY DEF R!NewTenant, R!rowVars
<1> HIDE DEF o
<1>3. /\ [id |-> t, children |-> <<>>] \in TenantRecord
      /\ R!ToSet(<<>>) = {}
  BY EmptySeq DEF TenantRecord, R!ToSet
<1>4. tenant' \in [TenantObject -> {R!Free} \cup TenantRecord]
  BY <1>2, <1>3 DEF RelationsInv, RelationsTypeOK
<1>5. /\ tenant'[o].id = t /\ tenant'[o].children = <<>>
      /\ \A p \in R!Tenants : tenant'[p] = tenant[p]
      /\ R!Tenants' = R!Tenants \cup {o}
      /\ R!Children' = R!Children
  <2>1. \A p \in TenantObject :
          tenant'[p] = IF p = o THEN [id |-> t, children |-> <<>>] ELSE tenant[p]
    BY <1>2 DEF RelationsInv, RelationsTypeOK
  <2>2. [id |-> t, children |-> <<>>] # R!Free
    BY <1>3, RecordsAreObjects
  <2> QED
    BY <1>1, <1>2, <2>1, <2>2 DEF R!Tenants, R!Children
<1>6. RelationsTypeOK'
  BY <1>2, <1>4 DEF RelationsInv, RelationsTypeOK
<1>7. NoDanglingLink'
  BY <1>1, <1>2, <1>3, <1>5 DEF RelationsInv, NoDanglingLink
<1>8. KeyAgreesWithPointer'
  BY <1>1, <1>2, <1>5 DEF RelationsInv, NoDanglingLink, KeyAgreesWithPointer, R!KeyAgreesWithPointer
<1>9. ListedWherePointed'
  BY <1>1, <1>2, <1>5 DEF RelationsInv, NoDanglingLink, ListedWherePointed, R!ListedWherePointed
<1>10. InOneList'
  BY <1>1, <1>2, <1>3, <1>5 DEF RelationsInv, InOneList, R!InOneList
<1> QED
  BY <1>6, <1>7, <1>8, <1>9, <1>10 DEF RelationsInv

LEMMA NewChildKeepsInv == RelationsInv /\ R!NewChild => RelationsInv'
<1> SUFFICES ASSUME RelationsInv, R!NewChild PROVE RelationsInv'
  OBVIOUS
<1> DEFINE c == CHOOSE d \in ChildObject \ R!Children : TRUE
<1>1. c \in ChildObject /\ c \notin R!Children
  <2>1. \E d \in ChildObject : d \notin R!Children
    BY DEF R!NewChild, R!Children
  <2> QED
    BY <2>1
<1>2. PICK i \in ChildId :
        /\ child' = [child EXCEPT ![c] = [id |-> i, tenantID |-> childRow[i], tenant |-> Nil]]
        /\ UNCHANGED <<tenantRow, childRow, tenant, torn, moved, rewritten>>
  BY DEF R!NewChild, R!rowVars
<1> HIDE DEF c
<1>3. [id |-> i, tenantID |-> childRow[i], tenant |-> Nil] \in ChildRecord
  BY DEF ChildRecord, RelationsInv, RelationsTypeOK
<1>4. child' \in [ChildObject -> {R!Free} \cup ChildRecord]
  BY <1>2, <1>3 DEF RelationsInv, RelationsTypeOK
<1>5. /\ child'[c].tenant = Nil
      /\ \A d \in R!Children : child'[d] = child[d]
      /\ R!Children' = R!Children \cup {c}
      /\ R!Tenants' = R!Tenants
  <2>1. \A d \in ChildObject :
          child'[d] = IF d = c THEN [id |-> i, tenantID |-> childRow[i], tenant |-> Nil]
                      ELSE child[d]
    BY <1>2 DEF RelationsInv, RelationsTypeOK
  <2>2. [id |-> i, tenantID |-> childRow[i], tenant |-> Nil] # R!Free
    BY <1>3, RecordsAreObjects
  <2> QED
    BY <1>1, <1>2, <2>1, <2>2 DEF R!Tenants, R!Children
<1>6. RelationsTypeOK'
  BY <1>2, <1>4 DEF RelationsInv, RelationsTypeOK
<1>7. NoDanglingLink'
  BY <1>1, <1>2, <1>5 DEF RelationsInv, NoDanglingLink
<1>8. KeyAgreesWithPointer'
  BY <1>1, <1>2, <1>5 DEF RelationsInv, KeyAgreesWithPointer, R!KeyAgreesWithPointer
<1>9. ListedWherePointed'
  BY <1>1, <1>2, <1>5 DEF RelationsInv, ListedWherePointed, R!ListedWherePointed
<1>10. InOneList'
  BY <1>2, <1>5 DEF RelationsInv, InOneList, R!InOneList
<1> QED
  BY <1>6, <1>7, <1>8, <1>9, <1>10 DEF RelationsInv

\* A reloaded tenant object is marked: its list is empty while children point to it.
LEMMA ReloadTenantKeepsInv == RelationsInv /\ R!ReloadTenant => RelationsInv'
<1> SUFFICES ASSUME RelationsInv, R!ReloadTenant PROVE RelationsInv'
  OBVIOUS
<1>1. PICK o \in R!Tenants :
        /\ tenant' = [tenant EXCEPT ![o].children = <<>>]
        /\ rewritten' = rewritten \cup {o}
        /\ UNCHANGED <<tenantRow, childRow, child, torn, moved>>
  BY DEF R!ReloadTenant, R!rowVars
<1>2. o \in TenantObject /\ tenant[o] \in TenantRecord
  BY ObjectsAreRecords DEF RelationsInv
<1>3. /\ [tenant[o] EXCEPT !.children = <<>>] \in TenantRecord
      /\ [tenant[o] EXCEPT !.children = <<>>].id = tenant[o].id
      /\ [tenant[o] EXCEPT !.children = <<>>].children = <<>>
      /\ R!ToSet(<<>>) = {}
  <2>1. <<>> \in Seq(ChildObject) /\ R!ToSet(<<>>) = {}
    BY EmptySeq DEF R!ToSet
  <2> QED
    BY <1>2, <2>1 DEF TenantRecord
<1>4. tenant' \in [TenantObject -> {R!Free} \cup TenantRecord]
  BY <1>1, <1>2, <1>3 DEF RelationsInv, RelationsTypeOK
<1>5. /\ tenant'[o].id = tenant[o].id /\ tenant'[o].children = <<>>
      /\ \A p \in R!Tenants : p # o => tenant'[p] = tenant[p]
      /\ R!Tenants' = R!Tenants
      /\ R!Children' = R!Children
  <2>1. \A p \in TenantObject :
          tenant'[p] = IF p = o THEN [tenant[o] EXCEPT !.children = <<>>] ELSE tenant[p]
    BY <1>1 DEF RelationsInv, RelationsTypeOK
  <2>2. [tenant[o] EXCEPT !.children = <<>>] # R!Free
    BY <1>3, RecordsAreObjects
  <2> QED
    BY <1>1, <1>2, <1>3, <2>1, <2>2 DEF R!Tenants, R!Children
<1>6. RelationsTypeOK'
  BY <1>1, <1>4 DEF RelationsInv, RelationsTypeOK
<1>7. NoDanglingLink'
  BY <1>1, <1>3, <1>5 DEF RelationsInv, NoDanglingLink
<1>8. KeyAgreesWithPointer'
  BY <1>1, <1>5 DEF RelationsInv, NoDanglingLink, KeyAgreesWithPointer, R!KeyAgreesWithPointer
<1>9. ListedWherePointed'
  BY <1>1, <1>5 DEF RelationsInv, NoDanglingLink, ListedWherePointed, R!ListedWherePointed
<1>10. InOneList'
  BY <1>1, <1>3, <1>5 DEF RelationsInv, InOneList, R!InOneList
<1> QED
  BY <1>6, <1>7, <1>8, <1>9, <1>10 DEF RelationsInv

LEMMA ReloadChildKeepsInv == RelationsInv /\ R!ReloadChild => RelationsInv'
<1> SUFFICES ASSUME RelationsInv, R!ReloadChild PROVE RelationsInv'
  OBVIOUS
<1>1. PICK c \in R!Children :
        /\ child' = [child EXCEPT ![c].tenantID = childRow[child[c].id], ![c].tenant = Nil]
        /\ torn' = torn \ {c}
        /\ UNCHANGED <<tenantRow, childRow, tenant, moved, rewritten>>
  BY DEF R!ReloadChild, R!rowVars
<1> DEFINE r == [child[c] EXCEPT !.tenantID = childRow[child[c].id], !.tenant = Nil]
<1>2. c \in ChildObject /\ child[c] \in ChildRecord
  BY ObjectsAreRecords DEF RelationsInv
<1>3. r \in ChildRecord /\ r.tenant = Nil
  BY <1>2 DEF ChildRecord, RelationsInv, RelationsTypeOK
<1>4. \A d \in ChildObject : child'[d] = IF d = c THEN r ELSE child[d]
  BY <1>1, <1>2 DEF RelationsInv, RelationsTypeOK
<1>5. child' \in [ChildObject -> {R!Free} \cup ChildRecord]
  BY <1>1, <1>2, <1>3, <1>4 DEF RelationsInv, RelationsTypeOK
<1>6. /\ child'[c].tenant = Nil
      /\ \A d \in R!Children : d # c => child'[d] = child[d]
      /\ R!Children' = R!Children
      /\ R!Tenants' = R!Tenants
      /\ UNCHANGED <<tenantRow, childRow, tenant, moved, rewritten>>
      /\ torn \subseteq torn' \cup {c}
  <2>1. r # R!Free
    BY <1>3, RecordsAreObjects
  <2> HIDE DEF r
  <2> QED
    BY <1>1, <1>2, <1>3, <1>4, <2>1 DEF R!Tenants, R!Children
<1> HIDE DEF r
<1>7. RelationsTypeOK'
  BY <1>5, <1>6 DEF RelationsInv, RelationsTypeOK
<1>8. NoDanglingLink'
  BY <1>6 DEF RelationsInv, NoDanglingLink
<1>9. KeyAgreesWithPointer'
  BY <1>6 DEF RelationsInv, KeyAgreesWithPointer, R!KeyAgreesWithPointer
<1>10. ListedWherePointed'
  BY <1>6 DEF RelationsInv, ListedWherePointed, R!ListedWherePointed
<1>11. InOneList'
  BY <1>6 DEF RelationsInv, InOneList, R!InOneList
<1> QED
  BY <1>7, <1>8, <1>9, <1>10, <1>11 DEF RelationsInv

-----------------------------------------------------------------------------
(* AddX and SetTenant *)

LEMMA RelatedAreChildren ==
    ASSUME NEW s \in R!Related
    PROVE  s \in Seq(R!Children)
<1>1. s \in UNION {[1 .. m -> R!Children] : m \in 0 .. 2}
  BY DEF R!Related, R!BoundedSeq, R!SeqOf
<1>2. PICK m \in 0 .. 2 : s \in [1 .. m -> R!Children]
  BY <1>1
<1>3. m \in Nat
  BY <1>2
<1> QED
  BY <1>2, <1>3

LEMMA RowsWrittenType ==
    ASSUME RelationsTypeOK, NEW insert, NEW s, NEW k, NEW t \in TenantId,
           R!RowsWritten(insert, s, k, t)
    PROVE  childRow' \in [ChildId -> TenantId \cup {Nil}]
BY DEF R!RowsWritten, RelationsTypeOK

\* Linking children s to o, where l lists what o had and the new ones.
LEMMA LinkedKeepsInv ==
    ASSUME RelationsInv,
           NEW o \in R!Tenants, NEW s \in Seq(R!Children), NEW l \in Seq(ChildObject),
           R!ToSet(l) = R!ToSet(tenant[o].children) \cup R!ToSet(s),
           R!Linked(o, s, l),
           tenantRow' \subseteq TenantId, childRow' \in [ChildId -> TenantId \cup {Nil}]
    PROVE  RelationsInv'
<1> DEFINE cs == R!ToSet(s)
<1>1. /\ tenant' = [tenant EXCEPT ![o].children = l]
      /\ child' = [c \in ChildObject |->
                     IF c \in cs THEN [child[c] EXCEPT !.tenantID = tenant[o].id, !.tenant = o]
                     ELSE child[c]]
      /\ torn' = torn \ cs
      /\ moved' = moved \cup cs
      /\ rewritten' = rewritten
  BY DEF R!Linked
<1>2. cs \subseteq R!Children
  BY ToSetType
<1> HIDE DEF cs
<1>3. /\ o \in TenantObject /\ tenant[o] \in TenantRecord
      /\ \A c \in cs : c \in ChildObject /\ child[c] \in ChildRecord
  BY <1>2, ObjectsAreRecords DEF RelationsInv
<1>4. /\ [tenant[o] EXCEPT !.children = l] \in TenantRecord
      /\ [tenant[o] EXCEPT !.children = l].id = tenant[o].id
      /\ [tenant[o] EXCEPT !.children = l].children = l
  BY <1>3 DEF TenantRecord
<1>5. \A c \in cs :
        LET r == [child[c] EXCEPT !.tenantID = tenant[o].id, !.tenant = o] IN
        r \in ChildRecord /\ r.tenantID = tenant[o].id /\ r.tenant = o
  BY <1>3 DEF TenantRecord, ChildRecord
<1>6. tenant' \in [TenantObject -> {R!Free} \cup TenantRecord]
  BY <1>1, <1>3, <1>4 DEF RelationsInv, RelationsTypeOK
<1>7. child' \in [ChildObject -> {R!Free} \cup ChildRecord]
  BY <1>1, <1>5 DEF RelationsInv, RelationsTypeOK
<1>8. /\ tenant'[o].id = tenant[o].id /\ tenant'[o].children = l
      /\ \A p \in R!Tenants : p # o => tenant'[p] = tenant[p]
      /\ R!Tenants' = R!Tenants
  <2>1. \A p \in TenantObject :
          tenant'[p] = IF p = o THEN [tenant[o] EXCEPT !.children = l] ELSE tenant[p]
    BY <1>1 DEF RelationsInv, RelationsTypeOK
  <2>2. [tenant[o] EXCEPT !.children = l] # R!Free
    BY <1>4, RecordsAreObjects
  <2> QED
    BY <1>3, <1>4, <2>1, <2>2 DEF R!Tenants
<1>9. /\ \A c \in cs : child'[c].tenantID = tenant[o].id /\ child'[c].tenant = o
      /\ \A c \in R!Children : c \notin cs => child'[c] = child[c]
      /\ R!Children' = R!Children
  <2>1. \A c \in cs : child'[c] \in ChildRecord
                      /\ child'[c].tenantID = tenant[o].id /\ child'[c].tenant = o
    BY <1>1, <1>3, <1>5
  <2>2. \A c \in ChildObject : c \notin cs => child'[c] = child[c]
    BY <1>1
  <2>3. \A c \in cs : child'[c] # R!Free
    BY <2>1, RecordsAreObjects
  <2> QED
    BY <1>2, <2>1, <2>2, <2>3 DEF R!Children
<1>10. torn' = torn \ cs /\ moved' = moved \cup cs /\ rewritten' = rewritten
  BY <1>1
<1>11. RelationsTypeOK'
  BY <1>6, <1>7 DEF RelationsTypeOK
<1>12. R!ToSet(l) = R!ToSet(tenant[o].children) \cup cs
  BY DEF cs
<1>13. NoDanglingLink'
  BY <1>2, <1>8, <1>9, <1>12 DEF RelationsInv, NoDanglingLink
<1>14. KeyAgreesWithPointer'
  BY <1>2, <1>8, <1>9, <1>10
     DEF RelationsInv, NoDanglingLink, KeyAgreesWithPointer, R!KeyAgreesWithPointer
<1>15. ListedWherePointed'
  BY <1>2, <1>8, <1>9, <1>10, <1>12
     DEF RelationsInv, NoDanglingLink, ListedWherePointed, R!ListedWherePointed
<1>16. InOneList'
  BY <1>8, <1>10, <1>12 DEF RelationsInv, InOneList, R!InOneList
<1> QED
  BY <1>11, <1>13, <1>14, <1>15, <1>16 DEF RelationsInv

\* Whoever was given the new key by an AddX that failed is in torn.
LEMMA AddFailsKeepsInv ==
    ASSUME RelationsInv, NEW o \in R!Tenants, NEW insert, NEW s \in Seq(R!Children),
           R!AddFails(o, s, insert), tenantRow' = tenantRow
    PROVE  RelationsInv'
<1>1. PICK k \in 0 .. Len(s) - 1 :
        LET n == IF insert THEN k + 1 ELSE k IN
        /\ R!RowsWritten(insert, s, k, tenant[o].id)
        /\ child' = R!Assigned(s, n, tenant[o].id)
        /\ torn' = torn \cup {s[i] : i \in 1 .. n}
        /\ UNCHANGED <<tenant, moved, rewritten>>
  BY DEF R!AddFails
<1> DEFINE n == IF insert THEN k + 1 ELSE k
           cs == {s[i] : i \in 1 .. n}
           t == tenant[o].id
<1>2. n \in 0 .. Len(s)
  BY LenProperties
<1>3. /\ R!RowsWritten(insert, s, k, t)
      /\ child' = [c \in ChildObject |-> IF c \in cs THEN [child[c] EXCEPT !.tenantID = t]
                                         ELSE child[c]]
      /\ torn' = torn \cup cs
      /\ UNCHANGED <<tenant, moved, rewritten>>
  BY <1>1 DEF R!Assigned
<1>4. cs \subseteq R!Children
  BY <1>2, LenProperties, ElementOfSeq
<1>5. t \in TenantId
  BY ObjectsAreRecords DEF RelationsInv, TenantRecord
<1> HIDE DEF n, cs, t
<1>6. childRow' \in [ChildId -> TenantId \cup {Nil}]
  BY <1>3, <1>5, RowsWrittenType DEF RelationsInv
<1>7. \A c \in cs : /\ c \in ChildObject /\ child[c] \in ChildRecord
                    /\ [child[c] EXCEPT !.tenantID = t] \in ChildRecord
                    /\ [child[c] EXCEPT !.tenantID = t].tenant = child[c].tenant
  BY <1>4, <1>5, ObjectsAreRecords DEF RelationsInv, ChildRecord
<1>8. child' \in [ChildObject -> {R!Free} \cup ChildRecord]
  BY <1>3, <1>7 DEF RelationsInv, RelationsTypeOK
<1>9. /\ \A c \in cs : child'[c].tenant = child[c].tenant
      /\ \A c \in R!Children : c \notin cs => child'[c] = child[c]
      /\ R!Children' = R!Children
      /\ R!Tenants' = R!Tenants
  <2>1. \A c \in cs : child'[c] \in ChildRecord /\ child'[c].tenant = child[c].tenant
    BY <1>3, <1>7
  <2>2. \A c \in ChildObject : c \notin cs => child'[c] = child[c]
    BY <1>3
  <2>3. \A c \in cs : child'[c] # R!Free
    BY <2>1, RecordsAreObjects
  <2> QED
    BY <1>3, <1>4, <2>1, <2>2, <2>3 DEF R!Children, R!Tenants
<1>10. torn' = torn \cup cs /\ UNCHANGED <<tenant, moved, rewritten>>
  BY <1>3
<1>11. RelationsTypeOK'
  BY <1>6, <1>8, <1>10 DEF RelationsInv, RelationsTypeOK
<1>12. NoDanglingLink'
  BY <1>4, <1>9, <1>10 DEF RelationsInv, NoDanglingLink
<1>13. KeyAgreesWithPointer'
  BY <1>4, <1>9, <1>10 DEF RelationsInv, KeyAgreesWithPointer, R!KeyAgreesWithPointer
<1>14. ListedWherePointed'
  BY <1>4, <1>9, <1>10 DEF RelationsInv, ListedWherePointed, R!ListedWherePointed
<1>15. InOneList'
  BY <1>9, <1>10 DEF RelationsInv, InOneList, R!InOneList
<1> QED
  BY <1>11, <1>12, <1>13, <1>14, <1>15 DEF RelationsInv

LEMMA AddKeepsInv ==
    ASSUME NEW insert \in BOOLEAN, RelationsInv, R!Add(insert)
    PROVE  RelationsInv'
<1>1. PICK o \in R!Tenants, s \in R!Related :
        /\ UNCHANGED tenantRow
        /\ \/ /\ R!RowsWritten(insert, s, Len(s), tenant[o].id)
              /\ R!Linked(o, s, tenant[o].children \o s)
           \/ R!AddFails(o, s, insert)
  BY DEF R!Add
<1>2. s \in Seq(R!Children)
  BY RelatedAreChildren
<1>3. o \in TenantObject /\ tenant[o].id \in TenantId /\ tenant[o].children \in Seq(ChildObject)
  BY ObjectsAreRecords DEF RelationsInv, TenantRecord
<1>4. CASE R!AddFails(o, s, insert)
  BY <1>1, <1>2, <1>4, AddFailsKeepsInv
<1>5. CASE /\ R!RowsWritten(insert, s, Len(s), tenant[o].id)
           /\ R!Linked(o, s, tenant[o].children \o s)
  <2>1. s \in Seq(ChildObject)
    BY <1>2, SeqMonotonic DEF R!Children
  <2>2. /\ tenant[o].children \o s \in Seq(ChildObject)
        /\ R!ToSet(tenant[o].children \o s) = R!ToSet(tenant[o].children) \cup R!ToSet(s)
    BY <1>3, <2>1, ToSetConcat
  <2>3. childRow' \in [ChildId -> TenantId \cup {Nil}]
    BY <1>3, <1>5, RowsWrittenType DEF RelationsInv
  <2>4. tenantRow' \subseteq TenantId
    BY <1>1 DEF RelationsInv, RelationsTypeOK
  <2> QED
    BY <1>2, <1>5, <2>2, <2>3, <2>4, LinkedKeepsInv
<1> QED
  BY <1>1, <1>4, <1>5

\* Only rows of tenants are written.
LEMMA NewTenantRowKeepsInv ==
    ASSUME RelationsInv, tenantRow' \subseteq TenantId,
           UNCHANGED <<childRow, tenant, child, torn, moved, rewritten>>
    PROVE  RelationsInv'
<1>1. R!Tenants' = R!Tenants /\ R!Children' = R!Children
  BY DEF R!Tenants, R!Children
<1> QED
  BY <1>1 DEF RelationsInv, RelationsTypeOK, NoDanglingLink, KeyAgreesWithPointer,
     R!KeyAgreesWithPointer, ListedWherePointed, R!ListedWherePointed, InOneList, R!InOneList

LEMMA SetTenantKeepsInv == RelationsInv /\ R!SetTenant => RelationsInv'
<1> SUFFICES ASSUME RelationsInv, R!SetTenant PROVE RelationsInv'
  OBVIOUS
<1>1. PICK c \in R!Children, o \in R!Tenants :
        /\ tenantRow' \in {tenantRow, tenantRow \cup {tenant[o].id}}
        /\ \/ /\ R!RowsWritten(FALSE, <<c>>, 1, tenant[o].id)
              /\ R!Linked(o, <<c>>, Append(tenant[o].children, c))
           \/ UNCHANGED <<childRow, tenant, child, torn, moved, rewritten>>
  BY DEF R!SetTenant
<1>2. /\ tenant[o].id \in TenantId /\ tenant[o].children \in Seq(ChildObject)
      /\ c \in ChildObject
  BY ObjectsAreRecords DEF RelationsInv, TenantRecord
<1>3. tenantRow' \subseteq TenantId
  BY <1>1, <1>2 DEF RelationsInv, RelationsTypeOK
<1>4. CASE UNCHANGED <<childRow, tenant, child, torn, moved, rewritten>>
  BY <1>3, <1>4, NewTenantRowKeepsInv
<1>5. CASE /\ R!RowsWritten(FALSE, <<c>>, 1, tenant[o].id)
           /\ R!Linked(o, <<c>>, Append(tenant[o].children, c))
  <2>1. <<c>> \in Seq(R!Children) /\ <<c>> \in Seq(ChildObject)
    BY <1>2
  <2>2. Append(tenant[o].children, c) = tenant[o].children \o <<c>>
    BY <1>2, AppendIsConcat
  <2>3. /\ Append(tenant[o].children, c) \in Seq(ChildObject)
        /\ R!ToSet(Append(tenant[o].children, c))
              = R!ToSet(tenant[o].children) \cup R!ToSet(<<c>>)
    <3> DEFINE l == tenant[o].children
               s == <<c>>
    <3>1. l \in Seq(ChildObject) /\ s \in Seq(ChildObject)
      BY <1>2, <2>1
    <3> HIDE DEF l, s
    <3>2. /\ l \o s \in Seq(ChildObject)
          /\ R!ToSet(l \o s) = R!ToSet(l) \cup R!ToSet(s)
      BY <3>1, ToSetConcat
    <3> QED
      BY <2>2, <3>2 DEF l, s
  <2>4. childRow' \in [ChildId -> TenantId \cup {Nil}]
    BY <1>2, <1>5, RowsWrittenType DEF RelationsInv
  <2> QED
    BY <1>3, <1>5, <2>1, <2>3, <2>4, LinkedKeepsInv
<1> QED
  BY <1>1, <1>4, <1>5

-----------------------------------------------------------------------------
(* Eager loading *)

\* Of any set of rows there are, objects that do not exist yet are taken.
LEMMA FreshChildren ==
    ASSUME NEW is \in SUBSET ChildId, R!Fits(is, ChildObject \ R!Children)
    PROVE  LET f == R!Fresh(is, ChildObject \ R!Children) IN
           /\ f \in [is -> ChildObject \ R!Children]
           /\ \A i, j \in is : f[i] = f[j] => i = j
<1>1. IsFiniteSet(is) /\ IsFiniteSet(ChildObject \ R!Children)
  <2>1. ChildObject \ R!Children \in SUBSET ChildObject
    OBVIOUS
  <2> QED
    BY <2>1, FinitelyMany, FS_Subset
<1> QED
  BY <1>1, FreshIsInjective

LEMMA FreshTenants ==
    ASSUME NEW ids \in SUBSET TenantId, R!Fits(ids, TenantObject \ R!Tenants)
    PROVE  LET f == R!Fresh(ids, TenantObject \ R!Tenants) IN
           /\ f \in [ids -> TenantObject \ R!Tenants]
           /\ \A t, u \in ids : f[t] = f[u] => t = u
<1>1. IsFiniteSet(ids) /\ IsFiniteSet(TenantObject \ R!Tenants)
  <2>1. TenantObject \ R!Tenants \in SUBSET TenantObject
    OBVIOUS
  <2> QED
    BY <2>1, FinitelyMany, FS_Subset
<1> QED
  BY <1>1, FreshIsInjective

\* A list made of a set of children lists these.
LEMMA ListOfChildren ==
    ASSUME NEW cs \in SUBSET ChildObject
    PROVE  R!SetToSeq(cs) \in Seq(ChildObject) /\ R!ToSet(R!SetToSeq(cs)) = cs
<1>1. IsFiniteSet(cs)
  BY FinitelyMany, FS_Subset
<1> QED
  BY <1>1, SetToSeqMembers

\* What the objects of loaded rows are: they point where `of' says.
LEMMA LoadedObjects ==
    ASSUME RelationsTypeOK, NEW is \in SUBSET ChildId,
           NEW f \in [is -> ChildObject \ R!Children],
           \A i, j \in is : f[i] = f[j] => i = j,
           NEW of, \A i \in is : of[childRow[i]] \in TenantObject,
           R!Loaded(is, f, of)
    PROVE  /\ \A i \in is : /\ child'[f[i]].tenantID = childRow[i]
                            /\ child'[f[i]].tenant = of[childRow[i]]
           /\ \A c \in R!Children : child'[c] = child[c]
           /\ R!Children' = R!Children \cup {f[i] : i \in is}
           /\ child' \in [ChildObject -> {R!Free} \cup ChildRecord]
<1> DEFINE r(i) == [id |-> i, tenantID |-> childRow[i], tenant |-> of[childRow[i]]]
<1>1. \A i \in is : r(i) \in ChildRecord /\ r(i).tenantID = childRow[i]
                                         /\ r(i).tenant = of[childRow[i]]
  BY DEF RelationsTypeOK, ChildRecord
<1>2. \A c \in ChildObject : child'[c] = IF \E i \in is : f[i] = c
                                         THEN r(CHOOSE j \in is : f[j] = c) ELSE child[c]
  BY DEF R!Loaded
<1>3. \A i \in is : f[i] \in ChildObject /\ f[i] \notin R!Children
                   /\ (CHOOSE j \in is : f[j] = f[i]) = i
  OBVIOUS
<1> HIDE DEF r
<1>4. \A i \in is : child'[f[i]] = r(i)
  BY <1>2, <1>3
<1>5. \A c \in ChildObject : c \notin {f[i] : i \in is} => child'[c] = child[c]
  BY <1>2
<1>6. \A i \in is : child'[f[i]] # R!Free
  BY <1>1, <1>4, RecordsAreObjects
<1>7. R!Children' = R!Children \cup {f[i] : i \in is}
  BY <1>3, <1>5, <1>6 DEF R!Children
<1>8. child' \in [ChildObject -> {R!Free} \cup ChildRecord]
  <2>1. child' = [c \in ChildObject |-> child'[c]]
    BY DEF R!Loaded
  <2>2. \A c \in ChildObject : child'[c] \in {R!Free} \cup ChildRecord
    BY <1>1, <1>4, <1>5 DEF RelationsTypeOK
  <2> QED
    BY <2>1, <2>2
<1>9. \A c \in R!Children : child'[c] = child[c]
  BY <1>3, <1>5 DEF R!Children
<1> QED
  BY <1>1, <1>4, <1>7, <1>8, <1>9

LEMMA LoadChildrenOfOneKeepsInv == RelationsInv /\ R!LoadChildrenOfOne => RelationsInv'
<1> SUFFICES ASSUME RelationsInv, R!LoadChildrenOfOne PROVE RelationsInv'
  OBVIOUS
<1>1. PICK o \in R!Tenants :
        LET is == R!RowsOf({tenant[o].id})
            f == R!Fresh(is, ChildObject \ R!Children) IN
        /\ R!Fits(is, ChildObject \ R!Children)
        /\ R!Loaded(is, f, [t \in TenantId |-> o])
        /\ tenant' = [tenant EXCEPT ![o].children = R!SetToSeq({f[i] : i \in is})]
        /\ rewritten' = rewritten \cup {o}
        /\ UNCHANGED <<tenantRow, childRow, torn, moved>>
  BY DEF R!LoadChildrenOfOne, R!rowVars
<1> DEFINE is == R!RowsOf({tenant[o].id})
           f == R!Fresh(is, ChildObject \ R!Children)
           new == {f[i] : i \in is}
           l == R!SetToSeq(new)
<1>2. is \in SUBSET ChildId /\ \A i \in is : childRow[i] = tenant[o].id
  BY DEF R!RowsOf
<1>3. o \in TenantObject /\ tenant[o] \in TenantRecord /\ tenant[o].id \in TenantId
  BY ObjectsAreRecords DEF RelationsInv, TenantRecord
<1>4. /\ f \in [is -> ChildObject \ R!Children]
      /\ \A i, j \in is : f[i] = f[j] => i = j
  BY <1>1, <1>2, FreshChildren
<1>5. R!Loaded(is, f, [t \in TenantId |-> o])
  BY <1>1
<1>6. /\ tenant' = [tenant EXCEPT ![o].children = l]
      /\ rewritten' = rewritten \cup {o}
      /\ UNCHANGED <<tenantRow, childRow, torn, moved>>
  BY <1>1
<1> HIDE DEF is, f
<1>7. \A i \in is : /\ [t \in TenantId |-> o][childRow[i]] = o
                   /\ [t \in TenantId |-> o][childRow[i]] \in TenantObject
  BY <1>2, <1>3
<1>8. /\ \A i \in is : child'[f[i]].tenantID = tenant[o].id /\ child'[f[i]].tenant = o
      /\ \A c \in R!Children : child'[c] = child[c]
      /\ R!Children' = R!Children \cup new
      /\ child' \in [ChildObject -> {R!Free} \cup ChildRecord]
  BY <1>2, <1>4, <1>5, <1>7, LoadedObjects DEF RelationsInv
<1>9. new \in SUBSET ChildObject /\ new \cap R!Children = {}
  BY <1>4
<1>10. \A c \in new : child'[c].tenantID = tenant[o].id /\ child'[c].tenant = o
  BY <1>8
<1> HIDE DEF new
<1>11. l \in Seq(ChildObject) /\ R!ToSet(l) = new
  BY <1>9, ListOfChildren
<1> HIDE DEF l
<1>12. /\ [tenant[o] EXCEPT !.children = l] \in TenantRecord
       /\ [tenant[o] EXCEPT !.children = l].id = tenant[o].id
       /\ [tenant[o] EXCEPT !.children = l].children = l
  BY <1>3, <1>11 DEF TenantRecord
<1>13. tenant' \in [TenantObject -> {R!Free} \cup TenantRecord]
  BY <1>3, <1>6, <1>12 DEF RelationsInv, RelationsTypeOK
<1>14. /\ tenant'[o].id = tenant[o].id /\ tenant'[o].children = l
       /\ \A p \in R!Tenants : p # o => tenant'[p] = tenant[p]
       /\ R!Tenants' = R!Tenants
  <2>1. \A p \in TenantObject :
          tenant'[p] = IF p = o THEN [tenant[o] EXCEPT !.children = l] ELSE tenant[p]
    BY <1>6 DEF RelationsInv, RelationsTypeOK
  <2>2. [tenant[o] EXCEPT !.children = l] # R!Free
    BY <1>12, RecordsAreObjects
  <2> QED
    BY <1>3, <1>12, <2>1, <2>2 DEF R!Tenants
<1>15. rewritten' = rewritten \cup {o} /\ UNCHANGED <<tenantRow, childRow, torn, moved>>
  BY <1>6
<1>16. RelationsTypeOK'
  BY <1>8, <1>13, <1>15 DEF RelationsInv, RelationsTypeOK
<1>17. NoDanglingLink'
  BY <1>8, <1>10, <1>11, <1>14 DEF RelationsInv, NoDanglingLink
<1>18. KeyAgreesWithPointer'
  BY <1>8, <1>10, <1>14, <1>15
     DEF RelationsInv, NoDanglingLink, KeyAgreesWithPointer, R!KeyAgreesWithPointer
<1>19. ListedWherePointed'
  BY <1>8, <1>10, <1>11, <1>14, <1>15
     DEF RelationsInv, NoDanglingLink, ListedWherePointed, R!ListedWherePointed
<1>20. InOneList'
  BY <1>9, <1>11, <1>14, <1>15 DEF RelationsInv, NoDanglingLink, InOneList, R!InOneList
<1> QED
  BY <1>16, <1>17, <1>18, <1>19, <1>20 DEF RelationsInv

\* Each row has exactly one local tenant object: the first with its tenant's id.
LEMMA FirstWithFound ==
    ASSUME NEW s \in R!BoundedSeq(R!Tenants, 2),
           NEW t \in {tenant[s[n]].id : n \in DOMAIN s}
    PROVE  /\ R!FirstWith(s, t) \in R!ToSet(s)
           /\ tenant[R!FirstWith(s, t)].id = t
<1>1. \E n \in DOMAIN s : /\ tenant[s[n]].id = t
                          /\ \A m \in 1 .. n - 1 : tenant[s[m]].id # t
  <2>1. DOMAIN s = {} \/ DOMAIN s = {1} \/ DOMAIN s = {1, 2}
    <3>1. PICK m \in 0 .. 2 : s \in [1 .. m -> R!Tenants]
      BY DEF R!BoundedSeq, R!SeqOf
    <3> QED
      BY <3>1
  <2>2. PICK n \in DOMAIN s : tenant[s[n]].id = t
    OBVIOUS
  <2>3. CASE 1 \in DOMAIN s /\ tenant[s[1]].id = t
    BY <2>3
  <2>4. CASE ~(1 \in DOMAIN s /\ tenant[s[1]].id = t)
    <3>1. n = 2 /\ \A m \in 1 .. n - 1 : m = 1
      BY <2>1, <2>2, <2>4
    <3> QED
      BY <2>1, <2>2, <2>4, <3>1
  <2> QED
    BY <2>3, <2>4
<1>2. PICK n \in DOMAIN s : R!FirstWith(s, t) = s[n] /\ tenant[s[n]].id = t
  BY <1>1 DEF R!FirstWith
<1> QED
  BY <1>2 DEF R!ToSet

LEMMA LoadChildrenOfSliceKeepsInv == RelationsInv /\ R!LoadChildrenOfSlice => RelationsInv'
<1> SUFFICES ASSUME RelationsInv, R!LoadChildrenOfSlice PROVE RelationsInv'
  OBVIOUS
<1>1. PICK s \in R!BoundedSeq(R!Tenants, 2) :
        LET is == R!RowsOf({tenant[s[n]].id : n \in DOMAIN s})
            f == R!Fresh(is, ChildObject \ R!Children) IN
        /\ R!Fits(is, ChildObject \ R!Children)
        /\ R!Loaded(is, f, [t \in {childRow[i] : i \in is} |-> R!FirstWith(s, t)])
        /\ tenant' = [o \in TenantObject |->
                        IF o \in R!ToSet(s)
                        THEN [tenant[o] EXCEPT !.children = @ \o R!SetToSeq(
                                {f[i] : i \in {j \in is : R!FirstWith(s, childRow[j]) = o}})]
                        ELSE tenant[o]]
        /\ UNCHANGED <<tenantRow, childRow, torn, moved, rewritten>>
  BY DEF R!LoadChildrenOfSlice, R!rowVars
<1> DEFINE is == R!RowsOf({tenant[s[n]].id : n \in DOMAIN s})
           f == R!Fresh(is, ChildObject \ R!Children)
           of == [t \in {childRow[i] : i \in is} |-> R!FirstWith(s, t)]
           owner(i) == R!FirstWith(s, childRow[i])
           new(o) == {f[i] : i \in {j \in is : owner(j) = o}}
           l(o) == tenant[o].children \o R!SetToSeq(new(o))
<1>2. is \in SUBSET ChildId /\ \A i \in is : childRow[i] \in {tenant[s[n]].id : n \in DOMAIN s}
  BY DEF R!RowsOf
<1>3. /\ f \in [is -> ChildObject \ R!Children]
      /\ \A i, j \in is : f[i] = f[j] => i = j
  BY <1>1, <1>2, FreshChildren
<1>4. R!ToSet(s) \subseteq R!Tenants
  BY DEF R!ToSet, R!BoundedSeq, R!SeqOf
<1>5. \A i \in is : owner(i) \in R!ToSet(s) /\ tenant[owner(i)].id = childRow[i]
  BY <1>2, FirstWithFound
<1>6. \A o \in R!Tenants : o \in TenantObject /\ tenant[o] \in TenantRecord
  BY ObjectsAreRecords DEF RelationsInv
<1>7. /\ R!Loaded(is, f, of)
      /\ tenant' = [o \in TenantObject |->
                      IF o \in R!ToSet(s) THEN [tenant[o] EXCEPT !.children = l(o)] ELSE tenant[o]]
      /\ UNCHANGED <<tenantRow, childRow, torn, moved, rewritten>>
  BY <1>1
<1>8. \A i \in is : of[childRow[i]] = owner(i)
  OBVIOUS
<1> HIDE DEF is, f, owner, of
<1>9. \A i \in is : of[childRow[i]] \in TenantObject
  BY <1>4, <1>5, <1>6, <1>8
<1>10. /\ \A i \in is : child'[f[i]].tenantID = childRow[i] /\ child'[f[i]].tenant = owner(i)
       /\ \A c \in R!Children : child'[c] = child[c]
       /\ R!Children' = R!Children \cup {f[i] : i \in is}
       /\ child' \in [ChildObject -> {R!Free} \cup ChildRecord]
  <2>1. RelationsTypeOK /\ is \in SUBSET ChildId /\ R!Loaded(is, f, of)
    BY <1>2, <1>7 DEF RelationsInv
  <2>2. /\ \A i \in is : /\ child'[f[i]].tenantID = childRow[i]
                         /\ child'[f[i]].tenant = of[childRow[i]]
        /\ \A c \in R!Children : child'[c] = child[c]
        /\ R!Children' = R!Children \cup {f[i] : i \in is}
        /\ child' \in [ChildObject -> {R!Free} \cup ChildRecord]
    BY <1>3, <1>9, <2>1, LoadedObjects
  <2> QED
    BY <1>8, <2>2
<1>11. \A o : new(o) \in SUBSET ChildObject /\ new(o) \cap R!Children = {}
  BY <1>3
<1>12. \A o, p : o # p => new(o) \cap new(p) = {}
  BY <1>3
<1>13. \A o : new(o) \subseteq R!Children'
  BY <1>10
<1>14. R!Children' \ R!Children = {f[i] : i \in is}
  BY <1>3, <1>10
<1>15. \A c \in R!Children' \ R!Children :
         /\ child'[c].tenant \in R!ToSet(s)
         /\ child'[c].tenantID = tenant[child'[c].tenant].id
         /\ c \in new(child'[c].tenant)
  BY <1>5, <1>10, <1>14
<1> HIDE DEF new
<1>16. \A o \in R!ToSet(s) : l(o) \in Seq(ChildObject)
                            /\ R!ToSet(l(o)) = R!ToSet(tenant[o].children) \cup new(o)
  <2> SUFFICES ASSUME NEW o \in R!ToSet(s)
               PROVE  l(o) \in Seq(ChildObject)
                      /\ R!ToSet(l(o)) = R!ToSet(tenant[o].children) \cup new(o)
    OBVIOUS
  <2> DEFINE old == tenant[o].children
             more == R!SetToSeq(new(o))
  <2>1. old \in Seq(ChildObject)
    BY <1>4, <1>6 DEF TenantRecord
  <2>2. more \in Seq(ChildObject) /\ R!ToSet(more) = new(o)
    BY <1>11, ListOfChildren
  <2> HIDE DEF old, more
  <2>3. old \o more \in Seq(ChildObject) /\ R!ToSet(old \o more) = R!ToSet(old) \cup R!ToSet(more)
    BY <2>1, <2>2, ToSetConcat
  <2> QED
    BY <2>2, <2>3 DEF old, more
<1> HIDE DEF l
<1>17. \A o \in R!ToSet(s) : /\ [tenant[o] EXCEPT !.children = l(o)] \in TenantRecord
                            /\ [tenant[o] EXCEPT !.children = l(o)].id = tenant[o].id
                            /\ [tenant[o] EXCEPT !.children = l(o)].children = l(o)
  BY <1>4, <1>6, <1>16 DEF TenantRecord
<1>18. tenant' \in [TenantObject -> {R!Free} \cup TenantRecord]
  BY <1>7, <1>17 DEF RelationsInv, RelationsTypeOK
<1>19. /\ \A o \in R!Tenants : tenant'[o].id = tenant[o].id
       /\ \A o \in R!ToSet(s) :
            R!ToSet(tenant'[o].children) = R!ToSet(tenant[o].children) \cup new(o)
       /\ \A o \in R!Tenants : o \notin R!ToSet(s) => tenant'[o] = tenant[o]
       /\ R!Tenants' = R!Tenants
  <2>1. /\ \A o \in R!ToSet(s) : tenant'[o] = [tenant[o] EXCEPT !.children = l(o)]
        /\ \A o \in TenantObject : o \notin R!ToSet(s) => tenant'[o] = tenant[o]
    BY <1>4, <1>6, <1>7
  <2>2. \A o \in R!ToSet(s) : tenant'[o] # R!Free
    BY <1>17, <2>1, RecordsAreObjects
  <2>3. R!Tenants' = R!Tenants
    BY <1>4, <2>1, <2>2 DEF R!Tenants
  <2> QED
    BY <1>4, <1>6, <1>16, <1>17, <2>1, <2>3
<1>20. UNCHANGED <<tenantRow, childRow, torn, moved, rewritten>>
  BY <1>7
<1>21. \A c \in R!Children : child'[c] = child[c]
  BY <1>10
<1>22. R!Children \subseteq R!Children'
  BY <1>10
<1>23. RelationsTypeOK'
  BY <1>10, <1>18, <1>20 DEF RelationsInv, RelationsTypeOK
<1>24. NoDanglingLink'
  BY <1>4, <1>13, <1>15, <1>19, <1>21, <1>22 DEF RelationsInv, NoDanglingLink
<1>25. KeyAgreesWithPointer'
  BY <1>4, <1>15, <1>19, <1>20, <1>21
     DEF RelationsInv, NoDanglingLink, KeyAgreesWithPointer, R!KeyAgreesWithPointer
<1>26. ListedWherePointed'
  BY <1>15, <1>19, <1>20, <1>21
     DEF RelationsInv, NoDanglingLink, ListedWherePointed, R!ListedWherePointed
<1>27. InOneList'
  BY <1>4, <1>11, <1>12, <1>19, <1>20
     DEF RelationsInv, NoDanglingLink, InOneList, R!InOneList
<1> QED
  BY <1>23, <1>24, <1>25, <1>26, <1>27 DEF RelationsInv

LEMMA LoadTenantKeepsInv == RelationsInv /\ R!LoadTenant => RelationsInv'
<1> SUFFICES ASSUME RelationsInv, R!LoadTenant PROVE RelationsInv'
  OBVIOUS
<1>1. PICK cs \in SUBSET R!Children : R!LoadTenants(cs)
  BY DEF R!LoadTenant
<1> DEFINE ids == {child[c].tenantID : c \in cs} \cap tenantRow
           found == {c \in cs : child[c].tenantID \in ids}
           f == R!Fresh(ids, TenantObject \ R!Tenants)
           of(t) == {c \in found : child[c].tenantID = t}
           r(t) == [id |-> t, children |-> R!SetToSeq(of(t))]
<1>2. /\ R!Fits(ids, TenantObject \ R!Tenants)
      /\ child' = [c \in ChildObject |->
                     IF c \in found THEN [child[c] EXCEPT !.tenant = f[child[c].tenantID]]
                     ELSE child[c]]
      /\ tenant' = [o \in TenantObject |->
                      IF \E t \in ids : f[t] = o THEN r(CHOOSE u \in ids : f[u] = o)
                      ELSE tenant[o]]
      /\ moved' = moved \cup found
      /\ torn' = torn \ found
      /\ UNCHANGED <<tenantRow, childRow, rewritten>>
  BY <1>1 DEF R!LoadTenants, R!rowVars
<1>3. ids \in SUBSET TenantId
  BY DEF RelationsInv, RelationsTypeOK
<1>4. /\ f \in [ids -> TenantObject \ R!Tenants]
      /\ \A t, u \in ids : f[t] = f[u] => t = u
  BY <1>2, <1>3, FreshTenants
<1>5. /\ found \subseteq R!Children
      /\ \A c \in found : child[c].tenantID \in ids
      /\ \A c \in found : c \in ChildObject /\ child[c] \in ChildRecord
  BY ObjectsAreRecords DEF RelationsInv
<1> HIDE DEF ids, found, f
<1>6. \A t \in ids : r(t) \in TenantRecord /\ r(t).id = t /\ R!ToSet(r(t).children) = of(t)
  <2> SUFFICES ASSUME NEW t \in ids
               PROVE  r(t) \in TenantRecord /\ r(t).id = t /\ R!ToSet(r(t).children) = of(t)
    OBVIOUS
  <2>1. of(t) \in SUBSET ChildObject
    BY <1>5
  <2> HIDE DEF of
  <2>2. R!SetToSeq(of(t)) \in Seq(ChildObject) /\ R!ToSet(R!SetToSeq(of(t))) = of(t)
    BY <2>1, ListOfChildren
  <2> QED
    BY <1>3, <2>2 DEF TenantRecord
<1> HIDE DEF r
<1> DEFINE q(c) == [child[c] EXCEPT !.tenant = f[child[c].tenantID]]
<1>7. \A c \in found : /\ q(c) \in ChildRecord
                       /\ q(c).tenant = f[child[c].tenantID]
                       /\ q(c).tenantID = child[c].tenantID
  BY <1>4, <1>5 DEF ChildRecord
<1>8. child' = [c \in ChildObject |-> IF c \in found THEN q(c) ELSE child[c]]
  BY <1>2
<1> HIDE DEF q
<1>9. child' \in [ChildObject -> {R!Free} \cup ChildRecord]
  BY <1>7, <1>8 DEF RelationsInv, RelationsTypeOK
<1>10. /\ \A c \in found : /\ child'[c].tenant = f[child[c].tenantID]
                            /\ child'[c].tenantID = child[c].tenantID
       /\ \A c \in R!Children : c \notin found => child'[c] = child[c]
       /\ R!Children' = R!Children
  <2>1. \A c \in found : child'[c] = q(c) /\ q(c) # R!Free
    BY <1>5, <1>7, <1>8, RecordsAreObjects
  <2>2. \A c \in ChildObject : c \notin found => child'[c] = child[c]
    BY <1>8
  <2>3. R!Children' = R!Children
    BY <1>5, <2>1, <2>2 DEF R!Children
  <2> QED
    BY <1>7, <2>1, <2>2, <2>3 DEF R!Children
<1>11. \A t \in ids : /\ f[t] \in TenantObject /\ f[t] \notin R!Tenants
                      /\ (CHOOSE u \in ids : f[u] = f[t]) = t
  BY <1>4
<1>12. tenant' = [o \in TenantObject |->
                   IF \E t \in ids : f[t] = o THEN r(CHOOSE u \in ids : f[u] = o) ELSE tenant[o]]
  BY <1>2
<1>13. \A t \in ids : tenant'[f[t]] = r(t)
  BY <1>11, <1>12
<1>14. \A o \in TenantObject : o \notin {f[t] : t \in ids} => tenant'[o] = tenant[o]
  BY <1>12
<1>15. tenant' \in [TenantObject -> {R!Free} \cup TenantRecord]
  <2>1. \A o \in TenantObject : tenant'[o] \in {R!Free} \cup TenantRecord
    BY <1>6, <1>13, <1>14 DEF RelationsInv, RelationsTypeOK
  <2> QED
    BY <1>12, <2>1
<1>16. /\ \A t \in ids : tenant'[f[t]].id = t /\ R!ToSet(tenant'[f[t]].children) = of(t)
       /\ \A o \in R!Tenants : tenant'[o] = tenant[o]
       /\ R!Tenants' = R!Tenants \cup {f[t] : t \in ids}
  <2>1. \A t \in ids : tenant'[f[t]] # R!Free
    BY <1>6, <1>13, RecordsAreObjects
  <2>2. R!Tenants' = R!Tenants \cup {f[t] : t \in ids}
    BY <1>11, <1>14, <2>1 DEF R!Tenants
  <2>3. \A o \in R!Tenants : tenant'[o] = tenant[o]
    BY <1>11, <1>14 DEF R!Tenants
  <2> QED
    BY <1>6, <1>13, <2>2, <2>3
<1>17. /\ moved' = moved \cup found /\ torn' = torn \ found
       /\ UNCHANGED <<tenantRow, childRow, rewritten>>
  BY <1>2
<1>18. \A t \in ids : of(t) \subseteq found
  OBVIOUS
<1>19. \A c \in found : c \in of(child[c].tenantID)
  OBVIOUS
<1> HIDE DEF of
<1>20. RelationsTypeOK'
  BY <1>9, <1>15, <1>17 DEF RelationsInv, RelationsTypeOK
<1>21. NoDanglingLink'
  BY <1>5, <1>10, <1>16, <1>18 DEF RelationsInv, NoDanglingLink
<1>22. KeyAgreesWithPointer'
  BY <1>5, <1>10, <1>16, <1>17
     DEF RelationsInv, NoDanglingLink, KeyAgreesWithPointer, R!KeyAgreesWithPointer
<1>23. ListedWherePointed'
  BY <1>5, <1>10, <1>16, <1>17, <1>19
     DEF RelationsInv, NoDanglingLink, ListedWherePointed, R!ListedWherePointed
<1>24. InOneList'
  BY <1>16, <1>17, <1>18 DEF RelationsInv, InOneList, R!InOneList
<1> QED
  BY <1>20, <1>21, <1>22, <1>23, <1>24 DEF RelationsInv

-----------------------------------------------------------------------------
(* The theorems *)

LEMMA RelationsInitInv == R!Init => RelationsInv
<1> SUFFICES ASSUME R!Init PROVE RelationsInv
  OBVIOUS
<1>1. R!Tenants = {} /\ R!Children = {}
  BY DEF R!Init, R!Tenants, R!Children
<1>2. RelationsTypeOK
  BY DEF R!Init, RelationsTypeOK
<1> QED
  BY <1>1, <1>2 DEF RelationsInv, NoDanglingLink, KeyAgreesWithPointer, R!KeyAgreesWithPointer,
     ListedWherePointed, R!ListedWherePointed, InOneList, R!InOneList

LEMMA RelationsStepInv == RelationsInv /\ [R!Next]_R!vars => RelationsInv'
<1> SUFFICES ASSUME RelationsInv, [R!Next]_R!vars PROVE RelationsInv'
  OBVIOUS
<1>1. CASE R!NewTenant
  BY <1>1, NewTenantKeepsInv
<1>2. CASE R!NewChild
  BY <1>2, NewChildKeepsInv
<1>3. CASE R!ReloadTenant
  BY <1>3, ReloadTenantKeepsInv
<1>4. CASE R!ReloadChild
  BY <1>4, ReloadChildKeepsInv
<1>5. CASE R!LoadChildrenOfOne
  BY <1>5, LoadChildrenOfOneKeepsInv
<1>6. CASE R!LoadChildrenOfSlice
  BY <1>6, LoadChildrenOfSliceKeepsInv
<1>7. CASE \E insert \in BOOLEAN : R!Add(insert)
  BY <1>7, AddKeepsInv
<1>8. CASE R!LoadTenant
  BY <1>8, LoadTenantKeepsInv
<1>9. CASE R!SetTenant
  BY <1>9, SetTenantKeepsInv
<1>10. CASE UNCHANGED R!vars
  <2>1. R!Tenants' = R!Tenants /\ R!Children' = R!Children
    BY <1>10 DEF R!vars, R!Tenants, R!Children
  <2> QED
    BY <1>10, <2>1 DEF R!vars, RelationsInv, RelationsTypeOK, NoDanglingLink,
       KeyAgreesWithPointer, R!KeyAgreesWithPointer, ListedWherePointed, R!ListedWherePointed,
       InOneList, R!InOneList
<1> QED
  BY <1>1, <1>2, <1>3, <1>4, <1>5, <1>6, <1>7, <1>8, <1>9, <1>10
     DEF R!Next, R!LoadDeadLetterMessages, R!LoadMessageProcessingLogs, R!LoadTenantConfigs,
         R!AddDeadLetterMessages, R!AddMessageProcessingLogs, R!AddTenantConfigs,
         R!DeadLetterMessageLoadTenant, R!MessageProcessingLogLoadTenant, R!TenantConfigLoadTenant,
         R!DeadLetterMessageSetTenant, R!MessageProcessingLogSetTenant, R!TenantConfigSetTenant,
         R!LoadChildren, R!AddChildren

\* The links of the objects in memory always hold together: types, no link to
\* an object that does not exist, keys, lists (tenants.go, tenant_configs.go
\* and the like).
THEOREM RelationsHold == Spec => []RelationsInv
<1>1. R!Spec => []RelationsInv
  BY RelationsInitInv, RelationsStepInv, PTL DEF R!Spec
<1>2. Init => R!Init
  BY DEF Init
<1>3. [Next]_vars => [R!Next]_R!vars
  BY DEF Next, vars, rVars, sVars, lVars, cVars, R!vars
<1> QED
  BY <1>1, <1>2, <1>3, PTL DEF Spec, R!Spec

\* The foreign key of an object is the id of the tenant object it points to,
\* unless a failed AddX has changed it (tenants.go 888-935).
THEOREM KeyAlwaysAgrees == Spec => []KeyAgreesWithPointer
BY RelationsHold, PTL DEF RelationsInv

\* An object is in the list of the tenant object it points to, unless a load
\* or Reload of one object has replaced the list (tenants.go 629-655).
THEOREM AlwaysListedWherePointed == Spec => []ListedWherePointed
BY RelationsHold, PTL DEF RelationsInv

\* Only objects that were moved are in the lists of two tenant objects: eager
\* loading gives each row to one (tenants.go 640-655).
THEOREM AlwaysInOneList == Spec => []InOneList
BY RelationsHold, PTL DEF RelationsInv
===============================================================================

------------------------------- MODULE MCAccess -------------------------------
(* Values of Access's constants for TLC: two goroutines with one call each  *)
(* on a table, three objects of a kind, lists just longer than a page.      *)
EXTENDS Access, TLC

CONSTANTS g1, g2, i1, i2, o1, o2, o3, c1, c2, c3, t1, t2, k1, k2

Goroutines == {g1, g2}
Ids == {i1, i2}
OneId == {i1}

Columns(k, c) == [kind |-> k, cols |-> c]
\* A column with a default, one of each table.
Optional == [tenants |-> "status", messages |-> "status", tenant_configs |-> "version",
             message_processing_logs |-> "worker_id", dead_letter_messages |-> "last_error"]
\* Inferred columns or a whitelist of one; for tenant_configs a blacklist and a
\* longer whitelist too.
Choices(t) ==
    {Columns("1", <<>>), Columns("2", <<Optional[t]>>)}
      \cup (IF t = "tenant_configs"
            THEN {Columns("4", <<"version">>), Columns("2", <<"version", "is_active">>)} ELSE {})
OneColumn(t) == {Optional[t]}

\* A constraint of each table that is named by its columns.
Named == [tenants |-> <<"queue_name">>, messages |-> <<"id", "tenant_id">>,
          tenant_configs |-> <<"tenant_id", "config_key", "is_active">>,
          message_processing_logs |-> <<"id">>, dead_letter_messages |-> <<"id">>]

\* Calls of Upsert that differ from one another in one argument or two.
UpsertChoices(t) ==
    LET infer == Columns("1", <<>>)
        optional == Columns("2", <<Optional[t]>>)
        explicit == Columns("2", Append(S!Schema[t].noDefault, Optional[t]))
        Args(b, c, u, i, x) ==
            [onConflict |-> b, conflict |-> c, update |-> u, insert |-> i, option |-> x] IN
    {Args(b, c, u, infer, "none") : b \in BOOLEAN, c \in {<<>>, Named[t]}, u \in {infer, optional}}
      \cup {Args(TRUE, <<>>, infer, infer, "keep"), Args(TRUE, <<>>, optional, infer, "target"),
            Args(TRUE, <<>>, optional, explicit, "none"), Args(TRUE, <<"created_at">>, infer, infer, "none")}

\* KeysTellApart for far more than the calls of this run: all lists and all sets of
\* up to two columns of each table.
ASSUME KeysOfAllTables ==
    \A t \in S!Table :
        LET names == S!ToSet(S!Schema[t].noDefault) \cup S!ToSet(S!Schema[t].withDefault)
            lists == {<<>>} \cup {<<c>> : c \in names} \cup {<<c, d>> : c, d \in names}
            sets == {S!InOrder(t, {c, d}) : c, d \in names} IN
        /\ Cardinality({S!makeCacheKey(Columns(k, l), n) : k \in {"2", "4"}, l \in lists, n \in sets})
             = 2 * Cardinality(lists) * Cardinality(sets)
        /\ Cardinality({S!UpsertKey([onConflict |-> b, conflict |-> c, update |-> Columns("2", l),
                                    insert |-> Columns("2", <<>>)], <<>>) :
                           b \in BOOLEAN, c, l \in lists})
             = 2 * Cardinality(lists) * Cardinality(lists)
        /\ Cardinality({S!UpsertKey([onConflict |-> TRUE, conflict |-> <<>>, update |-> Columns("2", <<>>),
                                    insert |-> Columns(k, l)], n) :
                           k \in {"2", "4"}, l \in lists, n \in sets})
             = 2 * Cardinality(lists) * Cardinality(sets)

ThreeTenants == {o1, o2, o3}
ThreeChildren == {c1, c2, c3}
TwoTenantIds == {t1, t2}
TwoChildIds == {k1, k2}

Limits == {0, 1, 2, 100, 101, NotANumber}
Cursors == {-1, 0, 7, NotANumber}

Symmetry == Permutations(Goroutines)
=============================================================================

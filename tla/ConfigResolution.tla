--------------------------- MODULE ConfigResolution ---------------------------
(***************************************************************************)
(* NewConfig: where the address of the database, or of the broker, comes   *)
(* from.  Sources are config.yaml, .env, the environment of the process    *)
(* and the defaults of the program.  A setting is a URL, or a group of     *)
(* fields (host, port, user, password, name) that "host" stands for; a     *)
(* value is the source it was found in.                                    *)
(***************************************************************************)

CONSTANT Absent   \* a file that is not there

\* Variables of the environment: DATABASE_URL and DATABASE_HOST, which viper reads
\* as the keys database.url and database.host, DATABASE, which hides them, and
\* PSQL_HOST; the same for RabbitMQ.
Variable == {"URL", "HOST", "SECTION", "OWN"}

\* The keys a config.yaml has under the section, or what becomes of them if there
\* is a text instead of a section.
Keys == [url : {"unset", "empty", "file"}, host : {"unset", "file"}]
Shadowed == [url |-> "shadowed", host |-> "shadowed"]

VARIABLES
    section,   \* "database" or "rabbitmq"
    file,      \* config.yaml: Absent, or the keys it has under the section
    dotenv,    \* .env: Absent, or the variables in it
    env,       \* where a variable of the environment was set, or "unset"
    stage,     \* of NewConfig
    config     \* its result: the setting that was used and its source

vars == <<section, file, dotenv, env, stage, config>>

Init ==
    /\ section \in {"database", "rabbitmq"}
    /\ file \in {Absent, Shadowed} \cup Keys
    /\ dotenv \in {Absent} \cup SUBSET Variable
    /\ env \in [Variable -> {"unset", "process"}]
    /\ stage = "begin"
    /\ config = <<"none", "none">>

\* .env counts only without a config.yaml, and then it must be there.  It does not
\* replace variables that are set.
ReadInConfig ==
    /\ stage = "begin"
    /\ IF file # Absent THEN stage' = "loaded" /\ UNCHANGED env
       ELSE IF dotenv = Absent THEN stage' = "fatal" /\ UNCHANGED env
       ELSE /\ stage' = "loaded"
            /\ env' = [v \in Variable |-> IF env[v] = "unset" /\ v \in dotenv THEN ".env" ELSE env[v]]
    /\ UNCHANGED <<section, file, dotenv, config>>

\* viper.GetString: environment, then file, then default; but what stands for the
\* whole section ends the search.  Only the URL has a default.
Url ==
    CASE env["URL"] # "unset" -> env["URL"]
      [] env["URL"] = "unset" /\ (env["SECTION"] # "unset" \/ file = Shadowed) -> "empty"
      [] OTHER -> IF file # Absent /\ file.url # "unset" THEN file.url ELSE "default"

Host ==
    IF env["HOST"] # "unset" THEN env["HOST"]
    ELSE IF env["SECTION"] # "unset" \/ file \in {Absent, Shadowed} THEN "unset" ELSE file.host

\* Mutant: the individual fields are tried first.
FieldsFirst == IF Host # "unset" THEN <<"host", Host>> ELSE <<"url", Url>>

\* util.GetEnv has a default of its own.
Own == IF env["OWN"] # "unset" THEN env["OWN"] ELSE "default"

\* The URL first, then the keys, then the program's own variables.
Resolved ==
    IF Url # "empty" THEN <<"url", Url>>
    ELSE IF Host # "unset" THEN <<"host", Host>>
    ELSE <<"own", Own>>

Resolve ==
    /\ stage = "loaded"
    /\ config' = Resolved
    /\ stage' = "done"
    /\ UNCHANGED <<section, file, dotenv, env>>

Next == ReadInConfig \/ Resolve

Spec == Init /\ [][Next]_vars

-----------------------------------------------------------------------------
(* Properties *)

\* README.md (101-114) and .env.example list PSQL_HOST, RABBITMQ_HOST and the like
\* as the way to configure the programs: if such a variable is set, and nothing
\* else, its value is used.  Not so: the default URL (config.go 31-32) stands
\* before them.
DocumentedVariablesTakeEffect ==
    (/\ stage = "done" /\ file = Absent
     /\ env["OWN"] # "unset" /\ \A v \in Variable \ {"OWN"} : env[v] = "unset")
      => config = <<"own", env["OWN"]>>

\* A URL in the environment of the process wins over every file, in all
\* combinations of the sources; and neither fields nor own variables are mixed
\* with it.
EnvironmentWins ==
    stage = "done" /\ env["URL"] = "process" => config = <<"url", "process">>
===============================================================================

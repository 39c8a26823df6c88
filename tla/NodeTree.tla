------------------------------ MODULE NodeTree ------------------------------
(***************************************************************************)
(* The tree of services, demo/node_tree/node_tree.c: getProcess looks up   *)
(* a path, one name after the other.                                       *)
(*                                                                         *)
(* A table ends with an entry whose name is not empty, while the walk ends *)
(* at an empty name: for a name that is not there it reads on behind the   *)
(* table.  What lies there is for the linker to choose: an empty name,     *)
(* the entries of another table, or memory that may not be read.           *)
(***************************************************************************)
EXTENDS Integers, Sequences

CONSTANTS
    Unknown,        \* a name that no table has
    MaxPath         \* bound: names in a path

VARIABLES
    path,
    token,          \* index of the name that is looked up
    table, entry,   \* currentLevel
    strayed,        \* the walk has left its table
    result          \* what getProcess has returned

vars == <<path, token, table, entry, strayed, result>>

NULL    == "NULL"
Running == "running"
Crashed == "crashed"

Service(name, process, nextnode) == [name |-> name, process |-> process, nextnode |-> nextnode]

Tables == [
    root_node |-> <<Service("system", NULL, "system"),
                    Service("logInfo", NULL, "logMgr"),
                    Service("network", "network", NULL),
                    Service("/root_node", NULL, NULL)>>,
    logMgr    |-> <<Service("config", NULL, "logConfig"),
                    Service("info", "logInfo", NULL),
                    Service("/logInfo", NULL, NULL)>>,
    system    |-> <<Service("config", "systemConfig", NULL),
                    Service("info", "systemInfo", NULL),
                    Service("/system", NULL, NULL)>>,
    logConfig |-> <<Service("config", "logConfigV2", NULL),
                    Service("info", "logInfoV2", NULL),
                    Service("/system", NULL, NULL)>>]

Names == {"system", "logInfo", "network", "config", "info", Unknown}

\* strtok leaves no empty name.
Paths == UNION {[1 .. m -> Names] : m \in 0 .. MaxPath}

Init ==
    /\ path \in Paths
    /\ token = 1
    /\ table = "root_node" /\ entry = 1
    /\ strayed = FALSE
    /\ result = IF path = << >> THEN NULL ELSE Running

InTable == entry <= Len(Tables[table])

Mismatch ==
    /\ InTable /\ Tables[table][entry].name # path[token]
    /\ entry' = entry + 1
    /\ UNCHANGED <<path, token, table, strayed, result>>

\* Behind the table.
Stray ==
    /\ ~InTable
    /\ strayed' = TRUE
    /\ \/ result' \in {NULL, Crashed} /\ UNCHANGED <<table, entry>>
       \/ table' \in DOMAIN Tables \ {table} /\ entry' = 1 /\ UNCHANGED result
    /\ UNCHANGED <<path, token>>

Found == InTable /\ Tables[table][entry].name = path[token]

Last == Found /\ token = Len(path)

Return ==
    /\ Last
    /\ result' = Tables[table][entry].process
    /\ UNCHANGED <<path, token, table, entry, strayed>>

Descend ==
    /\ Found /\ ~Last
    /\ IF Tables[table][entry].nextnode = NULL
       THEN result' = NULL /\ UNCHANGED <<token, table, entry>>
       ELSE /\ token' = token + 1
            /\ table' = Tables[table][entry].nextnode /\ entry' = 1
            /\ UNCHANGED result
    /\ UNCHANGED <<path, strayed>>

Next ==
    /\ result = Running
    /\ Mismatch \/ Stray \/ Return \/ Descend

Spec == Init /\ [][Next]_vars
-----------------------------------------------------------------------------
(* Properties.                                                             *)

Rows(t) == {Tables[t][e] : e \in 1 .. Len(Tables[t])}

\* The tables that hold the name at position m of the path.
TablesAt[m \in 1 .. MaxPath + 1] ==
    IF m = 1 THEN {"root_node"}
    ELSE {s.nextnode : s \in {r \in UNION {Rows(t) : t \in TablesAt[m - 1]} :
                                 r.name = path[m - 1] /\ r.nextnode # NULL}}

Processes ==
    {r.process : r \in {s \in UNION {Rows(t) : t \in TablesAt[Len(path)]} :
                           s.name = path[Len(path)]}} \ {NULL}

\* A path that names a service gets the process of that service, of its own table
\* and never of another in which the last name is the same; and only a walk that
\* has left its table finds a service for another path (node_tree.c:90).
OwnProcess ==
    result # Running /\ path # << >> =>
        /\ Processes # {} => ~strayed /\ Processes = {result}
        /\ Processes = {} /\ ~strayed => result = NULL
=============================================================================

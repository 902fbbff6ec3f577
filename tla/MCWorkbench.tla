----------------------------- MODULE MCWorkbench ------------------------------
(***************************************************************************)
(* Instances for TLC of what the users of the workbench share: accounts    *)
(* and teams, a user's AI connectors, the live engineering table, pools of *)
(* connections, and the settings and polls of plant-data connectors, one   *)
(* of them in a behaviour.                                                 *)
(***************************************************************************)
EXTENDS AccessControl, AiConnectors, LiveFeed, SqlPool, ConnectorConfig, SampleReading, TLC

VARIABLE area \* what happens in a behaviour

MCInit ==
    /\ AccessInit /\ AiInit /\ FeedInit /\ PoolInit /\ ReadingInit
    /\ area \in {"access", "connectors", "feed", "pool", "form", "reading"}
    /\ FormInit
    /\ area # "form" => form = CHOOSE f \in FirstForms : f.type = "mqtt"

\* Bounds: two messages between the server and a page; a page that has shown something loses
\* its connection once ("feed again"), and then has sent no fetch; while a fetch is under way
\* one request at a time; the server starts again between requests.
FeedBound ==
    /\ \A p \in Pages :
        /\ Len(broadcasts') + Len(page'[p].inbox) <= 2
        /\ page[p].conn = "closed" /\ page'[p].conn # "closed" => ~page[p].fetched
    /\ area' = IF \E p \in Pages : page[p].conn # "closed" /\ page'[p].conn = "closed" /\ page[p].view # Blank
               THEN "feed again" ELSE area
    /\ area = "feed again" => \A p \in Pages :
        /\ ~page'[p].fetched
        /\ page[p].conn # "closed" => page'[p].conn # "closed"
    /\ snapshotId' < snapshotId => AllIdle /\ broadcasts = <<>>
    /\ (\E p \in Pages : page'[p].answer # None) =>
          \E w \in Writers : \A v \in Writers \ {w} : job'[v] = Idle

MCNext ==
    /\ area \notin {"feed", "feed again"} => UNCHANGED area
    /\ \/ area = "access" /\ AccessNext
          /\ UNCHANGED <<aiVars, feedVars, poolVars, formVars, readingVars>>
       \/ area = "connectors" /\ AiNext
          /\ UNCHANGED <<accessVars, feedVars, poolVars, formVars, readingVars>>
       \/ /\ area \in {"feed", "feed again"} /\ FeedNext
          /\ FeedBound
          /\ UNCHANGED <<accessVars, aiVars, poolVars, formVars, readingVars>>
       \/ area = "pool" /\ PoolNext
          /\ UNCHANGED <<accessVars, aiVars, feedVars, formVars, readingVars>>
       \/ area = "form" /\ FormNext
          /\ UNCHANGED <<accessVars, aiVars, feedVars, poolVars, readingVars>>
       \/ area = "reading" /\ ReadingNext
          /\ UNCHANGED <<accessVars, aiVars, feedVars, poolVars, formVars>>

MCSpec == MCInit /\ [][MCNext]_<<accessVars, aiVars, feedVars, poolVars, formVars, readingVars, area>>

-----------------------------------------------------------------------------
\* Two rows; a change of the first one has an effect on the second.
RowImpact == <<{1, 2}, {2}>>

\* Identifiers, projects and values are interchangeable; some names stand for values of
\* more than one area.
Symmetry == Permutations(Projects) \cup Permutations(Readings) \cup Permutations(Writers)

-----------------------------------------------------------------------------
(* Forms with what must be there, and what a user may enter: what is fit, what is not, *)
(* blanks and zeros.                                                                   *)

Reg(register, data, address, quantity, writable) ==
    [register |-> register, data |-> data, address |-> address, quantity |-> quantity, writable |-> writable]

Forms == {
    [type |-> "opcua",
     config |-> [endpoint |-> "url", ids |-> {}, subscription |-> [nodes |-> {1}], text |-> None, security |-> None,
                 policy |-> None, auth |-> None, username |-> None, certified |-> FALSE, timeout |-> None]],
    [type |-> "mqtt",
     config |-> [url |-> None, host |-> "name", port |-> None, topic |-> "t", qos |-> None, keep |-> None, tls |-> FALSE]],
    [type |-> "modbus_tcp",
     config |-> [host |-> "name", port |-> None, unit |-> None, timeout |-> None, retries |-> None, window |-> None,
                 rate |-> None, function |-> None, mappings |-> {Reg("coil", "bool", None, None, FALSE)}]],
    [type |-> "sql",
     config |-> [db |-> None, host |-> "name", port |-> None, pool |-> None, mode |-> None, refresh |-> None,
                 table |-> "t", custom |-> None, query |-> None, mappings |-> {"m"},
                 tag_column |-> None, value_column |-> None]],
    [type |-> "historian",
     config |-> [subtype |-> None, retrieval |-> None, range |-> None, points |-> None, auth |-> None, username |-> None,
                 server |-> TRUE, mappings |-> {"m"}, mode |-> None, fields |-> FALSE, db |-> None, port |-> None,
                 query |-> None, url |-> None, timeout |-> None]]}

FormChoices == [t \in {"opcua", "mqtt", "modbus_tcp", "sql", "historian"} |->
    CASE t = "opcua" ->
        [ids |-> {{}, {1}, {1, 2}}, subscription |-> {None, [nodes |-> {}], [nodes |-> {2}]}, text |-> {None, {}, {2}},
         security |-> {None, "sign"}, policy |-> {None, "p"}, certified |-> BOOLEAN, timeout |-> {0, 10},
         auth |-> {"anonymous", "username_password", "certificate"}, username |-> {None, "u"}]
    [] t = "mqtt" ->
        [url |-> {None, [tls |-> TRUE, host |-> "other", port |-> None], [tls |-> FALSE, host |-> "other", port |-> 0],
                  [tls |-> FALSE, host |-> "ipv6", port |-> 1884]},
         host |-> {None, "ipv6"}, port |-> {0, 1885, 70000}, qos |-> {0, 2, 3}, keep |-> {0, 4}, tls |-> BOOLEAN]
    [] t = "modbus_tcp" ->
        [host |-> {None}, port |-> {0, 70000}, unit |-> {0, 256}, retries |-> {0, 3}, window |-> {0, 125, 126},
         function |-> {"fc5", "fc16"},
         mappings |-> {{}, {Reg("coil", "bool", 0, 1, TRUE)}, {Reg("input_register", "string", 3, 126, FALSE)},
                       {Reg("holding_register", "int16", 3, 0, TRUE), Reg("coil", "bool", None, 8, FALSE)},
                       {Reg("discrete_input", "int16", 3, 1, FALSE)}, {Reg("discrete_input", "bool", 3, 1, TRUE)}}]
    [] t = "sql" ->
        [db |-> {"mysql", "sqlserver", "other"}, port |-> {0, 70000}, pool |-> {0, 51}, refresh |-> {"full_snapshot"},
         mode |-> {None, "table", "custom_query"}, table |-> {None, "t"}, custom |-> {None, "select", "drop"},
         query |-> {"select", "drop"}, mappings |-> {{}, {"m"}}, tag_column |-> {"c"}, value_column |-> {"c"}]
    [] OTHER ->
        [subtype |-> {"generic_timeseries"}, range |-> {0, 10001}, points |-> {0, 5001}, username |-> {"u"},
         mode |-> {"sql", "rest"}, fields |-> {TRUE}, db |-> {"mysql"}, query |-> {"select", "drop"},
         url |-> {"url"}, timeout |-> {0, 10}, mappings |-> {{}}]]

-----------------------------------------------------------------------------
(* Mappings that overlap, touch, leave a gap, or are as long as a window or longer. *)

Mapping(register, data, address, quantity, swap, little) ==
    [register |-> register, data |-> data, address |-> address, quantity |-> quantity, swap |-> swap, little |-> little]

Mapped ==
    {Mapping("coil", "bool", 0, 2, FALSE, FALSE), Mapping("coil", "bool", 3, 1, FALSE, FALSE),
     Mapping("holding_register", "uint64", 1, 1, TRUE, FALSE), Mapping("holding_register", "string", 6, 5, FALSE, TRUE)}
    \cup {Mapping("holding_register", d, a, 3, a = 2, a >= 2) : d \in {"int16", "float32", "string"}, a \in {0, 2, 4}}
===============================================================================

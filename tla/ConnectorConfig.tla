---------------------------- MODULE ConnectorConfig ----------------------------
(***************************************************************************)
(* The configuration of a plant-data connector, from the form to the       *)
(* thread that uses it: a save validates it and writes it in one spelling, *)
(* with every field there and every default filled in; a client loads that *)
(* to edit it again; and the services of SQL and Modbus validate it once   *)
(* more, each with rules of its own, whenever they are called.  The pool   *)
(* of a SQL connector is found under what its service made of it.          *)
(*                                                                         *)
(* A form is a record of fields, in which None stands for a field that is  *)
(* not there or blank.  An older spelling of a field is a field of its own *)
(* where a default depends on it; the texts of hosts, queries and tags are *)
(* values that may or may not be fit.                                      *)
(***************************************************************************)
EXTENDS Integers, FiniteSets, PythonNone

CONSTANTS
    FirstForms,  \* the forms a client starts with
    FormValues,  \* type -> the values that a user may give to fields of its form
    OpcuaNodes,  \* what an OPC UA server can be asked for
    MaxEdits     \* bound: fields edited

FormFields ==
    [opcua |-> {"endpoint", "ids", "subscription", "text", "security", "policy", "auth",
                "username", "certified", "timeout"},
     mqtt |-> {"url", "host", "port", "topic", "qos", "keep", "tls"},
     modbus_tcp |-> {"host", "port", "unit", "timeout", "retries", "window", "rate", "function",
                     "mappings"},
     sql |-> {"db", "host", "port", "pool", "mode", "refresh", "table", "custom", "query",
              "mappings", "tag_column", "value_column"},
     historian |-> {"subtype", "retrieval", "range", "points", "auth", "username", "server",
                    "mappings", "mode", "fields", "db", "port", "query", "url", "timeout"}]
RegisterFields == {"register", "data", "address", "quantity", "writable"}

\* The fields of a form, and what those hold of which others are made.
IsFormOf(type, c) ==
    /\ DOMAIN c = FormFields[type]
    /\ type = "opcua" =>
        /\ c.ids \in SUBSET OpcuaNodes /\ c.text \in {None} \cup SUBSET OpcuaNodes
        /\ c.subscription \in {None} \cup [nodes : SUBSET OpcuaNodes]
    /\ type = "modbus_tcp" => \A m \in c.mappings : DOMAIN m = RegisterFields

ASSUME FormAssumption ==
    /\ MaxEdits \in Nat
    /\ None \notin Int
    /\ None \notin {"anonymous", "fc6", "postgresql", "custom_query", "table", "latest_row",
                   "osisoft_pi", "snapshot", "sql"}
    /\ \A nodes \in SUBSET OpcuaNodes : nodes # None
    /\ \A f \in FirstForms :
        /\ DOMAIN f = {"type", "config"} /\ f.type \in DOMAIN FormFields
        /\ IsFormOf(f.type, f.config)
        /\ DOMAIN FormValues[f.type] \subseteq DOMAIN f.config
        /\ \A field \in DOMAIN FormValues[f.type] : \A value \in FormValues[f.type][field] :
              IsFormOf(f.type, [f.config EXCEPT ![field] = value])

VARIABLES
    form,   \* the type and the fields a client has
    saved,  \* the row, None before the first save
    edits   \* fields edited so far

formVars == <<form, saved, edits>>

\* `value or default`: a zero counts as missing.
Or(value, default) == IF value = None THEN default ELSE value
OrNumber(value, default) == IF value \in {None, 0} THEN default ELSE value

Ports == 1..65535
SessionTimeouts == 1000..3600000

\* What a save makes of some fields, and the others as they are.
Filled(c, made) == [field \in DOMAIN c |-> IF field \in DOMAIN made THEN made[field] ELSE c[field]]

\* What is refused is not saved.
Accept(ok, config) == IF ok THEN config ELSE None

-----------------------------------------------------------------------------
(* OPC UA *)

NodesGiven(c) ==
    IF c.ids # {} THEN c.ids
    ELSE IF c.subscription # None THEN c.subscription.nodes
    ELSE IF c.text # None THEN c.text ELSE {}

OpcuaFilled(c) ==
    LET ids == NodesGiven(c)
        auth == Or(c.auth, "anonymous")
    IN Filled(c, [ids |-> ids,
                  subscription |-> IF c.subscription = None THEN [nodes |-> ids] ELSE c.subscription,
                  text |-> IF c.text # None THEN c.text ELSE IF c.subscription = None THEN ids ELSE {},
                  auth |-> auth, timeout |-> OrNumber(c.timeout, 60000),
                  username |-> IF auth = "username_password" THEN c.username ELSE None])

FitOpcua(full) ==
    /\ full.endpoint # None /\ full.ids # {}
    /\ full.timeout \in SessionTimeouts
    /\ full.security # None => full.policy # None
    /\ full.auth = "username_password" => full.username # None
    /\ full.security # None \/ full.auth = "certificate" => full.certified

OpcuaConfig(c) == LET full == OpcuaFilled(c) IN Accept(FitOpcua(full), full)

-----------------------------------------------------------------------------
(* MQTT: the address is written as one URL, and read from it when there is one. *)

MqttHost(c) == IF c.url # None THEN c.url.host ELSE c.host
MqttPort(c) == IF c.url # None THEN OrNumber(c.url.port, OrNumber(c.port, 1883)) ELSE OrNumber(c.port, 1883)

\* An IPv6 address loses its brackets, and a URL without them has no host.
Written(tls, host, port) ==
    [tls |-> tls, host |-> IF host = "ipv6" THEN None ELSE host, port |-> port]

MqttFilled(c) ==
    LET host == MqttHost(c)
        port == MqttPort(c)
        tls == c.tls \/ (c.url # None /\ c.url.tls)
    IN Filled(c, [url |-> Written(tls, host, port), host |-> host, port |-> port,
                  qos |-> OrNumber(c.qos, 0), keep |-> OrNumber(c.keep, 30), tls |-> tls])

FitMqtt(full) ==
    /\ full.host # None /\ full.topic # None
    /\ full.port \in Ports /\ full.qos \in 0..2 /\ full.keep \in 5..3600

MqttConfig(c) == LET full == MqttFilled(c) IN Accept(FitMqtt(full), full)

-----------------------------------------------------------------------------
(* Modbus: registers of four types, and which may be written with which function. *)

Bits == {"coil", "discrete_input"}
Writable == {"coil", "holding_register"}

RegisterFilled(m) ==
    Filled(m, [address |-> OrNumber(m.address, 0), quantity |-> OrNumber(m.quantity, 1)])

FitRegister(m) ==
    /\ m.address \in 0..65535 /\ m.quantity \in 1..125
    /\ m.register \in Bits => m.data = "bool"
    /\ m.writable => m.register \in Writable

\* No retry at all is not to be had: a zero is filled in as two.
ModbusFilled(c) ==
    Filled(c, [port |-> OrNumber(c.port, 502), unit |-> OrNumber(c.unit, 1),
               timeout |-> OrNumber(c.timeout, 5000), retries |-> OrNumber(c.retries, 2),
               window |-> OrNumber(c.window, 120), rate |-> OrNumber(c.rate, 1000),
               function |-> Or(c.function, "fc6"),
               mappings |-> {RegisterFilled(m) : m \in c.mappings}])

FitPolling(full) ==
    /\ full.port \in Ports /\ full.unit \in 0..255 /\ full.timeout \in 100..60000
    /\ full.retries \in 0..10 /\ full.window \in 1..125 /\ full.rate \in 0..600000

FitModbus(full) ==
    /\ full.host # None /\ FitPolling(full)
    /\ full.mappings # {} /\ \A m \in full.mappings : FitRegister(m)
    /\ \A m \in full.mappings : m.writable =>
        m.register = (IF full.function = "fc5" THEN "coil" ELSE "holding_register")

ModbusConfig(c) == LET full == ModbusFilled(c) IN Accept(FitModbus(full), full)

\* The service fills in the same and asks for no more than a host and a mapping.
ModbusService(c) == Accept(c.host # None /\ c.mappings # {}, ModbusFilled(c))

-----------------------------------------------------------------------------
(* SQL: a table or a query, and what of a row is a tag. *)

DefaultPort(db) == CASE db = "mysql" -> 3306 [] db = "sqlserver" -> 1433 [] OTHER -> 5432
Databases == {"postgresql", "mysql", "sqlserver"}

ConnectionFilled(c) ==
    LET db == Or(c.db, "postgresql") IN
    Filled(c, [db |-> db, port |-> OrNumber(c.port, DefaultPort(db)), pool |-> OrNumber(c.pool, 5)])

FitConnection(c) ==
    /\ c.db \in Databases /\ c.host # None
    /\ c.port \in Ports /\ c.pool \in 1..50

SqlFilled(c) ==
    Filled(ConnectionFilled(c),
        [mode |-> Or(c.mode, IF c.query # None THEN "custom_query" ELSE "table"),
         refresh |-> Or(c.refresh, "latest_row"),
         custom |-> Or(c.custom, c.query), query |-> None])

FitQuery(full) ==
    IF full.mode = "table" THEN full.table # None ELSE full.custom = "select"

FitSql(full) ==
    /\ FitConnection(full) /\ FitQuery(full)
    /\ full.mappings # {} \/ (full.tag_column # None /\ full.value_column # None)

SqlConfig(c) == LET full == SqlFilled(c) IN Accept(FitSql(full), full)

\* What the service makes of it to fetch, and to close the pool; the second leaves the
\* fields of the query as they are.
SqlService(c) ==
    LET full == Filled(SqlFilled(c), [query |-> c.query]) IN
    Accept(FitConnection(full) /\ FitQuery(full), full)
SqlConnection(c) == LET full == ConnectionFilled(c) IN Accept(FitConnection(full), full)

-----------------------------------------------------------------------------
(* Historians, of PI and of other makes: the defaults of what is not used are not filled in. *)

HistoryFilled(c) ==
    Filled(c, [subtype |-> Or(c.subtype, "osisoft_pi"), retrieval |-> Or(c.retrieval, "snapshot"),
               range |-> OrNumber(c.range, 1), points |-> OrNumber(c.points, 500),
               auth |-> Or(c.auth, "anonymous")])

PiFilled(c) ==
    Filled(c, [mode |-> None, db |-> None, port |-> None, query |-> None,
               url |-> None, timeout |-> None, fields |-> FALSE])
SqlHistorianFilled(c) ==
    LET db == Or(c.db, "postgresql") IN
    Filled(c, [mode |-> "sql", server |-> FALSE, mappings |-> {}, url |-> None, timeout |-> None,
               db |-> db, port |-> OrNumber(c.port, DefaultPort(db))])
RestHistorianFilled(c) ==
    Filled(c, [server |-> FALSE, mappings |-> {}, timeout |-> OrNumber(c.timeout, 15000),
               db |-> None, port |-> None, query |-> None])

HistorianFilled(c) ==
    LET full == HistoryFilled(c) IN
    IF full.subtype = "osisoft_pi" THEN PiFilled(full)
    ELSE IF full.mode \in {None, "sql"} THEN SqlHistorianFilled(full)
    ELSE RestHistorianFilled(full)

FitHistorian(full) ==
    /\ full.range \in 1..10000 /\ full.points \in 1..5000
    /\ IF full.subtype = "osisoft_pi" THEN full.server /\ full.mappings # {}
       ELSE /\ full.fields
            /\ IF full.mode = "sql" THEN full.username # None /\ full.query = "select"
               ELSE full.url # None /\ full.timeout \in 100..60000

HistorianConfig(c) == LET full == HistorianFilled(c) IN Accept(FitHistorian(full), full)

-----------------------------------------------------------------------------
Normalized(type, c) ==
    CASE type = "opcua" -> OpcuaConfig(c)
      [] type = "mqtt" -> MqttConfig(c)
      [] type = "modbus_tcp" -> ModbusConfig(c)
      [] type = "sql" -> SqlConfig(c)
      [] type = "historian" -> HistorianConfig(c)

FormInit == form \in FirstForms /\ saved = None /\ edits = 0

Edit(field, value) ==
    /\ edits < MaxEdits
    /\ form.config[field] # value
    /\ form' = [form EXCEPT !.config[field] = value]
    /\ edits' = edits + 1
    /\ UNCHANGED saved

\* Mutant: an update saves the fields as they came.
SaveAsGiven ==
    /\ Normalized(form.type, form.config) # None
    /\ saved' = form
    /\ UNCHANGED <<form, edits>>

\* create_connector and update_connector: what was saved is what a client loads.
SaveForm ==
    LET config == Normalized(form.type, form.config) IN
    /\ config # None
    /\ form' = [form EXCEPT !.config = config]
    /\ saved' = form'
    /\ UNCHANGED edits

FormNext ==
    \/ \E field \in DOMAIN FormValues[form.type] :
            \E value \in FormValues[form.type][field] : Edit(field, value)
    \/ SaveForm

FormSpec == FormInit /\ [][FormNext]_formVars

-----------------------------------------------------------------------------
\* Saving what was loaded changes nothing, however often.  An MQTT broker with an IPv6 address
\* is the exception: what is written cannot be read, by the next save or by the thread.
SavingIsStable ==
    saved # None /\ ~(saved.type = "mqtt" /\ saved.config.host = "ipv6")
        => Normalized(saved.type, saved.config) = saved.config

\* The services of Modbus and SQL, which validate again, accept what was saved and read what
\* it says, and the pool that a SQL connector's thread opens is the one that stopping the
\* connector closes.
ServicesReadTheRow ==
    saved # None =>
        /\ saved.type = "modbus_tcp" => ModbusService(saved.config) = saved.config
        /\ saved.type = "sql" =>
            /\ SqlService(saved.config) = saved.config
            /\ SqlConnection(SqlService(saved.config)) = SqlConnection(saved.config)
        /\ saved.type = "mqtt" /\ saved.config.host # "ipv6" =>
            /\ MqttHost(saved.config) = saved.config.host
            /\ MqttPort(saved.config) = saved.config.port

FormsAreKept == SavingIsStable /\ ServicesReadTheRow
================================================================================

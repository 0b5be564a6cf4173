----------------------------- MODULE Migrations -----------------------------
(***************************************************************************)
(* The ten Alembic revisions and the processes that run them, beside an    *)
(* application that writes rows.  A revision is a sequence of statements;  *)
(* a statement says what it needs of the schema, what it changes, and the  *)
(* rows that make PostgreSQL refuse it, and the tables it locks until its  *)
(* transaction ends.  env.py runs all the revisions of one command in one  *)
(* transaction, except that an autocommit_block commits what came before   *)
(* it.                                                                     *)
(*                                                                         *)
(* The schema is a set of facts (tables, columns, constraints, labels of   *)
(* enum types), of which only those that a later revision touches or a     *)
(* model relies on are kept.  Rows are a set of marks: which tables hold   *)
(* rows, and what is missing in them.                                      *)
(***************************************************************************)
EXTENDS Naturals, Sequences

CONSTANTS Operators,   \* processes that run alembic
          Heads,       \* revisions that were the last one when somebody upgraded
          Marks        \* what the application writes: see Written

VARIABLES db,          \* the committed schema, rows and recorded revision
          proc         \* each process: what it runs, and how far it is
vars == <<db, proc>>

-----------------------------------------------------------------------------
(* Statements. *)

Plain == [needs |-> {}, bars |-> {}, takes |-> {}, gives |-> {}, refused |-> {},
          cleared |-> {}, nulls |-> {}, locks |-> {}, auto |-> FALSE]

\* The tables that a statement locks: what it creates, alters or drops, and
\* the table that a foreign key refers to when the key is added or dropped.
\* No two migrations hold one of these locks together.
On(tables, statement) == [statement EXCEPT !.locks = tables]

\* What is created must not be there yet, what is dropped must be; a column
\* that is declared NOT NULL, or no longer, may have been so before.
New(facts) == [Plain EXCEPT !.bars = facts, !.gives = facts]
Gone(facts) == [Plain EXCEPT !.needs = facts, !.takes = facts]
Declare(facts) == [Plain EXCEPT !.gives = facts]
Relax(facts) == [Plain EXCEPT !.takes = facts]
Changed(old, new) == [Gone({old}) EXCEPT !.gives = {new}]

\* Dropping a table takes its rows along; a foreign key to it is in the way.
DropTable(facts, keysToIt, marks) ==
    [Gone(facts) EXCEPT !.bars = keysToIt, !.cleared = marks]

\* A NOT NULL column with no default cannot be added to a table with rows.
AddRequired(column, table) == [New({column}) EXCEPT !.refused = {table}]

\* A nullable column is NULL in the rows that are there ...
AddNullable(columns, table, missing) ==
    [New(columns) EXCEPT !.nulls = {<<table, missing>>}]

\* ... until they are filled in, and can then be declared NOT NULL.
Fill(missing) == [Plain EXCEPT !.cleared = missing]
Require(missing) == [Plain EXCEPT !.refused = {missing}]

AddForeignKey(key) == [New({key}) EXCEPT !.refused = {"strays"}]

\* A mistake: without IF NOT EXISTS.
AddLabelOnce(label) == [New({label}) EXCEPT !.auto = TRUE]

\* ALTER TYPE ... ADD VALUE IF NOT EXISTS, in an autocommit_block.
AddLabel(label) == [Plain EXCEPT !.gives = {label}, !.auto = TRUE]

\* A statement that fails on every database.
Impossible(missing) == Gone({missing})

-----------------------------------------------------------------------------
(* The revisions, in their order. *)

Up250dc == << On({"otps"}, New({"otps", "otps.otp_code:integer"})),
              On({"users"}, New({"users"})),
              On({"users"}, New({"ix_users_phone_number"})) >>
Down250dc == << On({"users"}, Gone({"ix_users_phone_number"})),
                On({"users"}, Gone({"users"})),
                On({"otps"}, DropTable({"otps", "otps.otp_code:integer"}, {}, {"otps"})) >>

\* The application writes defaults to these three columns, never NULL.
Up5f53d == << On({"otps"}, Declare({"otps.is_used:required"})),
              On({"users"}, Declare({"users.is_active:required",
                                     "users.is_verified:required"})) >>
Down5f53d == << On({"users"}, Relax({"users.is_active:required",
                                     "users.is_verified:required"})),
                On({"otps"}, Relax({"otps.is_used:required"})) >>

\* PostgreSQL casts integers to strings by itself, but not back.
Up54bea == << On({"otps"}, AddRequired("otps.expires_at", "otps")),
              On({"otps"}, Changed("otps.otp_code:integer", "otps.otp_code:string")) >>
Down54bea == << On({"otps"}, Impossible("cast_string_to_integer")),
                On({"otps"}, Gone({"otps.expires_at"})) >>

\* create_table also creates the enum types of its columns; drop_table
\* leaves them.
Upf6be8 == << On({"inventory_providers"},
                 New({"inventory_providers", "inventory_providers.name:unique", "types"})),
              On({"products"}, New({"products"})),
              On({"products"}, New({"ix_products_sku"})),
              On({"reservations"}, New({"reservations"})),
              On({"orders", "reservations"},
                 New({"orders", "orders.reservation_id:unique",
                      "orders_reservation_id_fkey"})),
              On({"product_inventories", "products", "inventory_providers"},
                 New({"product_inventories", "uq_product_provider"})),
              On({"reservation_items", "reservations", "products", "inventory_providers"},
                 New({"reservation_items", "reservation_items.product_id",
                      "reservation_items.provider_id",
                      "reservation_items_product_id_fkey:products",
                      "reservation_items_provider_id_fkey"})),
              On({"order_items", "orders", "product_inventories"},
                 New({"order_items", "order_items_product_inventory_id_fkey"})),
              On({"provider_call_logs", "inventory_providers", "reservation_items"},
                 New({"provider_call_logs"})) >>
Downf6be8 == << On({"provider_call_logs", "inventory_providers", "reservation_items"},
                   Gone({"provider_call_logs"})),
                On({"order_items", "orders", "product_inventories"},
                   DropTable({"order_items", "order_items_product_inventory_id_fkey"},
                             {}, {"order_items"})),
                On({"reservation_items", "reservations", "products", "inventory_providers"},
                   DropTable({"reservation_items", "reservation_items.product_id",
                              "reservation_items.provider_id",
                              "reservation_items_product_id_fkey:products",
                              "reservation_items_provider_id_fkey"},
                             {"provider_call_logs"}, {"reservation_items", "strays"})),
                On({"product_inventories", "products", "inventory_providers"},
                   DropTable({"product_inventories", "uq_product_provider"},
                             {"order_items_product_inventory_id_fkey"}, {})),
                On({"orders", "reservations"},
                   DropTable({"orders", "orders.reservation_id:unique",
                              "orders_reservation_id_fkey"}, {}, {})),
                On({"reservations"},
                   DropTable({"reservations"}, {"orders_reservation_id_fkey"},
                             {"reservations"})),
                On({"products"}, Gone({"ix_products_sku"})),
                On({"products"},
                   DropTable({"products"},
                             {"reservation_items_product_id_fkey:products"}, {})),
                On({"inventory_providers"},
                   DropTable({"inventory_providers", "inventory_providers.name:unique"},
                             {"reservation_items_provider_id_fkey"}, {})) >>

\* The new key has no name given; PostgreSQL gives it the one just freed.
\* The downgrade drops a constraint without a name, which Alembic refuses.
Up38dd2 == << On({"reservation_items", "inventory_providers"},
                 Gone({"reservation_items_provider_id_fkey"})),
              On({"reservation_items", "products"},
                 Gone({"reservation_items_product_id_fkey:products"})),
              On({"reservation_items", "product_inventories"},
                 AddForeignKey("reservation_items_product_id_fkey:inventories")),
              On({"reservation_items"}, Gone({"reservation_items.provider_id"})) >>
Down38dd2 == << On({"reservation_items"},
                   AddRequired("reservation_items.provider_id", "reservation_items")),
                Impossible("unnamed_constraint"),
                On({"reservation_items", "products"},
                   AddForeignKey("reservation_items_product_id_fkey:products")),
                On({"reservation_items", "inventory_providers"},
                   AddForeignKey("reservation_items_provider_id_fkey")) >>

Up5d0c6 == << On({"reservation_items"},
                 AddNullable({"reservation_items.product_inventory_id"},
                             "reservation_items", "no_inventory")),
              On({"reservation_items"}, Fill({"no_inventory"})),
              On({"reservation_items"}, Require("no_inventory")),
              On({"reservation_items", "product_inventories"},
                 Gone({"reservation_items_product_id_fkey:inventories"})),
              On({"reservation_items"}, Gone({"reservation_items.product_id"})),
              On({"reservation_items", "product_inventories"},
                 AddForeignKey("reservation_items_product_inventory_id_fkey")) >>
Down5d0c6 == << On({"reservation_items"},
                   AddNullable({"reservation_items.product_id"},
                               "reservation_items", "no_product")),
                On({"reservation_items"}, Fill({"no_product"})),
                On({"reservation_items"}, Require("no_product")),
                On({"reservation_items", "product_inventories"},
                   Gone({"reservation_items_product_inventory_id_fkey"})),
                On({"reservation_items"}, Gone({"reservation_items.product_inventory_id"})),
                On({"reservation_items", "product_inventories"},
                   AddForeignKey("reservation_items_product_id_fkey:inventories")) >>

\* The key is unique for each user, not by itself.
Upc3c55 == << On({"reservations"},
                 AddNullable({"reservations.client_idempotency_key"},
                             "reservations", "no_key")),
              On({"reservations"},
                 AddNullable({"reservations.version"}, "reservations", "no_version")),
              On({"reservations"}, Fill({"no_key", "no_version"})),
              On({"reservations"}, Require("no_key")),
              On({"reservations"}, Require("no_version")),
              On({"reservations"}, New({"reservations.key_and_user:unique"})) >>
Downc3c55 == << On({"reservations"}, Gone({"reservations.key_and_user:unique"})),
                On({"reservations"}, Gone({"reservations.version"})),
                On({"reservations"}, Gone({"reservations.client_idempotency_key"})) >>

Up89cce == << On({"order_items"}, AddRequired("order_items.sku", "order_items")),
              On({"order_items", "product_inventories"},
                 Gone({"order_items_product_inventory_id_fkey"})),
              On({"orders", "reservations"}, Gone({"orders_reservation_id_fkey"})) >>
Down89cce == << On({"orders", "reservations"}, New({"orders_reservation_id_fkey"})),
                On({"order_items", "product_inventories"},
                   New({"order_items_product_inventory_id_fkey"})),
                On({"order_items"}, Gone({"order_items.sku"})) >>

\* A mistake: two of the three labels.
ConfirmingForgotten == << AddLabel("CREATING"), AddLabel("PENDING_LOCAL") >>
Up12f83 == << AddLabel("CREATING"), AddLabel("PENDING_LOCAL"), AddLabel("CONFIRMING") >>
Up2d99b == << AddLabel("HELD_LOCAL") >>

\* The downgrades of the last two do nothing.
Upgrade == << Up250dc, Up5f53d, Up54bea, Upf6be8, Up38dd2,
              Up5d0c6, Upc3c55, Up89cce, Up12f83, Up2d99b >>
Downgrade == << Down250dc, Down5f53d, Down54bea, Downf6be8, Down38dd2,
                Down5d0c6, Downc3c55, Down89cce, << >>, << >> >>
Latest == Len(Upgrade)

ASSUME HeadsAssumption == Heads \subseteq 1 .. Latest

-----------------------------------------------------------------------------
(* What a statement does to a database. *)

Possible(s, d) == /\ s.needs \subseteq d.schema
                  /\ s.bars \cap d.schema = {}
                  /\ s.refused \cap d.rows = {}

Done(s, d) ==
    [d EXCEPT !.schema = (@ \ s.takes) \cup s.gives,
              !.rows = (@ \ s.cleared) \cup {n[2] : n \in {m \in s.nulls : m[1] \in @}}]

\* What a script makes of a database, statement by statement.
Course(script, d) ==
    LET after[k \in 0 .. Len(script)] ==
            IF k = 0 THEN d ELSE Done(script[k], after[k - 1])
    IN  after
Runs(script, d) ==
    \A k \in 1 .. Len(script) : Possible(script[k], Course(script, d)[k - 1])

\* What an upgrade makes of a database, revision by revision.
Upgraded(d) ==
    LET at[r \in d.revision .. Latest] ==
            IF r = d.revision THEN d
            ELSE Course(Upgrade[r], at[r - 1])[Len(Upgrade[r])]
    IN  at

-----------------------------------------------------------------------------
(* The processes.  A process that runs a command knows the revision it was *)
(* at when it last committed (base), the one it has come to since (at), and *)
(* the statement of the script from there that is next.                    *)

Idle == [command |-> "none", goal |-> 0, base |-> 0, at |-> 0, next |-> 1]

Empty == [schema |-> {}, rows |-> {}, revision |-> 0]

Init == /\ db = Empty
        /\ proc = [o \in Operators |-> Idle]

Running(o) == proc[o].command # "none"

\* The statements of the revision that o is at.
Script(o) == IF proc[o].command = "upgrade" THEN Upgrade[proc[o].at + 1]
                                            ELSE Downgrade[proc[o].at]
\* A mistake: a downgrade that records the next revision.
Onward(o) == proc[o].at + 1
To(o) == IF proc[o].command = "upgrade" THEN proc[o].at + 1 ELSE proc[o].at - 1
Statement(o) == Script(o)[proc[o].next]
AtStatement(o) == Running(o) /\ proc[o].next <= Len(Script(o))

\* The database as o's transaction sees it: with the revisions it has done
\* since its last commit, and the statements it has done since the last of
\* these.  Nobody else commits a change to a table that o has locked.
Reached(o) == IF proc[o].at = proc[o].base THEN db
              ELSE [Upgraded(db)[proc[o].at] EXCEPT !.revision = proc[o].at]
Seen(o) == Course(Script(o), Reached(o))[proc[o].next - 1]

\* The locks of o's transaction: those of its statements, and the row of
\* alembic_version when it has recorded a revision.
LocksOf(script, n) == UNION {script[k].locks : k \in 1 .. n}
Held(o) == LocksOf(Script(o), proc[o].next - 1)
               \cup (UNION {LocksOf(Upgrade[r], Len(Upgrade[r])) :
                                r \in proc[o].base + 1 .. proc[o].at})
               \cup (IF proc[o].at # proc[o].base THEN {"alembic_version"} ELSE {})

\* What the next step of o has to lock, and who is in its way.
Wanted(o) == IF AtStatement(o) THEN Statement(o).locks ELSE {"alembic_version"}
WaitsFor(o) == {p \in Operators \ {o} : /\ Running(o) /\ Running(p)
                                        /\ Wanted(o) \cap Held(p) # {}}

\* Some of these wait for each other in a circle, o among them.
Deadlocked(o) ==
    \E circle \in SUBSET Operators :
        /\ o \in circle
        /\ \A p \in circle : WaitsFor(p) \cap circle # {}
        /\ \A fewer \in SUBSET circle :
               (\A p \in fewer : WaitsFor(p) \cap fewer # {}) => fewer \in {{}, circle}

\* Two mistakes: statements that cannot be rolled back, and a failed command
\* that is run again.
AbortKeepsChanges(o) ==
    /\ proc' = [proc EXCEPT ![o] = Idle]
    /\ db' = Seen(o)
AbortTriesAgain(o) ==
    /\ proc' = [proc EXCEPT ![o].at = proc[o].base, ![o].next = 1]
    /\ UNCHANGED db

\* The command ends with an error, or its process dies; the transaction is
\* rolled back.
Abort(o) ==
    /\ proc' = [proc EXCEPT ![o] = Idle]
    /\ UNCHANGED db

\* `alembic upgrade head` of some day, or `alembic downgrade -1`: the recorded
\* revision is read once.
Begin(o) ==
    /\ ~Running(o)
    /\ \/ \E head \in Heads :
             /\ db.revision < head
             /\ proc' = [proc EXCEPT ![o] =
                            [command |-> "upgrade", goal |-> head,
                             base |-> db.revision, at |-> db.revision, next |-> 1]]
       \/ /\ db.revision > 0
          /\ proc' = [proc EXCEPT ![o] =
                         [command |-> "downgrade", goal |-> db.revision - 1,
                          base |-> db.revision, at |-> db.revision, next |-> 1]]
    /\ UNCHANGED db

Execute(o) ==
    /\ AtStatement(o) /\ ~Statement(o).auto /\ WaitsFor(o) = {}
    /\ IF Possible(Statement(o), Seen(o))
       THEN /\ proc' = [proc EXCEPT ![o].next = @ + 1]
            /\ UNCHANGED db
       ELSE Abort(o)

\* autocommit_block first commits what the transaction has done ...
EnterAutocommit(o) ==
    /\ AtStatement(o) /\ Statement(o).auto /\ proc[o].at # proc[o].base
    /\ db' = Seen(o)
    /\ proc' = [proc EXCEPT ![o].base = proc[o].at]

\* ... and then each statement commits by itself, beside other transactions.
ExecuteAutocommit(o) ==
    /\ AtStatement(o) /\ Statement(o).auto /\ proc[o].at = proc[o].base
    /\ IF Possible(Statement(o), db)
       THEN /\ db' = Done(Statement(o), db)
            /\ proc' = [proc EXCEPT ![o].next = @ + 1]
       ELSE Abort(o)

\* After each revision: UPDATE alembic_version ... WHERE version_num = the old
\* one, which must match; after the last, the transaction is committed.  (The
\* INSERT of the first revision has no WHERE, but nobody can be beside it: it
\* has created otps.)
Record(o) ==
    /\ Running(o) /\ ~AtStatement(o) /\ WaitsFor(o) = {}
    /\ IF Seen(o).revision # proc[o].at THEN Abort(o)
       ELSE IF proc[o].command = "upgrade" /\ To(o) # proc[o].goal
       THEN /\ proc' = [proc EXCEPT ![o].at = To(o), ![o].next = 1]
            /\ UNCHANGED db
       ELSE /\ proc' = [proc EXCEPT ![o] = Idle]
            /\ db' = [Seen(o) EXCEPT !.revision = To(o)]

Crash(o) == Running(o) /\ Abort(o)

\* PostgreSQL aborts one of the transactions that wait for each other.
DeadlockAbort(o) == Deadlocked(o) /\ Abort(o)

Written == {"otps", "reservations", "reservation_items", "strays", "order_items"}

ASSUME MarksAssumption == Marks \subseteq Written

\* The application of the day writes a row, unless a migration has locked the
\* table.  An item made before 38dd names a product, whose number need not be
\* that of an inventory.
Write(mark) ==
    LET table == IF mark = "strays" THEN "reservation_items" ELSE mark IN
    /\ \A o \in Operators : Running(o) => table \notin Held(o)
    /\ IF mark = "strays" THEN "reservation_items_product_id_fkey:products" \in db.schema
                          ELSE mark \in db.schema
    /\ db' = [db EXCEPT !.rows = @ \cup {mark}]
    /\ UNCHANGED proc

Step(o) == Execute(o) \/ EnterAutocommit(o) \/ ExecuteAutocommit(o) \/ Record(o)

Next == \/ \E o \in Operators : Begin(o) \/ Step(o) \/ Crash(o) \/ DeadlockAbort(o)
        \/ \E mark \in Marks : Write(mark)

Spec == Init /\ [][Next]_vars

\* PostgreSQL grants locks in the order they were asked for, and looks for
\* deadlocks.
FairSpec == Spec /\ \A o \in Operators : SF_vars(Step(o)) /\ WF_vars(DeadlockAbort(o))

-----------------------------------------------------------------------------
(* The models, as the facts they rely on. *)

UserModel == {"users", "ix_users_phone_number"}
OtpModel == {"otps", "otps.otp_code:string", "otps.expires_at"}
ProductModel == {"products", "ix_products_sku"}
ReservationModel == {"reservations", "reservations.client_idempotency_key",
                     "reservations.client_idempotency_key:unique",
                     "reservations.version", "types",
                     "CREATING", "PENDING_LOCAL", "CONFIRMING"}
ReservationItemModel == {"reservation_items", "reservation_items.product_inventory_id",
                         "HELD_LOCAL"}
OrderModel == {"orders", "orders.reservation_id:unique"}
OrderItemModel == {"order_items", "order_items.sku"}
ProviderModel == {"inventory_providers", "inventory_providers.name:unique"}
InventoryModel == {"product_inventories", "uq_product_provider"}
CallLogModel == {"provider_call_logs"}
Models == UserModel \cup OtpModel \cup ProductModel \cup ReservationModel
              \cup ReservationItemModel \cup OrderModel \cup OrderItemModel
              \cup ProviderModel \cup InventoryModel \cup CallLogModel

\* Columns that every row must give a value: no model may be without them.
Demanded == {"otps.expires_at", "reservations.client_idempotency_key",
             "reservations.version", "reservation_items.product_id",
             "reservation_items.provider_id", "order_items.sku",
             "reservation_items.product_inventory_id"}

-----------------------------------------------------------------------------
(* Properties. *)

\* Committed rows miss no value: what is NULL on the way is filled in by the
\* same transaction.  A revision is one of the ten, or none.
MigrationsTypeOK ==
    /\ db.rows \subseteq Written
    /\ db.revision \in 0 .. Latest
    /\ \A o \in Operators :
          /\ proc[o].command \in {"none", "upgrade", "downgrade"}
          /\ proc[o].base \in 0 .. Latest /\ proc[o].at \in proc[o].base .. Latest
          /\ proc[o].goal \in 0 .. Latest
          /\ Running(o) => proc[o].next \in 1 .. Len(Script(o)) + 1

\* `alembic upgrade head`, alone, comes to its end.
UpgradeWorks(d) ==
    \A r \in d.revision + 1 .. Latest : Runs(Upgrade[r], Upgraded(d)[r - 1])

Fresh == [revision \in 0 .. Latest |-> Upgraded(Empty)[revision].schema]

\* What no downgrade takes away: enum types and their labels.
Lasting == {"types", "CREATING", "PENDING_LOCAL", "CONFIRMING", "HELD_LOCAL"}

\* The recorded revision tells the schema: whatever crashed, failed, was
\* downgraded or ran beside it, the tables, columns and constraints are those
\* of a database upgraded from nothing to that revision.
RecordedIsReal ==
    /\ Fresh[db.revision] \subseteq db.schema
    /\ db.schema \ Fresh[db.revision] \subseteq Lasting

\* The rows that an upgrade from a revision cannot take along.
InTheWay(revision) == (IF revision < 3 THEN {"otps"} ELSE {})
                          \cup (IF revision < 5 THEN {"strays"} ELSE {})
                          \cup (IF revision < 8 THEN {"order_items"} ELSE {})

\* A database can always be upgraded to head, whatever happened to earlier
\* attempts, unless it holds rows of these three kinds, or the types that the
\* downgrade of f6be8 leaves behind; then it never can.
UpgradeWorksUnless ==
    UpgradeWorks(db) <=>
        /\ db.rows \cap InTheWay(db.revision) = {}
        /\ db.revision < 4 => "types" \notin db.schema

\* The one thing a model declares that no revision makes: the class Reservation
\* has its key unique alone, the table unique for each user.
Undelivered == {"reservations.client_idempotency_key:unique"}

\* At head the database lacks exactly that of all the models declare, and asks
\* for nothing they do not give.
HeadServesModels ==
    db.revision = Latest => /\ Models \ db.schema = Undelivered
                          /\ db.schema \cap Demanded \subseteq Models

\* A command comes to its end, beside another one too.
CommandEnds == \A o \in Operators : Running(o) ~> ~Running(o)
=============================================================================

------------------------------- MODULE Sqlite -------------------------------
(***************************************************************************)
(* bun:sqlite (crates/bun-runtime/src/bun_api/sqlite.rs): Database objects *)
(* on one file, each with a connection behind an Rc<RefCell<Option<..>>>   *)
(* that the methods of the database and of its statements share.           *)
(*                                                                         *)
(* A statement keeps the handle and its text and is prepared again by      *)
(* every call, so it has no state.  Script runs inside a call in two       *)
(* places: the function of transaction(), which may also block in          *)
(* require() while tasks of its thread run, and the getters of an object   *)
(* with parameters.  frames is what a thread is inside of.                 *)
(*                                                                         *)
(* Rows are numbered as they are inserted.  A JavaScript value is its type *)
(* and, of a plain object, the types of its properties; NaN is a type of   *)
(* its own, and "bytes" is an array with a pointer to its bytes (one that  *)
(* is empty and has none is an "array").  An insert puts each parameter    *)
(* into a column as it is.  The script sends no BEGIN, COMMIT or ROLLBACK  *)
(* of its own.                                                             *)
(***************************************************************************)
EXTENDS Naturals, Sequences

CONSTANTS
    Database,           \* the Database objects
    Thread,             \* the JavaScript threads
    Property,           \* names of parameters, none of them "length"
    Insert,             \* statements that insert a row, with their arguments
    MaxWrites,          \* rows a behaviour inserts
    MaxTransactions,    \* calls of transaction functions
    MaxFrames           \* calls a thread is inside of

JsType == {"undefined", "null", "boolean", "number", "nan", "string", "bytes", "array", "date", "object"}
Argument == [type : JsType, props : UNION {[S -> JsType] : S \in SUBSET Property}]
SqlType == {"Null", "Integer", "Real", "Text", "Blob"}

(* A column is declared without a type (or as BLOB), as TEXT, as INTEGER,   *)
(* REAL or NUMERIC, or as INTEGER PRIMARY KEY.                              *)
Column == {"none", "text", "numeric", "rowid"}

ASSUME InsertAssumption ==
    \A i \in Insert : /\ i.params \in Seq(Property) /\ i.args \in Seq(Argument)
                      /\ i.columns \in [DOMAIN i.params -> Column]
ASSUME DatabaseBounds == MaxWrites \in Nat /\ MaxTransactions \in Nat /\ MaxFrames \in Nat

VARIABLES
    home,           \* the thread a database was opened by
    conn,           \* the Option in the handle: "new", "open" or "closed"
    tx,             \* whether a transaction is open on the connection
    reading,        \* whether that transaction has read
    pending,        \* the rows it has inserted
    saved,          \* the rows committed to the file
    frames,         \* the calls each thread is inside of
    calls,          \* history: every call of a transaction function
    writes          \* history: every insert that succeeded, and what was stored

databaseVars == <<home, conn, tx, reading, pending, saved, frames, calls, writes>>

-----------------------------------------------------------------------------
(* Parameters.                                                              *)

(* How a value can be stored; a whole number is an Integer.                 *)
js_to_sql(type) ==
    CASE type \in {"undefined", "null"} -> {"Null"}
      [] type = "boolean" -> {"Integer"}
      [] type = "number" -> {"Integer", "Real"}
      [] type = "nan" -> {"Real"}
      [] type = "bytes" -> {"Blob"}
      [] OTHER -> {"Text"}

sql_to_js(cell) ==
    CASE cell = "Null" -> "null"
      [] cell \in {"Integer", "Real"} -> "number"
      [] cell = "Text" -> "string"
      [] cell = "Blob" -> "bytes"

(* One object without a numeric length (a Date too) names the parameters.   *)
Named(args) == Len(args) = 1 /\ args[1].type \in {"object", "date"}
collect_params(args) ==
    IF Named(args) THEN args[1].props ELSE [i \in DOMAIN args |-> args[i].type]

(* SQLite takes a NaN it is given for NULL.                                 *)
Bound(type) == IF type = "nan" THEN {"Null"} ELSE js_to_sql(type)

(* Names the statement does not have are ignored, values beyond its last    *)
(* parameter are an error, and what is not bound is NULL.                   *)
BindFails(params, args) == ~Named(args) /\ Len(args) > Len(params)
bind_params(params, args) ==
    LET list == collect_params(args)
        place(i) == IF Named(args) THEN params[i] ELSE i
    IN  {cells \in [DOMAIN params -> SqlType] :
            \A i \in DOMAIN params :
                cells[i] \in IF place(i) \in DOMAIN list THEN Bound(list[place(i)]) ELSE {"Null"}}

(* What a column may keep of a cell: TEXT keeps a number as its digits, a   *)
(* numeric column a text of digits as the number, and the primary key is a  *)
(* whole number, a new one for NULL.                                        *)
Converted(column, cell) ==
    CASE column = "text" /\ cell \in {"Integer", "Real"} -> {"Text"}
      [] column = "numeric" /\ cell \in {"Integer", "Real", "Text"} -> {cell, "Integer", "Real"}
      [] column = "rowid" -> IF cell = "Blob" THEN {} ELSE {"Integer"}
      [] OTHER -> {cell}

(* The rows an insert may store.                                            *)
Rows(i) ==
    UNION {{cells \in [DOMAIN i.params -> SqlType] :
               \A p \in DOMAIN i.params : cells[p] \in Converted(i.columns[p], bound[p])} :
           bound \in bind_params(i.params, i.args)}

-----------------------------------------------------------------------------
(* The file, as SQLite keeps it.                                            *)

(* Another connection that is writing, or that has read in a transaction    *)
(* when this one must commit, makes a statement fail as busy.               *)
OthersRead(d) == \E e \in Database \ {d} : reading[e]
OthersWrite(d) == \E e \in Database \ {d} : pending[e] # {}
Busy(d) == OthersWrite(d) \/ (~tx[d] /\ OthersRead(d))

(* The transaction of d is over, its rows kept or not.                      *)
TransactionOver(d, rows) ==
    /\ tx' = [tx EXCEPT ![d] = FALSE]
    /\ reading' = [reading EXCEPT ![d] = FALSE]
    /\ pending' = [pending EXCEPT ![d] = {}]
    /\ saved' = saved \cup rows

-----------------------------------------------------------------------------
(* The call of a transaction function that is in progress on d.             *)
InProgress(d) == {k \in DOMAIN calls : calls[k] = [db |-> d, state |-> "running"]}

(* The call a row belongs to that is inserted now, 0 for none.              *)
CallOf(d) == IF InProgress(d) = {} THEN 0 ELSE CHOOSE k \in InProgress(d) : TRUE

Entered(t, op, d) ==
    /\ Len(frames[t]) < MaxFrames
    /\ frames' = [frames EXCEPT ![t] = Append(@, [op |-> op, db |-> d])]

Innermost(t) == frames[t][Len(frames[t])]
Inside(t, ops) == frames[t] # <<>> /\ Innermost(t).op \in ops
Leaves(t) == frames' = [frames EXCEPT ![t] = SubSeq(@, 1, Len(@) - 1)]

(* new Database(). *)
OpenDatabase(d) ==
    /\ conn[d] = "new"
    /\ conn' = [conn EXCEPT ![d] = "open"]
    /\ UNCHANGED <<home, tx, reading, pending, saved, frames, calls, writes>>

(* A statement that inserts a row, outside a transaction at once for good.  *)
Inserts(d) ==
    /\ Len(writes) < MaxWrites
    /\ ~Busy(d)
    /\ \E i \in Insert :
          /\ ~BindFails(i.params, i.args)
          /\ \E cells \in Rows(i) :
                writes' = Append(writes, [call |-> CallOf(d), insert |-> i, cells |-> cells])
    /\ IF tx[d]
       THEN pending' = [pending EXCEPT ![d] = @ \cup {Len(writes) + 1}] /\ UNCHANGED saved
       ELSE saved' = saved \cup {Len(writes) + 1} /\ UNCHANGED pending
    /\ UNCHANGED <<tx, reading, calls>>

(* A query in a transaction keeps the file from being written by others.    *)
Queries(d) ==
    /\ tx[d]
    /\ reading' = [reading EXCEPT ![d] = TRUE]
    /\ UNCHANGED <<tx, pending, saved, calls, writes>>

CallEnds(d, outcome) ==
    calls' = [k \in DOMAIN calls |->
                IF k \in InProgress(d) THEN [calls[k] EXCEPT !.state = outcome] ELSE calls[k]]

(* A statement that fails changes nothing, or takes the transaction with it *)
(* (a full disk, an I/O error, ON CONFLICT ROLLBACK): the call goes on, and *)
(* what it executes from then on is in no transaction.                      *)
Fails(d) ==
    /\ \/ UNCHANGED <<tx, reading, pending, saved, calls>>
       \/ tx[d] /\ TransactionOver(d, {}) /\ CallEnds(d, "lost")
    /\ UNCHANGED writes

(* A statement on an open connection.                                       *)
Executes(d) == Inserts(d) \/ Queries(d) \/ Fails(d)

(* run, all, get, values when no getter runs, and exec: it makes its        *)
(* statements one by one and stops at the first that fails.                 *)
Statement(d) ==
    /\ conn[d] = "open"
    /\ Executes(d)
    /\ UNCHANGED <<home, conn, frames>>

(* A getter of the parameters runs: Database.run collects them before it    *)
(* borrows the handle, ...                                                  *)
DatabaseCollects(d) ==
    /\ conn[d] # "new"
    /\ Entered(home[d], "run", d)
    /\ UNCHANGED <<home, conn, tx, reading, pending, saved, calls, writes>>

(* ... the methods of a statement after that.                               *)
StatementCollects(d) ==
    /\ conn[d] = "open"
    /\ Entered(home[d], "borrowed", d)
    /\ UNCHANGED <<home, conn, tx, reading, pending, saved, calls, writes>>

(* Then the statement is executed, unless the database has been closed.     *)
Collected(t) ==
    /\ Inside(t, {"run", "borrowed"})
    /\ Leaves(t)
    /\ LET d == Innermost(t).db IN
       IF conn[d] = "open" THEN Executes(d)
       ELSE UNCHANGED <<tx, reading, pending, saved, calls, writes>>
    /\ UNCHANGED <<home, conn>>

(* With BEGIN inside the try, a nested call would roll the outer one back.  *)
BeginInsideTry(d) ==
    /\ Len(calls) < MaxTransactions
    /\ conn[d] = "open"
    /\ IF tx[d] THEN TransactionOver(d, {}) /\ UNCHANGED <<frames, calls>>
       ELSE /\ tx' = [tx EXCEPT ![d] = TRUE]
            /\ Entered(home[d], "transaction", d)
            /\ calls' = Append(calls, [db |-> d, state |-> "running"])
            /\ UNCHANGED <<reading, pending, saved>>
    /\ UNCHANGED <<home, conn, writes>>

(* transaction(fn) called: BEGIN throws out of the call when the database   *)
(* is closed or in a transaction, otherwise fn runs.                        *)
BeginTransaction(d) ==
    /\ Len(calls) < MaxTransactions
    /\ conn[d] = "open" /\ ~tx[d]
    /\ tx' = [tx EXCEPT ![d] = TRUE]
    /\ Entered(home[d], "transaction", d)
    /\ calls' = Append(calls, [db |-> d, state |-> "running"])
    /\ UNCHANGED <<home, conn, reading, pending, saved, writes>>

(* COMMIT needs the transaction, and no reader in its way.                  *)
CanCommit(d) == conn[d] = "open" /\ tx[d] /\ (pending[d] # {} => ~OthersRead(d))

(* fn returned (a promise too) or threw.  A COMMIT that fails is caught as  *)
(* well, one without a transaction too; ROLLBACK finds a transaction, or    *)
(* none and throws.                                                         *)
TransactionEnds(t) ==
    /\ Inside(t, {"transaction"})
    /\ Leaves(t)
    /\ LET d == Innermost(t).db IN
       \/ CanCommit(d) /\ TransactionOver(d, pending[d]) /\ CallEnds(d, "returned")
       \/ TransactionOver(d, {}) /\ CallEnds(d, "threw")
    /\ UNCHANGED <<home, conn, writes>>

(* close() drops the connection, and SQLite what it had not committed.  In  *)
(* a getter of a statement the handle is borrowed: close() panics, and the  *)
(* script gets an error.                                                    *)
Borrowed(d) == \E i \in DOMAIN frames[home[d]] : frames[home[d]][i] = [op |-> "borrowed", db |-> d]
CloseDatabase(d) ==
    /\ conn[d] = "open"
    /\ ~Borrowed(d)
    /\ conn' = [conn EXCEPT ![d] = "closed"]
    /\ TransactionOver(d, {})
    /\ UNCHANGED <<home, frames, calls, writes>>

DatabaseInit ==
    /\ home \in [Database -> Thread]
    /\ conn = [d \in Database |-> "new"]
    /\ tx = [d \in Database |-> FALSE]
    /\ reading = [d \in Database |-> FALSE]
    /\ pending = [d \in Database |-> {}]
    /\ saved = {}
    /\ frames = [t \in Thread |-> <<>>]
    /\ calls = <<>>
    /\ writes = <<>>

DatabaseNext ==
    \/ \E d \in Database : \/ OpenDatabase(d) \/ Statement(d) \/ BeginTransaction(d)
                           \/ DatabaseCollects(d) \/ StatementCollects(d) \/ CloseDatabase(d)
    \/ \E t \in Thread : Collected(t) \/ TransactionEnds(t)

DatabaseSpec == DatabaseInit /\ [][DatabaseNext]_databaseVars

-----------------------------------------------------------------------------
RowsOf(k) == {n \in DOMAIN writes : writes[n].call = k}
CallsThat(outcome) == {k \in DOMAIN calls : calls[k].state = outcome}

(* All or nothing: the file holds the rows inserted outside transactions    *)
(* and those of the calls that returned, and no row inserted in the         *)
(* transaction of a call that threw or lost it.  What the function of a     *)
(* call inserts once SQLite has ended its transaction is in none: it stays  *)
(* in the file although the COMMIT fails and the call throws.               *)
AllOrNothing == saved = RowsOf(0) \cup UNION {RowsOf(k) : k \in CallsThat("returned")}

(* A transaction is open only while its call is in progress, and holds the  *)
(* rows of that call: neither a nested call that fails to begin nor what    *)
(* other connections do takes one of them away or adds one.                 *)
OneCallPerTransaction ==
    \A d \in Database :
        IF tx[d] THEN \E k \in DOMAIN calls : InProgress(d) = {k} /\ pending[d] = RowsOf(k)
        ELSE pending[d] = {}

(* What a parameter was given, by name or by position.                      *)
Given(insert, i) ==
    IF Named(insert.args)
    THEN IF insert.params[i] \in DOMAIN insert.args[1].props
         THEN insert.args[1].props[insert.params[i]] ELSE "null"
    ELSE IF i <= Len(insert.args) THEN insert.args[i].type ELSE "null"

(* Bytes read back as bytes, NaN as null, null as itself but from a primary *)
(* key, numbers unless the column is TEXT, strings unless it is numeric.    *)
BackAs(given, column) ==
    CASE given = "bytes" -> {"bytes"}
      [] given \in {"null", "nan"} /\ column # "rowid" -> {"null"}
      [] given = "number" /\ column # "text" -> {"number"}
      [] given = "string" /\ column \in {"none", "text"} -> {"string"}
      [] OTHER -> {"null", "number", "string", "bytes"}

ReadsBack ==
    \A n \in DOMAIN writes : \A i \in DOMAIN writes[n].cells :
        LET insert == writes[n].insert IN
        sql_to_js(writes[n].cells[i]) \in BackAs(Given(insert, i), insert.columns[i])

(* The Database promises: transactions are all or nothing, a row reads back *)
(* as what was given for it where the column allows, and a connection does  *)
(* not go away in the middle of a statement.                                *)
TransactionsAtomic ==
    /\ AllOrNothing
    /\ OneCallPerTransaction
    /\ ReadsBack
    /\ \A d \in Database : Borrowed(d) => conn[d] = "open"
=============================================================================

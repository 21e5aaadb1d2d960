----------------------------- MODULE SharedState ------------------------------
(***************************************************************************)
(* The versioned fields a conversation shares (collaboration/state.ts).    *)
(* updateSharedState runs inside its caller's transaction: it locks the    *)
(* state's row, answers a repeated operation from the operations table,    *)
(* compares the version expected of every field, writes the fields and     *)
(* records the operation under a number of the table's sequence.  The      *)
(* caller may still roll back.  A reader follows the operations by number. *)
(* A value is the operation that wrote it; a deletion is such a value.     *)
(* Authorization and audiences are left out.                               *)
(***************************************************************************)
EXTENDS Integers, FiniteSets

CONSTANTS
  Writers,     \* transactions that update the state
  Operations,  \* operation ids
  Fields,
  MaxFieldVersion,  \* field versions explored
  MaxSeq,      \* numbers taken from the sequence
  PageSize     \* operations a reader gets at a time (64)

VARIABLES
  shared,    \* the row: version, and the version and value of every field
  ops,       \* the committed operations: rows with a number each
  seq,       \* the sequence behind agent_shared_operations.seq
  holder,    \* the transaction that holds the row's lock
  writer,    \* the transaction of each writer
  reader     \* a reader's cursor and what it has read

svars == <<shared, ops, seq, holder, writer, reader>>

Unset == "none"
ASSUME SharedAssumption ==
  /\ MaxFieldVersion \in Nat /\ MaxSeq \in Nat /\ PageSize \in Nat
  /\ Unset \notin Writers

Unwritten == [version |-> 0, value |-> Unset]
NoTransaction == [pc |-> "idle"]

SharedInit ==
  /\ shared = [version |-> 0, fields |-> [f \in Fields |-> Unwritten]]
  /\ ops = {} /\ seq = 0 /\ holder = Unset
  /\ writer = [w \in Writers |-> NoTransaction]
  /\ reader = [cursor |-> 0, read |-> {}]

\* Mutant: SELECT without FOR UPDATE.
LockFree(w) == writer[w].pc = "idle"

LockAvailable(w) == writer[w].pc = "idle" /\ holder = Unset

\* An update names an operation and, for some fields, the version it expects of each.
\* SELECT ... FOR UPDATE waits for the lock's holder and reads what it committed.  The
\* same call may be repeated after a lost answer, and nothing keeps a caller from using
\* an operation's id for other content.
Lock(w, op, expected) ==
  /\ LockAvailable(w)
  /\ holder' = w
  /\ writer' = [writer EXCEPT ![w] = [pc |-> "locked", op |-> op, expected |-> expected, row |-> shared]]
  /\ UNCHANGED <<shared, ops, seq, reader>>

RecordedAs(op) == {o \in ops : o.op = op}

\* The operation has been recorded: its result is returned again, or, when the content
\* differs, the call throws.  Nothing is written either way.
RepeatedOperation(w) ==
  /\ writer[w].pc = "locked" /\ RecordedAs(writer[w].op) # {}
  /\ writer' = [writer EXCEPT ![w] = NoTransaction] /\ holder' = Unset
  /\ UNCHANGED <<shared, ops, seq, reader>>

Conflicts(w) == {f \in DOMAIN writer[w].expected : writer[w].row.fields[f].version # writer[w].expected[f]}

\* Mutant: the fields without a conflict are written although another has one.
WrittenWhereCurrent(w) ==
  LET t == writer[w]
  IN [version |-> t.row.version + 1,
      fields |-> [f \in Fields |-> IF f \in DOMAIN t.expected \ Conflicts(w)
                                   THEN [version |-> t.expected[f] + 1, value |-> t.op]
                                   ELSE t.row.fields[f]]]

\* The row the update leaves: all fields or, with a conflict, none.
Written(w) ==
  LET t == writer[w]
  IN IF Conflicts(w) # {} THEN t.row
     ELSE [version |-> t.row.version + 1,
           fields |-> [f \in Fields |-> IF f \in DOMAIN t.expected
                                        THEN [version |-> t.expected[f] + 1, value |-> t.op]
                                        ELSE t.row.fields[f]]]

\* The row and the operation are written; the number is taken now.
RecordOperation(w) ==
  LET t == writer[w]
      row == Written(w)
      rec == [seq |-> seq + 1, op |-> t.op, expected |-> t.expected, ok |-> Conflicts(w) = {}]
  IN /\ t.pc = "locked" /\ RecordedAs(t.op) = {} /\ seq < MaxSeq
     /\ seq' = seq + 1
     /\ writer' = [writer EXCEPT ![w] = [pc |-> "written", row |-> row, rec |-> rec]]
     /\ UNCHANGED <<shared, ops, holder, reader>>

\* The caller commits.
Commit(w) ==
  /\ writer[w].pc = "written"
  /\ shared' = writer[w].row
  /\ ops' = ops \cup {writer[w].rec}
  /\ writer' = [writer EXCEPT ![w] = NoTransaction] /\ holder' = Unset
  /\ UNCHANGED <<seq, reader>>

\* The caller rolls back, or its connection dies: the number is lost.
Abort(w) ==
  /\ writer[w].pc \in {"locked", "written"}
  /\ writer' = [writer EXCEPT ![w] = NoTransaction]
  /\ holder' = IF holder = w THEN Unset ELSE holder
  /\ UNCHANGED <<shared, ops, seq, reader>>

\* sharedStateHistory: the next operations after the cursor, by their numbers.
ReadHistory ==
  LET after == {o \in ops : o.seq > reader.cursor}
      page == {o \in after : Cardinality({p \in after : p.seq <= o.seq}) <= PageSize}
  IN /\ \E last \in page :
          /\ \A o \in page : o.seq <= last.seq
          /\ reader' = [cursor |-> last.seq, read |-> reader.read \cup {o.seq : o \in page}]
     /\ UNCHANGED <<shared, ops, seq, holder, writer>>

Updates == UNION {[S -> 0..(MaxFieldVersion - 1)] : S \in (SUBSET Fields) \ {{}}}

SharedNext ==
  \/ \E w \in Writers :
       \/ \E op \in Operations, expected \in Updates : Lock(w, op, expected)
       \/ RepeatedOperation(w) \/ RecordOperation(w) \/ Commit(w) \/ Abort(w)
  \/ ReadHistory

SharedSpec == SharedInit /\ [][SharedNext]_svars

(* ------------------------------ properties ------------------------------ *)

FieldRec == [version : 0..MaxFieldVersion, value : Operations \cup {Unset}]
SharedRec == [version : Nat, fields : [Fields -> FieldRec]]
OpRec == [seq : Nat, op : Operations, expected : Updates, ok : BOOLEAN]
LockedRec == [pc : {"locked"}, op : Operations, expected : Updates, row : SharedRec]
WrittenRec == [pc : {"written"}, row : SharedRec, rec : OpRec]

SharedTypeOK ==
  /\ shared \in SharedRec /\ seq \in 0..MaxSeq /\ holder \in Writers \cup {Unset}
  /\ ops \subseteq OpRec /\ IsFiniteSet(ops)
  /\ writer \in [Writers -> {NoTransaction} \cup LockedRec \cup WrittenRec]
  /\ reader \in [cursor : Nat, read : SUBSET Nat]

Successful == {o \in ops : o.ok}
Wrote(f) == {o \in Successful : f \in DOMAIN o.expected}
Before(o, S) == {p \in S : p.seq < o.seq}

\* The state is what its successful operations, in the order of their numbers, make of it:
\* none is lost or applied in part, each saw the one before it, and an id is used once.
FieldOfHistory(f) ==
  /\ shared.fields[f].version = Cardinality(Wrote(f))
  /\ \A o \in Wrote(f) : /\ o.expected[f] = Cardinality(Before(o, Wrote(f)))
                        /\ (\A p \in Wrote(f) : p.seq <= o.seq) => shared.fields[f].value = o.op
StateOfHistory ==
  /\ shared.version = Cardinality(Successful)
  /\ \A f \in Fields : FieldOfHistory(f)
OperationsOnce == \A o, p \in ops : o.op = p.op \/ o.seq = p.seq => o = p

\* A reader that follows the numbers has missed no operation behind its cursor.
NothingMissed == \A o \in ops : o.seq <= reader.cursor => o.seq \in reader.read

(* collaboration/state.ts: the state is what its operations make of it,    *)
(* and a reader of their history misses none.                              *)
SharedSafe == SharedTypeOK /\ StateOfHistory /\ OperationsOnce /\ NothingMissed
=============================================================================

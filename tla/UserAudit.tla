------------------------------- MODULE UserAudit -------------------------------
(***************************************************************************)
(* The audited tables of the user_mgmt schema and the functions            *)
(* create_or_update_company, _user, _group and _permission, which have one *)
(* shape: name the acting user in the session setting app.user_id, check   *)
(* that the row exists, UPDATE it or INSERT a new one, take the name back. *)
(* The trigger record_audit writes an audit record with each change, in    *)
(* the same transaction and in the name app.user_id holds.                 *)
(*                                                                         *)
(* The clients share pooled sessions.  In a transaction a client calls the *)
(* functions, or changes rows itself after SET LOCAL app.user_id.  The     *)
(* transactions are READ COMMITTED, with a lock on each row they changed.  *)
(* A cascade is a transaction with several changes.                        *)
(*                                                                         *)
(* Rows are those made since the triggers exist: the system user, which    *)
(* user.sql inserts before it creates them, has no record of its insertion *)
(* and is not among them.                                                  *)
(***************************************************************************)
EXTENDS Naturals, Sequences

CONSTANTS
    Sessions,    \* the sessions of the pool
    Users,       \* who can be named, the fallback user included
    Rows,        \* row ids, those gen_random_uuid is going to return included
    MaxChanges   \* bound on the changes ever made

CONSTANTS NoUser, NoSession   \* app.user_id unset or empty; a row not locked

ASSUME NullAssumption == NoUser \notin Users /\ NoSession \notin Sessions
ASSUME BoundAssumption == MaxChanges \in Nat

VARIABLES
    rows,      \* the committed version of each row, 0 if there is none
    audit,     \* the committed audit records, in the order of the commits
    lock,      \* which session's transaction has changed the row
    draft,     \* and the version it gave it
    made,      \* changes made so far, which number the versions
    pc,        \* where a session is
    target,    \* the row the function works on
    mine,      \* audit records of the transaction
    missed,    \* rows for which a function of the transaction updated nothing
    conf,      \* app.user_id of the session, outside a transaction,
    sess,      \* as it will be if the transaction commits,
    cur,       \* and as current_setting gives it
    named      \* users the client of the transaction has named

tableVars == <<rows, audit>>
changeVars == <<lock, draft, made, mine>>
nameVars == <<conf, sess, cur, named>>
vars == <<tableVars, changeVars, pc, target, missed, nameVars>>

Set(f, s, v) == f' = [f EXCEPT ![s] = v]
Goto(s, from, to) == pc[s] = from /\ Set(pc, s, to)

Init ==
    /\ rows = [r \in Rows |-> 0] /\ audit = <<>>
    /\ lock = [r \in Rows |-> NoSession] /\ draft = [r \in Rows |-> 0] /\ made = 0
    /\ pc = [s \in Sessions |-> "idle"]
    /\ target \in [Sessions -> Rows]
    /\ mine = [s \in Sessions |-> <<>>]
    /\ missed = [s \in Sessions |-> {}]
    /\ conf = [s \in Sessions |-> NoUser] /\ sess = conf /\ cur = conf
    /\ named = [s \in Sessions |-> {}]

-----------------------------------------------------------------------------
(* Transactions.                                                            *)

\* A client takes a session out of the pool.
Begin(s) ==
    /\ Goto(s, "idle", "open")
    /\ UNCHANGED <<tableVars, changeVars, target, missed, nameVars>>

\* Mutant: the locks of a transaction outlive it.
UnlockedLater(s) == lock

Unlocked(s) == [r \in Rows |-> IF lock[r] = s THEN NoSession ELSE lock[r]]

\* The transaction of s is over, and the session goes back to the pool.
Ends(s) ==
    /\ Set(pc, s, "idle")
    /\ lock' = Unlocked(s)
    /\ Set(mine, s, <<>>)
    /\ Set(missed, s, {})
    /\ Set(named, s, {})
    /\ draft' = [r \in Rows |-> IF lock[r] = s THEN 0 ELSE draft[r]]
    /\ UNCHANGED <<made, target>>

Commit(s) ==
    /\ pc[s] = "open"
    /\ Ends(s)
    /\ rows' = [r \in Rows |-> IF lock[r] = s THEN draft[r] ELSE rows[r]]
    /\ audit' = audit \o mine[s]
    /\ Set(conf, s, sess[s]) /\ Set(cur, s, sess[s])
    /\ UNCHANGED sess

\* ROLLBACK, which is all that is left after a failed statement.
Rollback(s) ==
    /\ pc[s] \in {"open", "failed"}
    /\ Ends(s)
    /\ Set(sess, s, conf[s]) /\ Set(cur, s, conf[s])
    /\ UNCHANGED <<tableVars, conf>>

\* The connection is lost, and the pool opens another.
Disconnect(s) ==
    /\ Ends(s)
    /\ Set(conf, s, NoUser) /\ Set(sess, s, NoUser) /\ Set(cur, s, NoUser)
    /\ UNCHANGED tableVars

-----------------------------------------------------------------------------
(* Changes and the trigger.                                                 *)

\* The version a statement of s works on, once no other session has the row.
Free(s, r) == lock[r] \in {NoSession, s}
Seen(s, r) == IF lock[r] = s THEN draft[r] ELSE rows[r]

\* A row id that was never used.
Unused(r) ==
    /\ lock[r] = NoSession /\ rows[r] = 0
    /\ \A i \in 1..Len(audit) : audit[i].row # r

\* Mutant: the triggers are not for DELETE.
ChangeUnlessDelete(s, r, new) ==
    /\ made < MaxChanges
    /\ made' = made + 1
    /\ Set(lock, r, s) /\ Set(draft, r, new)
    /\ Set(mine, s, IF new = 0 THEN mine[s] ELSE Append(mine[s],
           [row |-> r, old |-> Seen(s, r), new |-> new, by |-> cur[s]]))

\* A change of row r, to a new version or to none, and its audit record.
Change(s, r, new) ==
    /\ made < MaxChanges
    /\ made' = made + 1
    /\ Set(lock, r, s) /\ Set(draft, r, new)
    /\ Set(mine, s, Append(mine[s],
           [row |-> r, old |-> Seen(s, r), new |-> new, by |-> cur[s]]))

Write(s, r) == Change(s, r, made + 1)

-----------------------------------------------------------------------------
(* create_or_update_*.                                                      *)

\* set_config('app.user_id', ..., false).
SetConfig(s, u) == Set(sess, s, u) /\ Set(cur, s, u)

\* A call in the name of u, to update row r or to create one.
Call(s, u, r) ==
    /\ \/ Goto(s, "open", "check") /\ Set(target, s, r)
       \/ Goto(s, "open", "insert") /\ UNCHANGED target
    /\ SetConfig(s, u)
    /\ Set(named, s, named[s] \cup {u})
    /\ UNCHANGED <<tableVars, changeVars, missed, conf>>

\* IF NOT EXISTS (SELECT ...): what is committed, or the transaction's own.
Check(s) ==
    /\ Goto(s, "check", IF Seen(s, target[s]) # 0 THEN "update" ELSE "failed")
    /\ UNCHANGED <<tableVars, changeVars, target, missed, nameVars>>

\* Mutant: an upsert.
UpdateOrInsert(s) ==
    /\ Goto(s, "update", "reset")
    /\ Free(s, target[s])
    /\ Write(s, target[s])
    /\ UNCHANGED <<tableVars, target, missed, nameVars>>

\* UPDATE waits for the row lock and then looks at the row again.
Update(s) ==
    /\ Goto(s, "update", "reset")
    /\ Free(s, target[s])
    /\ IF Seen(s, target[s]) # 0
       THEN Write(s, target[s]) /\ UNCHANGED missed
       ELSE Set(missed, s, missed[s] \cup {target[s]}) /\ UNCHANGED changeVars
    /\ UNCHANGED <<tableVars, target, nameVars>>

Insert(s) ==
    /\ Goto(s, "insert", "reset")
    /\ \E r \in Rows : Unused(r) /\ Write(s, r)
    /\ UNCHANGED <<tableVars, target, missed, nameVars>>

\* A constraint is violated, or the wait for a lock is a deadlock.
StatementFails(s) ==
    /\ Goto(s, "update", "failed") \/ Goto(s, "insert", "failed")
    /\ UNCHANGED <<tableVars, changeVars, target, missed, nameVars>>

\* Mutant: the user context is not reset.
ResetNothing(s) ==
    /\ Goto(s, "reset", "open")
    /\ UNCHANGED <<tableVars, changeVars, target, missed, nameVars>>

\* set_config('app.user_id', NULL, false) and RETURN.
Reset(s) ==
    /\ Goto(s, "reset", "open")
    /\ SetConfig(s, NoUser)
    /\ UNCHANGED <<tableVars, changeVars, target, missed, conf, named>>

-----------------------------------------------------------------------------
(* Clients that change rows themselves.                                     *)

\* SET LOCAL app.user_id.
Name(s, u) ==
    /\ pc[s] = "open"
    /\ Set(cur, s, u)
    /\ Set(named, s, named[s] \cup {u})
    /\ UNCHANGED <<tableVars, changeVars, pc, target, missed, conf, sess>>

Direct(s, r) ==
    /\ pc[s] = "open" /\ cur[s] # NoUser
    /\ \/ Unused(r) /\ Write(s, r)
       \/ Free(s, r) /\ Seen(s, r) # 0 /\ Write(s, r)
       \/ Free(s, r) /\ Seen(s, r) # 0 /\ Change(s, r, 0)
    /\ UNCHANGED <<tableVars, pc, target, missed, nameVars>>

\* With no name the cast in record_audit fails, and with it the statement; or
\* a constraint is violated.
DirectFails(s) ==
    /\ Goto(s, "open", "failed")
    /\ UNCHANGED <<tableVars, changeVars, target, missed, nameVars>>

-----------------------------------------------------------------------------
Transaction(s) == Begin(s) \/ Commit(s) \/ Rollback(s) \/ Disconnect(s)
Function(s) ==
    \/ \E u \in Users, r \in Rows : Call(s, u, r)
    \/ Check(s) \/ Update(s) \/ Insert(s) \/ StatementFails(s) \/ Reset(s)
Client(s) ==
    \/ \E u \in Users : Name(s, u)
    \/ \E r \in Rows : Direct(s, r)
    \/ DirectFails(s)

Next == \E s \in Sessions : Transaction(s) \/ Function(s) \/ Client(s)

Spec == Init /\ [][Next]_vars

-----------------------------------------------------------------------------
(* Properties.                                                              *)

Record == [row : Rows, old : Nat, new : Nat, by : Users \cup {NoUser}]

\* Every variable has its type, and who holds a row is in a transaction.
TypeOK ==
    /\ rows \in [Rows -> Nat] /\ audit \in Seq(Record)
    /\ lock \in [Rows -> Sessions \cup {NoSession}] /\ draft \in [Rows -> Nat]
    /\ made \in Nat
    /\ pc \in [Sessions -> {"idle", "open", "check", "update", "insert", "reset", "failed"}]
    /\ target \in [Sessions -> Rows]
    /\ mine \in [Sessions -> Seq(Record)]
    /\ missed \in [Sessions -> SUBSET Rows]
    /\ conf \in [Sessions -> Users \cup {NoUser}]
    /\ sess \in [Sessions -> Users \cup {NoUser}]
    /\ cur \in [Sessions -> Users \cup {NoUser}]
    /\ named \in [Sessions -> SUBSET Users]
    /\ \A r \in Rows : lock[r] # NoSession => pc[lock[r]] # "idle"

\* The version v of row r after the first n of the records, before which it
\* had the version v0.
After(recs, n, r, v0, v) ==
    \/ v = v0 /\ \A i \in 1..n : recs[i].row # r
    \/ \E i \in 1..n : /\ recs[i].row = r /\ recs[i].new = v
                       /\ \A k \in (i + 1)..n : recs[k].row # r

\* Each record goes on from the version its row then had, and together they
\* lead from the versions first to the versions last.
Tells(recs, first, last) ==
    /\ \A j \in 1..Len(recs) :
         After(recs, j - 1, recs[j].row, first[recs[j].row], recs[j].old)
    /\ \A r \in Rows : After(recs, Len(recs), r, first[r], last[r])

\* The committed audit records tell the whole history of each row: the first
\* starts from no row, each goes on from where the one before it ended, and
\* the last one ends with the row as it is.
AuditTellsHistory == Tells(audit, [r \in Rows |-> 0], rows)

\* A change is recorded in a name the client of its transaction gave, as the
\* argument of a function or itself: never in that of a former client of the
\* pooled session, whichever way the former transactions ended.
Attributed == \A s \in Sessions : \A i \in 1..Len(mine[s]) : mine[s][i].by \in named[s]

\* A function that returns the id of an existing row without having updated
\* it has met a DELETE that was committed after its check.
MissedMeansDeleted ==
    \A s \in Sessions : \A r \in missed[s] :
        /\ rows[r] = 0
        /\ \E i \in 1..Len(audit) : audit[i].row = r /\ audit[i].new = 0

\* What was deleted stays deleted, whatever function or client had looked at
\* it before.
DeletedForGood == \A i \in 1..Len(audit) : audit[i].new = 0 => rows[audit[i].row] = 0

\* A committed DELETE prevails over every function whose check it overtook: the
\* row does not come back, and only such a function may return an id in vain.
DeletesPrevail == DeletedForGood /\ MissedMeansDeleted
=============================================================================

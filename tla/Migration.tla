------------------------------ MODULE Migration ------------------------------
(***************************************************************************)
(* Opening the store (internal/store/store.go).  Every command, mailman    *)
(* and server runs the whole migration list, statement by statement and    *)
(* each in a transaction of its own, before its first query; several of    *)
(* them do so at the same time on a database that an older release left.   *)
(* Names are a key and a casing; the release before the canonical names    *)
(* kept one row per spelling.  Processes that have opened the store work   *)
(* on it while others are still half way through the list.                 *)
(***************************************************************************)
EXTENDS Naturals, Sequences, FiniteSets

CONSTANTS
  Procs,      \* processes that open the store
  Keys,       \* agent names up to casing and outer blanks
  Panes,      \* tmux pane ids
  NoPane,     \* pane_id IS NULL
  Legacy,     \* rowids the older release may have used
  MaxRow,     \* bound: the highest rowid a registration may take
  MaxStamp,   \* bound: how many instants updated_at tells apart
  MaxMsg      \* bound: how many messages there are

ASSUME MigrationAssumption ==
  /\ NoPane \notin Panes
  /\ MaxRow \in Nat /\ Legacy \subseteq 1..MaxRow
  /\ MaxStamp \in Nat \ {0}
  /\ MaxMsg \in Nat \ {0}

(* "admin" and "Admin". *)
Names == [key : Keys, casing : {"lower", "title"}]

CanonicalName(n) == [n EXCEPT !.casing = "lower"]

Canonical(n) == n = CanonicalName(n)

Stamps == 1..MaxStamp

Rows == [rowid : 1..MaxRow, name : Names, pane : Panes \cup {NoPane}, at : Stamps]

(* The migration list: column-adds by their column, the others by what    *)
(* they do.  Of the thirty column-adds one before the index and one after  *)
(* it stand for all.                                                       *)
Columns == {"kind", "relaunch_cmd"}

Migrations == <<"kind", "heal panes", "index panes", "relaunch_cmd",
                "collapse", "rename", "route">>

MsgStates == {"queued", "deferred", "delivering", "delivered"}

Messages == [to : Names, state : MsgStates]

VARIABLES
  agents,    \* the agents table: a set of rows
  msgs,      \* the messages table: a sequence of rows
  columns,   \* the columns present
  indexed,   \* idx_agents_pane_id exists
  pc,        \* process -> "closed", the statement it runs next, or "open"
  first,     \* the keys registered when the release changed, and still so
  migrated,  \* some process has opened the store
  broken     \* a statement has failed on the rows it found

tables == <<agents, msgs, columns, indexed>>

vars == <<tables, pc, first, migrated, broken>>

-----------------------------------------------------------------------------
(* What older releases leave behind: one row per spelling, and before the  *)
(* index a pane may be in several.  A message in state delivering belonged *)
(* to a mailman that was stopped for the upgrade.                          *)
DistinctPanes(rows) ==
  \A a, b \in rows : a.pane = b.pane /\ a.pane # NoPane => a.rowid = b.rowid

LegacyTables ==
  UNION {[R -> [name : Names, pane : Panes \cup {NoPane}, at : Stamps]] : R \in SUBSET Legacy}

Init ==
  /\ \E t \in LegacyTables :
       /\ \A r, s \in DOMAIN t : t[r].name = t[s].name => r = s
       /\ agents = {[rowid |-> r, name |-> t[r].name, pane |-> t[r].pane, at |-> t[r].at] :
                      r \in DOMAIN t}
  /\ \/ columns = {} /\ indexed = FALSE
     \/ columns = {"kind"} /\ indexed \in BOOLEAN
     \/ columns = Columns /\ indexed = TRUE
  /\ indexed => DistinctPanes(agents)
  /\ msgs \in {<<>>} \cup {<<m>> : m \in Messages}
  /\ pc = [p \in Procs |-> "closed"]
  /\ first = {a.name.key : a \in agents}
  /\ migrated = FALSE
  /\ broken = FALSE

-----------------------------------------------------------------------------
(* The statements.  Each is given the rows it finds and says what it       *)
(* leaves, or that SQLite refuses it.                                      *)

(* UPDATE agents SET pane_id = NULL: the lowest rowid keeps a shared pane. *)
HealPanes(rows) ==
  {IF \E b \in rows : b.pane = a.pane /\ b.rowid < a.rowid
     THEN [a EXCEPT !.pane = NoPane] ELSE a : a \in rows}

(* Mutations: no tie-break, so equal stamps both stay; equal stamps delete *)
(* each other.                                                             *)
MutNewer(b, a) == b.at > a.at

MutNewerOrEqual(b, a) == b.at >= a.at /\ b.rowid # a.rowid

(* DELETE FROM agents: of the spellings of one name the newest stays. *)
Newer(b, a) == b.at > a.at \/ (b.at = a.at /\ b.rowid > a.rowid)

Collapse(rows) ==
  {a \in rows : ~ \E b \in rows : b.name.key = a.name.key /\ Newer(b, a)}

Rename(rows) == {[a EXCEPT !.name = CanonicalName(@)] : a \in rows}

(* The primary key of agents. *)
DistinctNames(rows) == \A a, b \in rows : a.name = b.name => a.rowid = b.rowid

(* Mutation: staged messages are forgotten. *)
MutRoute(m) == IF m.state = "queued" THEN [m EXCEPT !.to = CanonicalName(@)] ELSE m

(* UPDATE messages SET to_agent, for the rows still pending. *)
Route(m) ==
  IF m.state \in {"queued", "deferred"} THEN [m EXCEPT !.to = CanonicalName(@)] ELSE m

(* A duplicate column is an error that Open swallows. *)
Refused(s) ==
  \/ s = "index panes" /\ ~indexed /\ ~DistinctPanes(agents)
  \/ s = "rename" /\ ~DistinctNames(Rename(agents))

Migrate(s) ==
  /\ agents' = CASE s = "heal panes" -> HealPanes(agents)
                 [] s = "collapse" -> Collapse(agents)
                 [] s = "rename" -> Rename(agents)
                 [] OTHER -> agents
  /\ msgs' = IF s = "route" THEN [i \in DOMAIN msgs |-> Route(msgs[i])] ELSE msgs
  /\ columns' = columns \cup (Columns \cap {s})
  /\ indexed' = (indexed \/ s = "index panes")

(* Open sets the pragmas, applies the schema and enters the list. *)
Open(p) ==
  /\ pc[p] = "closed"
  /\ pc' = [pc EXCEPT ![p] = Migrations[1]]
  /\ UNCHANGED <<tables, first, migrated, broken>>

Position(s) == CHOOSE i \in 1..Len(Migrations) : Migrations[i] = s

After(s) ==
  IF s = Migrations[Len(Migrations)] THEN "open" ELSE Migrations[Position(s) + 1]

(* A statement that SQLite refuses ends Open, and the process with it. *)
Exec(p) ==
  LET s == pc[p]
      next == IF Refused(s) THEN "closed" ELSE After(s)
  IN /\ s \notin {"closed", "open"}
     /\ IF Refused(s) THEN UNCHANGED tables ELSE Migrate(s)
     /\ pc' = [pc EXCEPT ![p] = next]
     /\ migrated' = (migrated \/ next = "open")
     /\ broken' = (broken \/ Refused(s))
     /\ UNCHANGED first

(* The process ends: a command is done, a daemon stops, crashes, or waits  *)
(* for a lock longer than Open allows.                                     *)
Leave(p) ==
  /\ pc[p] # "closed"
  /\ pc' = [pc EXCEPT ![p] = "closed"]
  /\ UNCHANGED <<tables, first, migrated, broken>>

-----------------------------------------------------------------------------
(* What a process that has opened the store does with it. *)

(* UpsertAgent with a pane: clear it elsewhere, then insert or update. *)
NextRowid == Cardinality({r \in 1..MaxRow : \E a \in agents : a.rowid >= r}) + 1

UpsertAgent(n, pane, now) ==
  LET name == CanonicalName(n)
      others == {IF a.pane = pane THEN [a EXCEPT !.pane = NoPane, !.at = now] ELSE a :
                   a \in {b \in agents : b.name # name}}
      mine == {a \in agents : a.name = name}
  IN agents' = others \cup
       (IF mine = {} THEN {[rowid |-> NextRowid, name |-> name, pane |-> pane, at |-> now]}
        ELSE {[a EXCEPT !.pane = pane, !.at = now] : a \in mine})

Register(p, n, pane) ==
  /\ pc[p] = "open"
  /\ NextRowid <= MaxRow
  /\ \E now \in Stamps :
       /\ \A a \in agents : a.at <= now
       /\ UpsertAgent(n, pane, now)
  /\ UNCHANGED <<msgs, columns, indexed, pc, first, migrated, broken>>

DeleteAgent(p, n) ==
  /\ pc[p] = "open"
  /\ \E a \in agents : a.name = CanonicalName(n)
  /\ agents' = {a \in agents : a.name # CanonicalName(n)}
  /\ first' = first \ {n.key}
  /\ UNCHANGED <<msgs, columns, indexed, pc, migrated, broken>>

(* Mutation: the recipient is stored as it was typed. *)
MutSend(p, n, s) ==
  /\ pc[p] = "open"
  /\ Len(msgs) < MaxMsg
  /\ msgs' = Append(msgs, [to |-> n, state |-> s])
  /\ UNCHANGED <<agents, columns, indexed, pc, first, migrated, broken>>

(* InsertMessage: now, or staged. *)
Send(p, n, s) ==
  /\ pc[p] = "open"
  /\ Len(msgs) < MaxMsg
  /\ msgs' = Append(msgs, [to |-> CanonicalName(n), state |-> s])
  /\ UNCHANGED <<agents, columns, indexed, pc, first, migrated, broken>>

Move(n, from, to) ==
  msgs' = [i \in DOMAIN msgs |->
             IF msgs[i].to = CanonicalName(n) /\ msgs[i].state = from
             THEN [msgs[i] EXCEPT !.state = to] ELSE msgs[i]]

(* RecoverDelivering when a mailman starts, PromoteDeferred on a trigger. *)
Recover(p, n) ==
  /\ pc[p] = "open"
  /\ Move(n, "delivering", "queued") \/ Move(n, "deferred", "queued")
  /\ UNCHANGED <<agents, columns, indexed, pc, first, migrated, broken>>

(* ClaimNext, and the mark by public id. *)
Claim(p, n, i) ==
  /\ pc[p] = "open"
  /\ msgs[i].to = CanonicalName(n)
  /\ \/ msgs[i].state = "queued" /\ msgs' = [msgs EXCEPT ![i].state = "delivering"]
     \/ msgs[i].state = "delivering" /\ msgs' = [msgs EXCEPT ![i].state = "delivered"]
  /\ UNCHANGED <<agents, columns, indexed, pc, first, migrated, broken>>

Next ==
  \E p \in Procs :
    \/ Open(p) \/ Exec(p) \/ Leave(p)
    \/ \E n \in Names :
         \/ \E pane \in Panes : Register(p, n, pane)
         \/ DeleteAgent(p, n)
         \/ \E s \in {"queued", "deferred"} : Send(p, n, s)
         \/ Recover(p, n)
         \/ \E i \in DOMAIN msgs : Claim(p, n, i)

Spec == Init /\ [][Next]_vars

-----------------------------------------------------------------------------
(* Properties *)

(* Every variable has its type. *)
MigrationTypeOK ==
  /\ agents \subseteq Rows
  /\ msgs \in Seq(Messages) /\ Len(msgs) <= MaxMsg
  /\ columns \subseteq Columns
  /\ indexed \in BOOLEAN
  /\ pc \in [Procs -> {"closed", "open"} \cup {Migrations[i] : i \in 1..Len(Migrations)}]
  /\ first \subseteq Keys
  /\ migrated \in BOOLEAN
  /\ broken \in BOOLEAN

(* No statement of the list ever fails on the rows it meets, however many  *)
(* processes are in the list and wherever others were stopped in it: the   *)
(* heals run before what would collide (store.go:389, 429).                *)
HealsNeverCollide == ~broken

(* Collapsing spellings never loses an agent: whoever was registered       *)
(* before the upgrade still is, ties of updated_at included.  And from the *)
(* first moment any process may query the store, an agent has one row,     *)
(* under its canonical name, a pane has one owner, and the index and every *)
(* column are there: also while others are still in the list               *)
(* (store.go:429-452).                                                     *)
OneIdentity ==
  /\ \A k \in first : \E a \in agents : a.name.key = k
  /\ migrated =>
       /\ \A a, b \in agents : a.name.key = b.name.key => a = b
       /\ \A a \in agents : Canonical(a.name)
       /\ DistinctPanes(agents)
       /\ indexed /\ columns = Columns

(* A pending message is never left under a spelling no mailman asks for. *)
NothingPendingStranded ==
  migrated => \A i \in DOMAIN msgs :
                msgs[i].state \in {"queued", "deferred"} => Canonical(msgs[i].to)

(* Once the store is in use the list changes nothing: a process that opens *)
(* it, or is still half way, never rewrites what the others registered and *)
(* sent ("each must be safe to re-run").                                   *)
ReopenIsInert == [][migrated /\ pc' # pc => UNCHANGED tables]_vars
=============================================================================

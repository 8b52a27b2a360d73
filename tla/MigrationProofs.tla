--------------------------- MODULE MigrationProofs ---------------------------
(***************************************************************************)
(* Opening the store, for any number of processes, names, panes and rows:  *)
(* no statement of the list fails, no agent is lost, and once one process  *)
(* has opened the store the list is inert and the tables are canonical.    *)
(***************************************************************************)
EXTENDS Migration, FiniteSetTheorems, WellFoundedInduction, TLAPS

USE DEF tables

(* rowid is a key of the agents table. *)
RowidIsKey(rows) == \A x, y \in rows : x.rowid = y.rowid => x = y

OneRowPerKey(rows) == \A x, y \in rows : x.name.key = y.name.key => x = y

AllCanonical(rows) == \A x \in rows : Canonical(x.name)

PendingRouted(ms) ==
  \A i \in DOMAIN ms : ms[i].state \in {"queued", "deferred"} => Canonical(ms[i].to)

(* The statements left to a process that has executed s. *)
Past(s) ==
  CASE s = "kind"         -> {"heal panes", "index panes", "relaunch_cmd", "collapse", "rename",
                              "route", "open"}
    [] s = "heal panes"   -> {"index panes", "relaunch_cmd", "collapse", "rename", "route", "open"}
    [] s = "index panes"  -> {"relaunch_cmd", "collapse", "rename", "route", "open"}
    [] s = "relaunch_cmd" -> {"collapse", "rename", "route", "open"}
    [] s = "collapse"     -> {"rename", "route", "open"}
    [] s = "rename"       -> {"route", "open"}
    [] s = "route"        -> {"open"}

(* Some process has executed s, and what s establishes has to hold. *)
Ran(s) == migrated \/ \E p \in Procs : pc[p] \in Past(s)

KeysKept == \A k \in first : \E x \in agents : x.name.key = k

Healed ==
  /\ Ran("kind") => "kind" \in columns
  /\ Ran("heal panes") \/ indexed => DistinctPanes(agents)
  /\ Ran("index panes") => indexed
  /\ Ran("relaunch_cmd") => "relaunch_cmd" \in columns
  /\ Ran("collapse") => OneRowPerKey(agents)
  /\ Ran("rename") => AllCanonical(agents)
  /\ Ran("route") => PendingRouted(msgs)

MigrationInv ==
  /\ MigrationTypeOK
  /\ RowidIsKey(agents)
  /\ KeysKept
  /\ Healed
  /\ \A p \in Procs : pc[p] = "open" => migrated
  /\ ~broken

-----------------------------------------------------------------------------
(* The statements, on the rows they are given *)

(* A non-empty set of numbers has a least one. *)
LEMMA LeastNumber ==
  ASSUME NEW S \in SUBSET Nat, S # {}
  PROVE  \E m \in S : \A k \in S : m <= k
<1> DEFINE R == {ss \in Nat \X Nat : ss[1] < ss[2]}
<1>1. IsWellFoundedOn(R, Nat)
  BY NatLessThanWellFounded DEF OpToRel
<1>2. PICK m \in S : \A k \in S : ~ (<<k, m>> \in R)
  <2> HIDE DEF R
  <2> QED
    BY <1>1, WFMin
<1>3. \A k \in S : ~(k < m)
  BY <1>2
<1> QED
  BY <1>3

(* A non-empty bounded set of numbers has a greatest one. *)
LEMMA GreatestNumber ==
  ASSUME NEW B \in Nat, NEW S \in SUBSET (0..B), S # {}
  PROVE  \E m \in S : \A k \in S : k <= m
<1> DEFINE T == {B - k : k \in S}
<1>1. T \in SUBSET Nat /\ T # {}
  <2>1. \A k \in S : B - k \in Nat
    OBVIOUS
  <2> QED
    BY <2>1
<1>2. PICK t \in T : \A u \in T : t <= u
  BY <1>1, LeastNumber
<1>3. PICK m \in S : t = B - m
  BY <1>2
<1>4. \A k \in S : k <= m
  <2> SUFFICES ASSUME NEW k \in S PROVE k <= m
    OBVIOUS
  <2>1. B - k \in T
    OBVIOUS
  <2>2. t <= B - k
    BY <1>2, <2>1
  <2> QED
    BY <1>3, <2>2
<1> QED
  BY <1>3, <1>4

(* Of the spellings of a name the collapse keeps one, whatever the stamps: *)
(* the newest stamp and among those the highest rowid is never deleted.    *)
LEMMA CollapseKeepsOne ==
  ASSUME NEW rows \in SUBSET Rows, NEW x \in rows
  PROVE  \E y \in Collapse(rows) : y.name.key = x.name.key
<1> DEFINE same == {y \in rows : y.name.key = x.name.key}
           stamps == {y.at : y \in same}
<1>1. \A y \in rows : y.at \in 0..MaxStamp /\ y.rowid \in 0..MaxRow
  BY MigrationAssumption DEF Rows, Stamps
<1>2. PICK t \in stamps : \A u \in stamps : u <= t
  <2>1. stamps \in SUBSET (0..MaxStamp) /\ stamps # {}
    BY <1>1
  <2> HIDE DEF stamps
  <2> QED
    BY <2>1, MigrationAssumption, GreatestNumber
<1> DEFINE newest == {y \in same : y.at = t}
           rowids == {y.rowid : y \in newest}
<1>3. PICK r \in rowids : \A u \in rowids : u <= r
  <2>1. rowids \in SUBSET (0..MaxRow) /\ rowids # {}
    BY <1>1, <1>2
  <2> HIDE DEF rowids
  <2> QED
    BY <2>1, MigrationAssumption, GreatestNumber
<1>4. PICK y \in newest : y.rowid = r
  BY <1>3
<1>5. \A z \in same : ~Newer(z, y)
  <2> SUFFICES ASSUME NEW z \in same PROVE ~Newer(z, y)
    OBVIOUS
  <2>1. z.at <= y.at
    BY <1>2, <1>4
  <2>2. z.at = y.at => z.rowid <= y.rowid
    BY <1>3, <1>4
  <2> QED
    BY <1>1, <1>4, <2>1, <2>2 DEF Newer
<1>6. y \in Collapse(rows)
  BY <1>4, <1>5 DEF Collapse
<1> QED
  BY <1>4, <1>6

LEMMA CollapseRows ==
  ASSUME NEW rows \in SUBSET Rows, RowidIsKey(rows)
  PROVE  /\ Collapse(rows) \subseteq rows
         /\ OneRowPerKey(Collapse(rows))
         /\ OneRowPerKey(rows) => Collapse(rows) = rows
<1>1. \A x \in rows : x.at \in Nat /\ x.rowid \in Nat
  BY MigrationAssumption DEF Rows, Stamps
<1>2. Collapse(rows) \subseteq rows
  BY DEF Collapse
<1>3. OneRowPerKey(Collapse(rows))
  <2> SUFFICES ASSUME NEW x \in Collapse(rows), NEW y \in Collapse(rows), x.name.key = y.name.key
               PROVE  x = y
    BY DEF OneRowPerKey
  <2>1. x \in rows /\ y \in rows /\ ~Newer(x, y) /\ ~Newer(y, x)
    BY DEF Collapse
  <2>2. x.rowid = y.rowid
    BY <1>1, <2>1 DEF Newer
  <2> QED
    BY <2>1, <2>2 DEF RowidIsKey
<1>4. ASSUME OneRowPerKey(rows), NEW x \in rows
      PROVE  x \in Collapse(rows)
  <2>1. ~Newer(x, x)
    BY <1>1 DEF Newer
  <2> QED
    BY <1>4, <2>1 DEF OneRowPerKey, Collapse
<1> QED
  BY <1>2, <1>3, <1>4

(* What HealPanes makes of a row. *)
HealRow(rows, x) ==
  IF \E y \in rows : y.pane = x.pane /\ y.rowid < x.rowid THEN [x EXCEPT !.pane = NoPane] ELSE x

LEMMA HealPanesRows ==
  ASSUME NEW rows \in SUBSET Rows, RowidIsKey(rows)
  PROVE  /\ HealPanes(rows) \subseteq Rows
         /\ RowidIsKey(HealPanes(rows))
         /\ DistinctPanes(HealPanes(rows))
         /\ OneRowPerKey(rows) => OneRowPerKey(HealPanes(rows))
         /\ AllCanonical(rows) => AllCanonical(HealPanes(rows))
         /\ \A x \in rows : \E y \in HealPanes(rows) : y.name.key = x.name.key
         /\ DistinctPanes(rows) => HealPanes(rows) = rows
<1>1. HealPanes(rows) = {HealRow(rows, x) : x \in rows}
  BY DEF HealPanes, HealRow
<1>2. \A x \in rows : /\ HealRow(rows, x) \in Rows
                      /\ HealRow(rows, x).rowid = x.rowid /\ HealRow(rows, x).name = x.name
                      /\ HealRow(rows, x).pane \in {x.pane, NoPane}
  BY DEF HealRow, Rows
<1>3. \A x \in rows : x.rowid \in Nat
  BY DEF Rows
<1>4. DistinctPanes(HealPanes(rows))
  <2> SUFFICES ASSUME NEW x \in rows, NEW y \in rows,
                      HealRow(rows, x).pane = HealRow(rows, y).pane, HealRow(rows, x).pane # NoPane
               PROVE  x.rowid = y.rowid
    BY <1>1, <1>2 DEF DistinctPanes
  <2>1. x.pane = y.pane /\ ~(y.rowid < x.rowid) /\ ~(x.rowid < y.rowid)
    BY <1>2 DEF HealRow, Rows
  <2> QED
    BY <1>3, <2>1
<1>5. ASSUME DistinctPanes(rows), NEW x \in rows
      PROVE  HealRow(rows, x) = x
  <2>1. CASE x.pane = NoPane
    BY <2>1 DEF HealRow, Rows
  <2>2. CASE x.pane # NoPane
    BY <1>3, <1>5, <2>2 DEF HealRow, DistinctPanes
  <2> QED
    BY <2>1, <2>2
<1> HIDE DEF HealRow
<1>6. HealPanes(rows) \subseteq Rows
  BY <1>1, <1>2
<1>7. RowidIsKey(HealPanes(rows))
  BY <1>1, <1>2 DEF RowidIsKey
<1>8. OneRowPerKey(rows) => OneRowPerKey(HealPanes(rows))
  BY <1>1, <1>2 DEF OneRowPerKey
<1>9. AllCanonical(rows) => AllCanonical(HealPanes(rows))
  BY <1>1, <1>2 DEF AllCanonical
<1>10. \A x \in rows : \E y \in HealPanes(rows) : y.name.key = x.name.key
  BY <1>1, <1>2
<1>11. DistinctPanes(rows) => HealPanes(rows) = rows
  BY <1>1, <1>5
<1> QED
  BY <1>4, <1>6, <1>7, <1>8, <1>9, <1>10, <1>11

LEMMA CanonicalNameFacts ==
  ASSUME NEW n \in Names
  PROVE  /\ CanonicalName(n) \in Names /\ CanonicalName(n).key = n.key
         /\ Canonical(CanonicalName(n))
BY DEF Names, CanonicalName, Canonical

(* What Rename makes of a row. *)
RenameRow(x) == [x EXCEPT !.name = CanonicalName(@)]

LEMMA RenameRows ==
  ASSUME NEW rows \in SUBSET Rows, RowidIsKey(rows)
  PROVE  /\ Rename(rows) \subseteq Rows
         /\ RowidIsKey(Rename(rows))
         /\ AllCanonical(Rename(rows))
         /\ DistinctPanes(rows) => DistinctPanes(Rename(rows))
         /\ OneRowPerKey(rows) => OneRowPerKey(Rename(rows)) /\ DistinctNames(Rename(rows))
         /\ \A x \in rows : \E y \in Rename(rows) : y.name.key = x.name.key
         /\ AllCanonical(rows) => Rename(rows) = rows
<1>1. Rename(rows) = {RenameRow(x) : x \in rows}
  BY DEF Rename, RenameRow
<1>2. \A x \in rows : /\ RenameRow(x) \in Rows
                      /\ RenameRow(x).rowid = x.rowid /\ RenameRow(x).pane = x.pane
                      /\ RenameRow(x).name = CanonicalName(x.name)
  <2> SUFFICES ASSUME NEW x \in rows
               PROVE  /\ RenameRow(x) \in Rows
                      /\ RenameRow(x).rowid = x.rowid /\ RenameRow(x).pane = x.pane
                      /\ RenameRow(x).name = CanonicalName(x.name)
    OBVIOUS
  <2>1. CanonicalName(x.name) \in Names
    BY CanonicalNameFacts DEF Rows
  <2> QED
    BY <2>1 DEF RenameRow, Rows
<1>3. \A x \in rows : x.name \in Names
  BY DEF Rows
<1>4. \A x \in rows : RenameRow(x).name.key = x.name.key /\ Canonical(RenameRow(x).name)
  BY <1>2, <1>3, CanonicalNameFacts
<1>5. ASSUME AllCanonical(rows), NEW x \in rows
      PROVE  RenameRow(x) = x
  BY <1>5 DEF RenameRow, AllCanonical, Canonical, Rows
<1>6. Rename(rows) \subseteq Rows
  BY <1>1, <1>2
<1>7. RowidIsKey(Rename(rows))
  BY <1>1, <1>2 DEF RowidIsKey
<1>8. AllCanonical(Rename(rows))
  BY <1>1, <1>4 DEF AllCanonical
<1>9. DistinctPanes(rows) => DistinctPanes(Rename(rows))
  BY <1>1, <1>2 DEF DistinctPanes
<1>10. OneRowPerKey(rows) => OneRowPerKey(Rename(rows)) /\ DistinctNames(Rename(rows))
  BY <1>1, <1>4 DEF OneRowPerKey, DistinctNames
<1>11. \A x \in rows : \E y \in Rename(rows) : y.name.key = x.name.key
  BY <1>1, <1>4
<1>12. AllCanonical(rows) => Rename(rows) = rows
  BY <1>1, <1>5
<1> QED
  BY <1>6, <1>7, <1>8, <1>9, <1>10, <1>11, <1>12

-----------------------------------------------------------------------------
(* The list *)

Statements == {"kind", "heal panes", "index panes", "relaunch_cmd", "collapse", "rename", "route"}

LEMMA ListValues ==
  /\ Len(Migrations) = 7
  /\ Migrations[1] = "kind" /\ Migrations[2] = "heal panes" /\ Migrations[3] = "index panes"
  /\ Migrations[4] = "relaunch_cmd" /\ Migrations[5] = "collapse"
  /\ Migrations[6] = "rename" /\ Migrations[7] = "route"
BY DEF Migrations

LEMMA StatementNames == {Migrations[i] : i \in 1..Len(Migrations)} = Statements
<1>1. 1..7 = {1, 2, 3, 4, 5, 6, 7}
  OBVIOUS
<1>2. {Migrations[i] : i \in 1..7} = {Migrations[i] : i \in {1, 2, 3, 4, 5, 6, 7}}
  BY <1>1
<1>3. {Migrations[i] : i \in {1, 2, 3, 4, 5, 6, 7}} = Statements
  BY ListValues DEF Statements
<1> QED
  BY <1>2, <1>3, ListValues

(* The order of the statements. *)
LEMMA AfterValues ==
  /\ After("kind") = "heal panes"
  /\ After("heal panes") = "index panes"
  /\ After("index panes") = "relaunch_cmd"
  /\ After("relaunch_cmd") = "collapse"
  /\ After("collapse") = "rename"
  /\ After("rename") = "route"
  /\ After("route") = "open"
<1>1. 1..7 = {1, 2, 3, 4, 5, 6, 7}
  OBVIOUS
<1>2. /\ Position("kind") = 1 /\ Position("heal panes") = 2 /\ Position("index panes") = 3
      /\ Position("relaunch_cmd") = 4 /\ Position("collapse") = 5 /\ Position("rename") = 6
  BY <1>1, ListValues DEF Position
<1>3. 1 + 1 = 2 /\ 2 + 1 = 3 /\ 3 + 1 = 4 /\ 4 + 1 = 5 /\ 5 + 1 = 6 /\ 6 + 1 = 7
  OBVIOUS
<1>4. Migrations[Len(Migrations)] = "route"
  BY ListValues
<1> HIDE DEF Position
<1>5. After("route") = "open"
  BY <1>4 DEF After
<1>6. \A s \in Statements \ {"route"} : After(s) = Migrations[Position(s) + 1]
  BY <1>4 DEF After
<1> QED
  BY <1>2, <1>3, <1>5, <1>6, ListValues DEF Statements

(* A process that has executed one more statement has passed that one. *)
LEMMA PassedOneMore ==
  ASSUME NEW s \in Statements, NEW t \in Statements, After(s) \in Past(t)
  PROVE  s \in Past(t) \/ s = t
BY AfterValues DEF Statements, Past

LEMMA MigrateRows ==
  ASSUME agents \subseteq Rows, RowidIsKey(agents), NEW s \in Statements, Migrate(s)
  PROVE  /\ agents' \subseteq Rows /\ RowidIsKey(agents')
         /\ DistinctPanes(agents) \/ s = "heal panes" => DistinctPanes(agents')
         /\ OneRowPerKey(agents) \/ s = "collapse" => OneRowPerKey(agents')
         /\ AllCanonical(agents) \/ s = "rename" => AllCanonical(agents')
         /\ \A x \in agents : \E y \in agents' : y.name.key = x.name.key
<1>1. CASE s = "heal panes"
  <2>1. agents' = HealPanes(agents)
    BY <1>1 DEF Migrate
  <2> QED
    BY <1>1, <2>1, HealPanesRows
<1>2. CASE s = "collapse"
  <2>1. agents' = Collapse(agents)
    BY <1>2 DEF Migrate
  <2>2. agents' \subseteq agents /\ OneRowPerKey(agents')
    BY <2>1, CollapseRows
  <2>3. \A x \in agents : \E y \in agents' : y.name.key = x.name.key
    BY <2>1, CollapseKeepsOne
  <2>4. RowidIsKey(agents') /\ (DistinctPanes(agents) => DistinctPanes(agents'))
    BY <2>2 DEF RowidIsKey, DistinctPanes
  <2>5. AllCanonical(agents) => AllCanonical(agents')
    BY <2>2 DEF AllCanonical
  <2> QED
    BY <1>2, <2>2, <2>3, <2>4, <2>5
<1>3. CASE s = "rename"
  <2>1. agents' = Rename(agents)
    BY <1>3 DEF Migrate
  <2> QED
    BY <1>3, <2>1, RenameRows
<1>4. CASE s \notin {"heal panes", "collapse", "rename"}
  <2>1. agents' = agents
    BY <1>4 DEF Migrate
  <2> QED
    BY <1>4, <2>1
<1> QED
  BY <1>1, <1>2, <1>3, <1>4

LEMMA RouteFacts ==
  ASSUME NEW m \in Messages
  PROVE  /\ Route(m) \in Messages /\ Route(m).state = m.state
         /\ m.state \in {"queued", "deferred"} => Canonical(Route(m).to)
         /\ (m.state \in {"queued", "deferred"} => Canonical(m.to)) => Route(m) = m
<1>1. m.to \in Names
  BY DEF Messages
<1>2. CanonicalName(m.to) \in Names /\ Canonical(CanonicalName(m.to))
  BY <1>1, CanonicalNameFacts
<1>3. Canonical(m.to) <=> m.to = CanonicalName(m.to)
  BY DEF Canonical
<1> HIDE DEF Canonical
<1> QED
  BY <1>2, <1>3 DEF Route, Messages

LEMMA MigrateMessages ==
  ASSUME msgs \in Seq(Messages), NEW s \in Statements, Migrate(s)
  PROVE  /\ msgs' \in Seq(Messages) /\ Len(msgs') = Len(msgs)
         /\ PendingRouted(msgs) \/ s = "route" => PendingRouted(msgs')
         /\ PendingRouted(msgs) => msgs' = msgs
<1>1. CASE s = "route"
  <2>1. msgs' = [i \in DOMAIN msgs |-> Route(msgs[i])]
    BY <1>1 DEF Migrate
  <2>2. \A i \in DOMAIN msgs : msgs[i] \in Messages
    OBVIOUS
  <2>3. \A i \in DOMAIN msgs : Route(msgs[i]) \in Messages
    BY <2>2, RouteFacts
  <2>4. msgs' \in Seq(Messages) /\ Len(msgs') = Len(msgs) /\ DOMAIN msgs' = DOMAIN msgs
    BY <2>1, <2>3
  <2>5. PendingRouted(msgs')
    BY <2>1, <2>2, <2>4, RouteFacts DEF PendingRouted
  <2>6. ASSUME PendingRouted(msgs) PROVE msgs' = msgs
    <3>1. \A i \in DOMAIN msgs : Route(msgs[i]) = msgs[i]
      BY <2>2, <2>6, RouteFacts DEF PendingRouted
    <3> QED
      BY <2>1, <3>1
  <2> QED
    BY <2>4, <2>5, <2>6
<1>2. CASE s # "route"
  BY <1>2 DEF Migrate
<1> QED
  BY <1>1, <1>2

(* A registration takes a rowid above all others. *)
LEMMA FreshRowid ==
  ASSUME agents \subseteq Rows
  PROVE  NextRowid \in Nat \ {0} /\ \A x \in agents : x.rowid < NextRowid
<1> DEFINE taken == {r \in 1..MaxRow : \E x \in agents : x.rowid >= r}
<1>1. IsFiniteSet(taken)
  <2>1. IsFiniteSet(1..MaxRow)
    BY MigrationAssumption, FS_Interval
  <2>2. taken \in SUBSET (1..MaxRow)
    OBVIOUS
  <2> QED
    BY <2>1, <2>2, FS_Subset
<1>2. NextRowid = Cardinality(taken) + 1 /\ Cardinality(taken) \in Nat
  BY <1>1, FS_CardinalityType DEF NextRowid
<1>3. ASSUME NEW x \in agents
      PROVE  x.rowid <= Cardinality(taken)
  <2>1. x.rowid \in 1..MaxRow
    BY DEF Rows
  <2>2. 1..x.rowid \subseteq taken
    BY <2>1, MigrationAssumption
  <2>3. Cardinality(1..x.rowid) = x.rowid
    BY <2>1, MigrationAssumption, FS_Interval
  <2>4. Cardinality(1..x.rowid) <= Cardinality(taken)
    BY <1>1, <2>2, FS_Subset
  <2> QED
    BY <2>3, <2>4
<1> HIDE DEF taken
<1>4. \A x \in agents : x.rowid \in Nat
  BY DEF Rows
<1> QED
  BY <1>2, <1>3, <1>4

-----------------------------------------------------------------------------
(* The steps *)

(* A process in the list never meets rows that its statement would refuse. *)
LEMMA StatementAccepted ==
  ASSUME MigrationInv, NEW p \in Procs, pc[p] \in Statements
  PROVE  ~Refused(pc[p])
<1>1. CASE pc[p] = "index panes"
  <2>1. Ran("heal panes")
    BY <1>1 DEF Ran, Past
  <2> QED
    BY <1>1, <2>1 DEF MigrationInv, Healed, Refused
<1>2. CASE pc[p] = "rename"
  <2>1. Ran("collapse")
    BY <1>2 DEF Ran, Past
  <2>2. OneRowPerKey(agents)
    BY <2>1 DEF MigrationInv, Healed
  <2>3. DistinctNames(Rename(agents))
    BY <2>2, RenameRows DEF MigrationInv, MigrationTypeOK
  <2> QED
    BY <1>2, <2>3 DEF Refused
<1> QED
  BY <1>1, <1>2 DEF Refused

(* What Exec does, given that the statement is accepted. *)
LEMMA ExecEffect ==
  ASSUME MigrationInv, NEW p \in Procs, Exec(p)
  PROVE  /\ pc[p] \in Statements /\ Migrate(pc[p])
         /\ pc' = [pc EXCEPT ![p] = After(pc[p])]
         /\ migrated' = (migrated \/ After(pc[p]) = "open")
         /\ broken' = broken /\ first' = first
<1>1. pc[p] \in Statements
  BY StatementNames DEF MigrationInv, MigrationTypeOK, Exec
<1>2. ~Refused(pc[p])
  BY <1>1, StatementAccepted
<1>3. broken' = broken
  BY <1>2, Zenon DEF Exec, MigrationInv, MigrationTypeOK
<1> QED
  BY <1>1, <1>2, <1>3, Zenon DEF Exec

(* A statement has been executed only if it had been before, or by this    *)
(* step.                                                                   *)
LEMMA RanStep ==
  ASSUME MigrationInv, NEW p \in Procs, Exec(p), NEW s \in Statements, Ran(s)'
  PROVE  Ran(s) \/ pc[p] = s
<1>1. /\ pc[p] \in Statements /\ pc' = [pc EXCEPT ![p] = After(pc[p])]
      /\ migrated' = (migrated \/ After(pc[p]) = "open")
  BY ExecEffect
<1>2. "open" \in Past(s)
  BY DEF Statements, Past
<1>3. migrated \/ After(pc[p]) \in Past(s) \/ \E q \in Procs : pc[q] \in Past(s)
  BY <1>1, <1>2 DEF Ran, MigrationInv, MigrationTypeOK
<1> QED
  BY <1>1, <1>3, PassedOneMore DEF Ran

LEMMA ExecStep ==
  ASSUME MigrationInv, NEW p \in Procs, Exec(p)
  PROVE  MigrationInv'
<1> DEFINE s == pc[p]
<1>1. /\ s \in Statements /\ Migrate(s)
      /\ pc' = [pc EXCEPT ![p] = After(s)]
      /\ migrated' = (migrated \/ After(s) = "open")
      /\ broken' = broken /\ first' = first
  BY ExecEffect
<1>2. /\ agents \subseteq Rows /\ RowidIsKey(agents) /\ KeysKept /\ Healed /\ ~broken
      /\ msgs \in Seq(Messages) /\ Len(msgs) <= MaxMsg
      /\ columns \subseteq Columns /\ indexed \in BOOLEAN /\ first \subseteq Keys
      /\ pc \in [Procs -> {"closed", "open"} \cup Statements]
      /\ \A q \in Procs : pc[q] = "open" => migrated
  BY StatementNames DEF MigrationInv, MigrationTypeOK
<1>3. /\ agents' \subseteq Rows /\ RowidIsKey(agents')
      /\ DistinctPanes(agents) \/ s = "heal panes" => DistinctPanes(agents')
      /\ OneRowPerKey(agents) \/ s = "collapse" => OneRowPerKey(agents')
      /\ AllCanonical(agents) \/ s = "rename" => AllCanonical(agents')
      /\ \A x \in agents : \E y \in agents' : y.name.key = x.name.key
  BY <1>1, <1>2, MigrateRows
<1>4. /\ msgs' \in Seq(Messages) /\ Len(msgs') = Len(msgs)
      /\ PendingRouted(msgs) \/ s = "route" => PendingRouted(msgs')
  BY <1>1, <1>2, MigrateMessages
<1>5. /\ columns' = columns \cup (Columns \cap {s})
      /\ indexed' = (indexed \/ s = "index panes")
  BY <1>1 DEF Migrate
<1>6. \A t \in Statements : Ran(t)' => Ran(t) \/ s = t
  BY RanStep
<1>7. After(s) \in {"closed", "open"} \cup Statements
  BY <1>1, AfterValues DEF Statements
<1>8. MigrationTypeOK'
  <2>1. pc' \in [Procs -> {"closed", "open"} \cup Statements]
    BY <1>1, <1>2, <1>7
  <2>2. migrated' \in BOOLEAN /\ broken' \in BOOLEAN /\ indexed' \in BOOLEAN
    BY <1>1, <1>2, <1>5, Zenon DEF MigrationInv, MigrationTypeOK
  <2>3. columns' \subseteq Columns /\ first' \subseteq Keys
    BY <1>1, <1>2, <1>5
  <2>4. Len(msgs') <= MaxMsg
    BY <1>2, <1>4
  <2> QED
    BY <1>3, <1>4, <2>1, <2>2, <2>3, <2>4, StatementNames DEF MigrationTypeOK
<1>9. KeysKept'
  BY <1>1, <1>2, <1>3 DEF KeysKept
<1>10. Healed'
  <2>1. (Ran("kind") => "kind" \in columns)' /\ (Ran("relaunch_cmd") => "relaunch_cmd" \in columns)'
    BY <1>2, <1>5, <1>6 DEF Healed, Statements, Columns
  <2>2. (Ran("index panes") => indexed)'
    BY <1>2, <1>5, <1>6 DEF Healed, Statements
  <2>3. (Ran("heal panes") \/ indexed => DistinctPanes(agents))'
    <3>1. s = "index panes" => Ran("heal panes")
      BY DEF Ran, Past
    <3> QED
      BY <1>2, <1>3, <1>5, <1>6, <3>1 DEF Healed, Statements
  <2>4. (Ran("collapse") => OneRowPerKey(agents))' /\ (Ran("rename") => AllCanonical(agents))'
    BY <1>2, <1>3, <1>6 DEF Healed, Statements
  <2>5. (Ran("route") => PendingRouted(msgs))'
    BY <1>2, <1>4, <1>6 DEF Healed, Statements
  <2> QED
    BY <2>1, <2>2, <2>3, <2>4, <2>5 DEF Healed
<1>11. \A q \in Procs : pc'[q] = "open" => migrated'
  BY <1>1, <1>2
<1> QED
  BY <1>1, <1>2, <1>3, <1>8, <1>9, <1>10, <1>11 DEF MigrationInv

(* Entering the list and leaving it: no statement is passed by it. *)
LEMMA OpenLeaveStep ==
  ASSUME MigrationInv, NEW p \in Procs, Open(p) \/ Leave(p)
  PROVE  MigrationInv'
<1>1. /\ \E s \in {"closed", "kind"} : pc' = [pc EXCEPT ![p] = s]
      /\ UNCHANGED <<tables, first, migrated, broken>>
  BY ListValues DEF Open, Leave
<1>2. /\ pc \in [Procs -> {"closed", "open"} \cup Statements]
      /\ \A q \in Procs : pc[q] = "open" => migrated
  BY StatementNames DEF MigrationInv, MigrationTypeOK
<1>3. pc' \in [Procs -> {"closed", "open"} \cup Statements]
  BY <1>1, <1>2 DEF Statements
<1>4. \A t \in Statements : Ran(t)' => Ran(t)
  BY <1>1, <1>2 DEF Ran, Past, Statements
<1>5. Healed'
  BY <1>1, <1>4 DEF MigrationInv, Healed, Statements
<1>6. \A q \in Procs : pc'[q] = "open" => migrated'
  BY <1>1, <1>2
<1>7. MigrationTypeOK'
  BY <1>1, <1>3, StatementNames DEF MigrationInv, MigrationTypeOK
<1> QED
  BY <1>1, <1>5, <1>6, <1>7 DEF MigrationInv, KeysKept

(* The tables of a store in use. *)
InOrder ==
  /\ DistinctPanes(agents) /\ OneRowPerKey(agents) /\ AllCanonical(agents)
  /\ PendingRouted(msgs)

LEMMA InUse ==
  ASSUME MigrationInv, migrated
  PROVE  InOrder /\ indexed /\ columns = Columns
<1>1. \A s \in Statements : Ran(s)
  BY DEF Ran
<1> QED
  BY <1>1 DEF MigrationInv, MigrationTypeOK, Healed, InOrder, Statements, Columns

(* What is enough for an operation on a store in use. *)
LEMMA UseStep ==
  ASSUME MigrationInv, migrated, UNCHANGED <<columns, indexed, pc, migrated, broken>>,
         agents' \subseteq Rows, msgs' \in Seq(Messages), Len(msgs') <= MaxMsg,
         first' \subseteq Keys, RowidIsKey(agents'), KeysKept', InOrder'
  PROVE  MigrationInv'
<1>1. indexed /\ columns = Columns
  BY InUse
<1>2. MigrationTypeOK'
  BY DEF MigrationInv, MigrationTypeOK
<1>3. Healed'
  BY <1>1 DEF Healed, InOrder, Columns
<1> QED
  BY <1>2, <1>3 DEF MigrationInv

LEMMA RegisterStep ==
  ASSUME MigrationInv, NEW p \in Procs, NEW n \in Names, NEW pane \in Panes, Register(p, n, pane)
  PROVE  MigrationInv'
<1>1. /\ pc[p] = "open" /\ migrated
      /\ UNCHANGED <<msgs, columns, indexed, pc, first, migrated, broken>>
      /\ agents \subseteq Rows /\ RowidIsKey(agents) /\ KeysKept
      /\ msgs \in Seq(Messages) /\ Len(msgs) <= MaxMsg /\ first \subseteq Keys
  BY DEF MigrationInv, MigrationTypeOK, Register
<1>2. InOrder
  BY <1>1, InUse
<1>3. PICK now \in Stamps : UpsertAgent(n, pane, now)
  BY DEF Register
<1> DEFINE name == CanonicalName(n)
           Cleared(x) == IF x.pane = pane THEN [x EXCEPT !.pane = NoPane, !.at = now] ELSE x
           Moved(x) == [x EXCEPT !.pane = pane, !.at = now]
           fresh == [rowid |-> NextRowid, name |-> name, pane |-> pane, at |-> now]
           others == {x \in agents : x.name # name}
           mine == {x \in agents : x.name = name}
<1>4. agents' = {Cleared(x) : x \in others} \cup
                  (IF mine = {} THEN {fresh} ELSE {Moved(x) : x \in mine})
  BY <1>3 DEF UpsertAgent
<1>5. name \in Names /\ Canonical(name) /\ name.key = n.key
  BY CanonicalNameFacts
<1>6. /\ \A x \in agents : x.rowid < NextRowid
      /\ NextRowid \in 1..MaxRow
  BY <1>1, FreshRowid, MigrationAssumption DEF Register
<1>7. \A x \in others : /\ Cleared(x) \in Rows
                        /\ Cleared(x).rowid = x.rowid /\ Cleared(x).name = x.name
                        /\ Cleared(x).pane # pane
                        /\ Cleared(x).pane \in {x.pane, NoPane}
  BY <1>1, MigrationAssumption DEF Rows
<1>8. \A x \in mine : /\ Moved(x) \in Rows
                      /\ Moved(x).rowid = x.rowid /\ Moved(x).name = x.name
                      /\ Moved(x).pane = pane
  BY <1>1 DEF Rows
<1>9. fresh \in Rows /\ fresh.rowid = NextRowid /\ fresh.name = name /\ fresh.pane = pane
  BY <1>5, <1>6 DEF Rows
<1>10. \A x, y \in mine : x = y
  BY <1>2 DEF InOrder, OneRowPerKey
<1>11. \A x \in others : x.name.key # name.key
  BY <1>1, <1>2, <1>5 DEF InOrder, AllCanonical, Canonical, CanonicalName, Rows, Names
<1>12. \A x \in agents : x.rowid \in Nat /\ x.name \in Names
  BY <1>1 DEF Rows
<1> HIDE DEF Cleared, Moved, fresh, name
\* The new table is a set of images of old rows with distinct rowids, and perhaps the fresh row.
<1>13. agents' \subseteq Rows
  BY <1>4, <1>7, <1>8, <1>9
<1>14. RowidIsKey(agents')
  <2>1. \A x \in others, y \in mine : x.rowid # y.rowid
    BY <1>1 DEF RowidIsKey
  <2>2. \A x \in agents : x.rowid # NextRowid
    BY <1>6, <1>12
  <2>3. \A x, y \in others : x.rowid = y.rowid => x = y
    BY <1>1 DEF RowidIsKey
  <2> HIDE DEF others, mine
  <2>4. others \subseteq agents /\ mine \subseteq agents
    BY DEF others, mine
  <2>5. CASE mine = {}
    BY <1>4, <1>7, <1>9, <2>2, <2>3, <2>4, <2>5 DEF RowidIsKey
  <2>6. CASE mine # {}
    BY <1>4, <1>7, <1>8, <1>10, <2>1, <2>3, <2>6 DEF RowidIsKey
  <2> QED
    BY <2>5, <2>6
<1>15. OneRowPerKey(agents')
  <2>1. \A x, y \in others : x.name.key = y.name.key => x = y
    BY <1>2 DEF InOrder, OneRowPerKey
  <2>2. \A x \in mine : x.name = name
    OBVIOUS
  <2> HIDE DEF others, mine
  <2>3. CASE mine = {}
    BY <1>4, <1>7, <1>9, <1>11, <2>1, <2>3 DEF OneRowPerKey
  <2>4. CASE mine # {}
    BY <1>4, <1>7, <1>8, <1>10, <1>11, <2>1, <2>2, <2>4 DEF OneRowPerKey
  <2> QED
    BY <2>3, <2>4
<1>16. AllCanonical(agents')
  BY <1>2, <1>4, <1>5, <1>7, <1>8, <1>9 DEF InOrder, AllCanonical
<1>17. DistinctPanes(agents')
  <2>1. \A x, y \in others : x.pane = y.pane /\ x.pane # NoPane => x.rowid = y.rowid
    BY <1>2 DEF InOrder, DistinctPanes
  <2> HIDE DEF others, mine
  <2>2. \A x, y \in others : Cleared(x).pane = Cleared(y).pane /\ Cleared(x).pane # NoPane
                                => Cleared(x).rowid = Cleared(y).rowid
    BY <1>7, <2>1
  <2>3. CASE mine = {}
    BY <1>4, <1>7, <1>9, <2>2, <2>3 DEF DistinctPanes
  <2>4. CASE mine # {}
    BY <1>4, <1>7, <1>8, <1>10, <2>2, <2>4 DEF DistinctPanes
  <2> QED
    BY <2>3, <2>4
<1>18. KeysKept'
  <2>1. \A x \in agents : \E y \in agents' : y.name.key = x.name.key
    BY <1>4, <1>7, <1>8
  <2> QED
    BY <1>1, <2>1 DEF KeysKept
<1> QED
  BY <1>1, <1>2, <1>13, <1>14, <1>15, <1>16, <1>17, <1>18, UseStep DEF InOrder

LEMMA DeleteAgentStep ==
  ASSUME MigrationInv, NEW p \in Procs, NEW n \in Names, DeleteAgent(p, n)
  PROVE  MigrationInv'
<1>1. /\ migrated /\ UNCHANGED <<msgs, columns, indexed, pc, migrated, broken>>
      /\ agents' = {x \in agents : x.name # CanonicalName(n)} /\ first' = first \ {n.key}
      /\ agents \subseteq Rows /\ RowidIsKey(agents) /\ KeysKept
      /\ msgs \in Seq(Messages) /\ Len(msgs) <= MaxMsg /\ first \subseteq Keys
  BY DEF MigrationInv, MigrationTypeOK, DeleteAgent
<1>2. InOrder
  BY <1>1, InUse
<1>3. CanonicalName(n).key = n.key
  BY CanonicalNameFacts
<1>4. KeysKept'
  BY <1>1, <1>3 DEF KeysKept
<1>5. RowidIsKey(agents') /\ InOrder'
  BY <1>1, <1>2 DEF RowidIsKey, InOrder, DistinctPanes, OneRowPerKey, AllCanonical
<1> QED
  BY <1>1, <1>4, <1>5, UseStep

(* A message table that grows, or whose rows change state, only by         *)
(* messages to canonical names.                                            *)
LEMMA MessagesStep ==
  ASSUME MigrationInv, NEW p \in Procs, pc[p] = "open",
         UNCHANGED <<agents, columns, indexed, pc, first, migrated, broken>>,
         msgs' \in Seq(Messages), Len(msgs') <= MaxMsg,
         \A i \in DOMAIN msgs' : \/ i \in DOMAIN msgs /\ msgs'[i] = msgs[i]
                                 \/ Canonical(msgs'[i].to)
  PROVE  MigrationInv'
<1>1. migrated /\ agents \subseteq Rows /\ RowidIsKey(agents) /\ KeysKept /\ first \subseteq Keys
  BY DEF MigrationInv, MigrationTypeOK
<1>2. InOrder
  BY <1>1, InUse
<1>3. InOrder'
  BY <1>2 DEF InOrder, PendingRouted
<1>4. KeysKept'
  BY <1>1 DEF KeysKept
<1> QED
  BY <1>1, <1>3, <1>4, UseStep

LEMMA SendStep ==
  ASSUME MigrationInv, NEW p \in Procs, NEW n \in Names, NEW s \in {"queued", "deferred"},
         Send(p, n, s)
  PROVE  MigrationInv'
<1> DEFINE m == [to |-> CanonicalName(n), state |-> s]
<1>1. /\ m \in Messages /\ Canonical(m.to)
  BY CanonicalNameFacts DEF Messages, MsgStates
<1>2. /\ msgs \in Seq(Messages) /\ msgs' = Append(msgs, m) /\ Len(msgs) < MaxMsg
      /\ pc[p] = "open" /\ UNCHANGED <<agents, columns, indexed, pc, first, migrated, broken>>
  BY DEF MigrationInv, MigrationTypeOK, Send
<1> HIDE DEF m
<1>3. msgs' \in Seq(Messages) /\ Len(msgs') <= MaxMsg
  BY <1>1, <1>2, MigrationAssumption
<1>4. \A i \in DOMAIN msgs' : (i \in DOMAIN msgs /\ msgs'[i] = msgs[i]) \/ Canonical(msgs'[i].to)
  BY <1>1, <1>2
<1> QED
  BY <1>2, <1>3, <1>4, MessagesStep

LEMMA RecoverStep ==
  ASSUME MigrationInv, NEW p \in Procs, NEW n \in Names, Recover(p, n)
  PROVE  MigrationInv'
<1>1. /\ msgs \in Seq(Messages) /\ Len(msgs) <= MaxMsg
      /\ pc[p] = "open" /\ UNCHANGED <<agents, columns, indexed, pc, first, migrated, broken>>
  BY DEF MigrationInv, MigrationTypeOK, Recover
<1>2. PICK from \in {"delivering", "deferred"} : Move(n, from, "queued")
  BY DEF Recover
<1> DEFINE Moved(m) == IF m.to = CanonicalName(n) /\ m.state = from
                       THEN [m EXCEPT !.state = "queued"] ELSE m
<1>3. msgs' = [i \in DOMAIN msgs |-> Moved(msgs[i])]
  BY <1>2 DEF Move
<1>4. \A m \in Messages : Moved(m) \in Messages /\ (Moved(m) = m \/ Canonical(Moved(m).to))
  BY CanonicalNameFacts DEF Messages, MsgStates
<1>5. \A i \in DOMAIN msgs : msgs[i] \in Messages
  BY <1>1
<1> HIDE DEF Moved
<1>6. msgs' \in Seq(Messages) /\ Len(msgs') = Len(msgs) /\ DOMAIN msgs' = DOMAIN msgs
  BY <1>1, <1>3, <1>4, <1>5
<1>7. \A i \in DOMAIN msgs' : (i \in DOMAIN msgs /\ msgs'[i] = msgs[i]) \/ Canonical(msgs'[i].to)
  BY <1>3, <1>4, <1>5, <1>6
<1>8. Len(msgs') <= MaxMsg
  BY <1>1, <1>6
<1> QED
  BY <1>1, <1>6, <1>7, <1>8, MessagesStep

LEMMA ClaimStep ==
  ASSUME MigrationInv, NEW p \in Procs, NEW n \in Names, NEW i \in DOMAIN msgs, Claim(p, n, i)
  PROVE  MigrationInv'
<1>1. /\ msgs \in Seq(Messages) /\ Len(msgs) <= MaxMsg
      /\ pc[p] = "open" /\ UNCHANGED <<agents, columns, indexed, pc, first, migrated, broken>>
  BY DEF MigrationInv, MigrationTypeOK, Claim
<1>2. PICK s \in {"delivering", "delivered"} : msgs' = [msgs EXCEPT ![i] = [msgs[i] EXCEPT !.state = s]]
  BY DEF Claim
<1>3. msgs[i] \in Messages /\ msgs[i].to = CanonicalName(n)
  BY <1>1 DEF Claim
<1>4. /\ [msgs[i] EXCEPT !.state = s] \in Messages
      /\ Canonical([msgs[i] EXCEPT !.state = s].to)
  BY <1>3, CanonicalNameFacts DEF Messages, MsgStates
<1>5. msgs' \in Seq(Messages) /\ Len(msgs') = Len(msgs) /\ DOMAIN msgs' = DOMAIN msgs
  BY <1>1, <1>2, <1>4
<1>6. \A j \in DOMAIN msgs' : (j \in DOMAIN msgs /\ msgs'[j] = msgs[j]) \/ Canonical(msgs'[j].to)
  BY <1>1, <1>2, <1>4, <1>5
<1>7. Len(msgs') <= MaxMsg
  BY <1>1, <1>5
<1> QED
  BY <1>1, <1>5, <1>6, <1>7, MessagesStep

LEMMA MigrationInitInv == Init => MigrationInv
<1> SUFFICES ASSUME Init PROVE MigrationInv
  OBVIOUS
<1>1. PICK t \in LegacyTables :
        agents = {[rowid |-> r, name |-> t[r].name, pane |-> t[r].pane, at |-> t[r].at] :
                    r \in DOMAIN t}
  BY DEF Init
<1>2. PICK R \in SUBSET Legacy : t \in [R -> [name : Names, pane : Panes \cup {NoPane}, at : Stamps]]
  BY DEF LegacyTables
<1>3. R \subseteq 1..MaxRow
  BY <1>2, MigrationAssumption
<1>4. agents \subseteq Rows /\ RowidIsKey(agents)
  <2> DEFINE Row(r) == [rowid |-> r, name |-> t[r].name, pane |-> t[r].pane, at |-> t[r].at]
  <2>1. agents = {Row(r) : r \in R}
    BY <1>1, <1>2
  <2>2. \A r \in R : Row(r) \in Rows /\ Row(r).rowid = r
    BY <1>2, <1>3 DEF Rows
  <2> HIDE DEF Row
  <2> QED
    BY <2>1, <2>2 DEF RowidIsKey
<1>5. first \subseteq Keys /\ KeysKept
  <2>1. \A x \in agents : x.name.key \in Keys
    BY <1>4 DEF Rows, Names
  <2>2. first = {x.name.key : x \in agents}
    BY DEF Init
  <2> QED
    BY <2>1, <2>2 DEF KeysKept
<1>6. msgs \in Seq(Messages) /\ Len(msgs) <= MaxMsg
  <2>1. CASE msgs = <<>>
    BY <2>1, MigrationAssumption
  <2>2. ASSUME NEW m \in Messages, msgs = <<m>>
        PROVE  msgs \in Seq(Messages) /\ Len(msgs) <= MaxMsg
    BY <2>2, MigrationAssumption
  <2> QED
    BY <2>1, <2>2 DEF Init
<1>7. columns \subseteq Columns
  BY DEF Init, Columns
<1>8. indexed \in BOOLEAN /\ migrated \in BOOLEAN /\ broken \in BOOLEAN
  BY Zenon DEF Init
<1>9. pc = [p \in Procs |-> "closed"] /\ ~migrated /\ ~broken
  BY DEF Init
<1>10. \A s \in Statements : ~Ran(s)
  BY <1>9 DEF Ran, Past, Statements
<1>11. Healed
  BY <1>10 DEF Healed, Init, Statements
<1>12. MigrationTypeOK
  BY <1>4, <1>5, <1>6, <1>7, <1>8, <1>9 DEF MigrationTypeOK
<1> QED
  BY <1>4, <1>5, <1>9, <1>11, <1>12 DEF MigrationInv

LEMMA MigrationInvStep ==
  ASSUME MigrationInv, [Next]_vars
  PROVE  MigrationInv'
<1>1. CASE UNCHANGED vars
  BY <1>1 DEF vars, MigrationInv, MigrationTypeOK, KeysKept, Healed, Ran
<1>2. ASSUME NEW p \in Procs, Open(p) \/ Exec(p) \/ Leave(p)
      PROVE  MigrationInv'
  BY <1>2, OpenLeaveStep, ExecStep
<1>3. ASSUME NEW p \in Procs, NEW n \in Names,
             \/ \E pane \in Panes : Register(p, n, pane)
             \/ DeleteAgent(p, n)
             \/ \E s \in {"queued", "deferred"} : Send(p, n, s)
             \/ Recover(p, n)
             \/ \E i \in DOMAIN msgs : Claim(p, n, i)
      PROVE  MigrationInv'
  BY <1>3, RegisterStep, DeleteAgentStep, SendStep, RecoverStep, ClaimStep
<1> QED
  BY <1>1, <1>2, <1>3 DEF Next

-----------------------------------------------------------------------------
(* The theorems *)

(* The inductive invariant: what a statement of the list establishes holds *)
(* from the moment any process has executed it, whatever the others do.    *)
THEOREM MigrationInvariant == Spec => []MigrationInv
<1>1. MigrationInv /\ [Next]_vars => MigrationInv'
  BY MigrationInvStep
<1> QED
  BY MigrationInitInv, <1>1, PTL DEF Spec

(* No statement ever fails on the rows it meets (migrations, store.go).    *)
THEOREM ListNeverFails == Spec => []HealsNeverCollide
<1>1. MigrationInv => HealsNeverCollide
  BY DEF MigrationInv, HealsNeverCollide
<1> QED
  BY MigrationInvariant, <1>1, PTL

(* No agent is lost, and a store in use has one canonical row per agent,   *)
(* one owner per pane, the index and every column.                         *)
THEOREM IdentitiesCollapse == Spec => []OneIdentity
<1>1. MigrationInv => OneIdentity
  <2> SUFFICES ASSUME MigrationInv PROVE OneIdentity
    OBVIOUS
  <2>1. \A k \in first : \E x \in agents : x.name.key = k
    BY DEF MigrationInv, KeysKept
  <2>2. ASSUME migrated
        PROVE  InOrder /\ indexed /\ columns = Columns
    BY <2>2, InUse
  <2> QED
    BY <2>1, <2>2 DEF OneIdentity, InOrder, OneRowPerKey, AllCanonical
<1> QED
  BY MigrationInvariant, <1>1, PTL

(* A pending message is addressed to the canonical name once the store is  *)
(* in use.                                                                 *)
THEOREM PendingStaysReachable == Spec => []NothingPendingStranded
<1>1. MigrationInv => NothingPendingStranded
  BY InUse DEF InOrder, PendingRouted, NothingPendingStranded
<1> QED
  BY MigrationInvariant, <1>1, PTL

(* On a store in use every statement leaves the tables as they are.        *)
LEMMA ExecIsInert ==
  ASSUME MigrationInv, migrated, NEW p \in Procs, Exec(p)
  PROVE  UNCHANGED tables
<1>1. pc[p] \in Statements /\ Migrate(pc[p])
  BY ExecEffect
<1>2. /\ agents \subseteq Rows /\ RowidIsKey(agents) /\ msgs \in Seq(Messages)
      /\ indexed \in BOOLEAN
  BY DEF MigrationInv, MigrationTypeOK
<1>3. InOrder /\ indexed /\ columns = Columns
  BY InUse
<1>4. agents' = agents
  <2>1. HealPanes(agents) = agents /\ Collapse(agents) = agents /\ Rename(agents) = agents
    BY <1>2, <1>3, HealPanesRows, CollapseRows, RenameRows DEF InOrder
  <2> QED
    BY <1>1, <2>1 DEF Migrate
<1>5. msgs' = msgs
  BY <1>1, <1>2, <1>3, MigrateMessages DEF InOrder
<1>6. columns' = columns
  BY <1>1, <1>3 DEF Migrate
<1>7. indexed' = indexed
  BY <1>1, <1>2, <1>3, Zenon DEF Migrate
<1> QED
  BY <1>4, <1>5, <1>6, <1>7

(* Once the store is in use a process in the list rewrites nothing         *)
(* ("each must be safe to re-run", store.go).                              *)
THEOREM ListIsInert == Spec => ReopenIsInert
<1>1. ASSUME MigrationInv, [Next]_vars
      PROVE  [migrated /\ pc' # pc => UNCHANGED tables]_vars
  <2> SUFFICES ASSUME Next, migrated, pc' # pc PROVE UNCHANGED tables
    BY <1>1
  <2>1. PICK p \in Procs : Open(p) \/ Exec(p) \/ Leave(p)
    BY DEF Next, Register, DeleteAgent, Send, Recover, Claim
  <2> QED
    BY <1>1, <2>1, ExecIsInert DEF Open, Leave
<1> QED
  BY MigrationInvariant, <1>1, PTL DEF Spec, ReopenIsInert
=============================================================================

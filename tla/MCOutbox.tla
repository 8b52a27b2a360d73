------------------------------ MODULE MCOutbox ------------------------------
(***************************************************************************)
(* Alice writes to bob and carol; bob has asked alice something.           *)
(***************************************************************************)
EXTENDS Outbox, TLC

CONSTANTS alice, bob, carol, p1, p2, p3, c1, c2, c3

MCAgents == {alice, bob, carol}

MCPanes == {p1, p2, p3}

MCHome == (alice :> p1) @@ (bob :> p2) @@ (carol :> p3)

(* Room for a pair of control rows at alice, not at bob. *)
MCCapFloor == [a \in MCAgents |-> IF a = alice THEN 2 ELSE 0]

MCBodies == {"text", "long", "rename", "clear", "compact"}

MCLength == [b \in MCBodies |-> IF b = "long" THEN 2 ELSE 1]

(* n^1.5, in hundredths. *)
MCBreadth == [n \in 0..3 |-> <<0, 100, 283, 520>>[n + 1]]

MCPoolOf == (alice :> "anthropic") @@ (bob :> "openai") @@ (carol :> "openai")

MCThrottles ==
  [anthropic |-> [threshold |-> 5, delay |-> 1], openai |-> [threshold |-> 1, delay |-> 1],
   unknown |-> [threshold |-> 1, delay |-> 1]]

MCEdges == {<<alice, bob>>}

MCSendable ==
  {[from |-> bob, to |-> alice, kind |-> "message", priority |-> 20, after |-> "none", force |-> FALSE, body |-> "text"]}

MCAsked == <<CHOOSE e \in MCSendable : TRUE>>

(* A command with every option off. *)
Plain(op, via, from, to) ==
  [op |-> op, via |-> via, from |-> from, to |-> to, body |-> "text", after |-> "none", priority |-> 20,
   force |-> FALSE, strict |-> FALSE, wait |-> FALSE, block |-> FALSE, dry |-> FALSE, re |-> 0,
   command |-> "rename", second |-> "none", purge |-> FALSE, age |-> -1, states |-> {}]

Nothing == Plain("none", "cli", alice, <<alice>>)

Single == Plain("send", "cli", alice, <<bob>>)

Pair == Plain("send", "cli", alice, <<bob, carol>>)

(* Two pools, so nothing is staggered. *)
Mixed == Plain("send", "cli", carol, <<bob, alice>>)

Short == Plain("send", "mcp", carol, <<bob>>)

Long == [Plain("send", "mcp", alice, <<carol>>) EXCEPT !.body = "long"]

(* Refused after Mixed: the bucket is below zero, more than a minute short. *)
ShortLong == [Short EXCEPT !.body = "long"]

AskOperator == [Plain("send", "mcp", alice, <<bob, Operator>>) EXCEPT !.strict = TRUE]

Awaited == [Pair EXCEPT !.wait = TRUE]

AwaitedBob == [Single EXCEPT !.wait = TRUE]

Reply == [Plain("send", "cli", alice, <<bob>>) EXCEPT !.re = 1, !.block = TRUE]

Question == Plain("ask", "mcp", bob, <<alice>>)

WaitReply == [Plain("wait", "mcp", bob, <<alice>>) EXCEPT !.re = 1]

Track == [Plain("track", "cli", alice, <<bob>>) EXCEPT !.re = 2]

Ping == Plain("ping", "cli", alice, <<carol>>)

ClearBob == [Plain("control", "mcp", alice, <<bob>>) EXCEPT !.command = "clear", !.second = "rename"]

CompactAlice == [Plain("control", "cli", alice, <<alice>>) EXCEPT !.force = TRUE, !.command = "compact", !.second = "text"]

StageSelf == [Plain("send", "cli", alice, <<alice>>) EXCEPT !.after = "resume"]

FlushSelf == [Plain("flush", "mcp", alice, <<alice>>) EXCEPT !.after = "resume"]

Resend == [Plain("resend", "cli", alice, <<bob>>) EXCEPT !.re = 2]

DryRun == [Pair EXCEPT !.dry = TRUE]

ToCarol == Plain("send", "cli", alice, <<carol>>)

Goodbye == Plain("unregister", "cli", carol, <<carol>>)

LeaveForced == [Plain("unregister", "mcp", carol, <<carol>>) EXCEPT !.force = TRUE]

LeavePurged == [LeaveForced EXCEPT !.purge = TRUE]

ResetAll == Plain("reset", "cli", carol, <<alice, bob, carol>>)

ResetBob == Plain("reset", "cli", carol, <<bob>>)

ResetHard == [Plain("reset", "cli", carol, <<alice>>) EXCEPT !.purge = TRUE]

ResetOld == [Plain("reset", "cli", carol, <<alice, bob>>) EXCEPT !.age = 0, !.states = {"delivered"}]

Fossils == [Plain("reap", "cli", carol, <<bob, carol>>) EXCEPT !.age = 0]

Via(r, surface) == [r EXCEPT !.via = surface]

Three(r, s, u) == (c1 :> r) @@ (c2 :> s) @@ (c3 :> u)

Both(r, s) == Three(r, s, Nothing)

SendPlans ==
  {Both(Pair, Pair), Both(Long, ToCarol), Both(Mixed, Short), Both(Mixed, ShortLong),
   Both(AskOperator, Single), Both(AwaitedBob, ClearBob),
   Both(Reply, WaitReply), Both(Reply, Via(WaitReply, "cli")), Both(Reply, Question),
   Both(StageSelf, FlushSelf), Both(Via(Question, "cli"), Via(FlushSelf, "cli")),
   Both(Single, Resend), Both(Via(Single, "mcp"), Via(Resend, "mcp")), Both(Single, Track),
   Both(DryRun, Via(Ping, "mcp")), Both(CompactAlice, FlushSelf),
   Both(Pair, Goodbye), Both(AskOperator, LeaveForced), Both(Ping, LeavePurged), Three(ToCarol, LeaveForced, Fossils),
   Both(Reply, ResetHard), Both(Reply, ResetOld), Both(Awaited, ResetAll), Three(Single, ResetBob, ToCarol)}
=============================================================================

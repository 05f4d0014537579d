----------------------------- MODULE MCSchedule -----------------------------
(***************************************************************************)
(* Runs of HotStuff along a given schedule of events, for behaviours too   *)
(* long for breadth-first search.  Between two events of the schedule the  *)
(* node that took the first one finishes its agenda; what the node does    *)
(* with an event is all HotStuff's.  A schedule is a sequence of steps     *)
(* <<kind, node, ...>>.                                                    *)
(***************************************************************************)
EXTENDS MCHotStuff

CONSTANT Schedule

VARIABLE pc   \* the next step of the schedule

Do(s) ==
    LET n == s[2] IN
    CASE s[1] = "proposal" -> Receive(n, Proposal(s[3]))
      [] s[1] = "vote"     -> Receive(n, Vote(s[3], s[4]))
      [] s[1] = "newview"  -> Receive(n, NewView(Node, s[3]))
      [] s[1] = "timeout"  -> \E m \in msgs : /\ m.kind = "timeout"
                                              /\ m.from = s[3] /\ m.view = s[4]
                                              /\ Receive(n, m)
      [] s[1] = "timer"    -> OnTimeout(n)
      [] s[1] = "block"    -> ReceiveBlock(n, s[3])
      [] s[1] = "restart"  -> Restart(n)
      [] OTHER             -> FALSE

ScheduleInit == Init /\ pc = 1
ScheduleNext ==
    IF \E n \in Node : Busy(n)
    THEN (\E n \in Node : Go(n) /\ Work(n)) /\ UNCHANGED pc
    ELSE /\ pc <= Len(Schedule)
         /\ Do(Schedule[pc])
         /\ pc' = pc + 1
ScheduleSpec == ScheduleInit /\ [][ScheduleNext]_<<vars, pc>>

-----------------------------------------------------------------------------
\* The payload of every scheduled block.
ThePayload == CHOOSE p \in Payload : TRUE
\* The block that node n proposes in view v on top of b.
On(b, v, n) == Append(b, [view |-> v, proposer |-> n, payload |-> ThePayload])

\* Node n proposes b; the nodes of the sequence S receive it and vote.
ToAll(S, b) == [i \in DOMAIN S |-> <<"proposal", S[i], b>>]
\* Node n receives the votes of the sequence S for b.
Votes(n, S, b) == [i \in DOMAIN S |-> <<"vote", n, S[i], b>>]
\* The nodes of S time out in view v.
Timers(S) == [i \in DOMAIN S |-> <<"timer", S[i]>>]
\* Node n receives the timeout votes of S for view v.
Timeouts(n, S, v) == [i \in DOMAIN S |-> <<"timeout", n, S[i], v>>]
\* c and d time out in view v, a follows them into it (round sync) and times
\* out too, and all three form the timeout certificate.
GiveUp(v) ==
    Timers(<<"c", "d">>) \o Timeouts("a", <<"c", "d">>, v) \o Timers(<<"a">>)
        \o Timeouts("c", <<"a", "d">>, v) \o Timeouts("d", <<"a", "c">>, v)

-----------------------------------------------------------------------------
(* Four equal validators, a leads the views 4 and 8, b 1, 5 and 9, c 2, 6
   and 10, d 3, 7 and 11.  The chain x is locked on by b and c after they
   voted for y1 and before they see y3; the lock is compared by height, so
   y1, certified later at the same height, never displaces it. *)
x1 == On(Genesis, 1, "b")
x2 == On(x1, 2, "c")
x3 == On(x2, 3, "d")
y1 == On(Genesis, 4, "a")
y2 == On(y1, 5, "b")
y3 == On(y2, 6, "c")
y4 == On(y3, 7, "d")
z1 == On(x2, 8, "a")
z2 == On(z1, 9, "b")
z3 == On(z2, 10, "c")

Fork ==
    \* x1 and x2 are certified, d proposes x3 and locks x1
    ToAll(<<"c", "d">>, x1) \o Votes("c", <<"b", "d">>, x1)
    \o ToAll(<<"b", "d">>, x2) \o Votes("d", <<"b", "c">>, x2)
    \o << <<"newview", "b", x2>>, <<"newview", "c", x2>> >>
    \* view 3 is given up; a follows to view 4 without the certificates
    \o Timers(<<"b", "c", "d">>) \o Timeouts("b", <<"c", "d">>, 3)
    \o Timeouts("c", <<"b", "d">>, 3)
    \o Timers(<<"b", "c">>) \o Timeouts("a", <<"b", "c">>, 4)
    \* y1 is certified; only then b and c see x3 and lock x1
    \* (d has committed genesis with x3 and has to ask for it again)
    \o ToAll(<<"b", "c", "d">>, y1) \o << <<"block", "d", Genesis>> >>
    \o Votes("b", <<"a", "c">>, y1)
    \o ToAll(<<"b", "c">>, x3)
    \o ToAll(<<"c", "d">>, y2) \o Votes("c", <<"b", "d">>, y2)
    \o ToAll(<<"b", "d">>, y3)
    \* b and c give up view 6, d proposes y4 and commits y1
    \o Timers(<<"b", "c", "d">>) \o Timeouts("b", <<"c", "d">>, 6)
    \o Timeouts("c", <<"b", "d">>, 6)
    \o Votes("d", <<"b", "c">>, y3)
    \o Timers(<<"b", "c", "d">>) \o Timeouts("b", <<"c", "d">>, 7)
    \o Timeouts("c", <<"b", "d">>, 7)
    \* a learns x2, follows to view 8 and extends x2
    \o ToAll(<<"a">>, x1) \o ToAll(<<"a">>, x2) \o << <<"newview", "a", x2>> >>
    \o Timers(<<"b", "c">>) \o Timeouts("a", <<"b", "c">>, 8)
    \o ToAll(<<"b", "c", "d">>, z1) \o Votes("b", <<"a", "c">>, z1)
    \o ToAll(<<"a", "c", "d">>, z2) \o Votes("c", <<"a", "b">>, z2)
    \o ToAll(<<"a", "b", "d">>, z3) \o Votes("d", <<"a", "b">>, z3)

-----------------------------------------------------------------------------
(* Two equal validators build a chain k1 .. k6, a commits k3 and restarts,
   and the network delivers k5 to it a second time. *)
k1 == On(Genesis, 1, "b")
k2 == On(k1, 2, "a")
k3 == On(k2, 3, "b")
k4 == On(k3, 4, "a")
k5 == On(k4, 5, "b")

Redelivery ==
    ToAll(<<"a">>, k1) \o Votes("a", <<"b">>, k1)
    \o ToAll(<<"b">>, k2) \o Votes("b", <<"a">>, k2)
    \o ToAll(<<"a">>, k3) \o Votes("a", <<"b">>, k3)
    \o ToAll(<<"b">>, k4) \o Votes("b", <<"a">>, k4)
    \o ToAll(<<"a">>, k5) \o Votes("a", <<"b">>, k5)
    \o << <<"restart", "a">>, <<"proposal", "a", k5>> >>

-----------------------------------------------------------------------------
(* Weights 7, 1, 1: a certifies its own blocks h1 .. h5.  b sees h3 and h5
   before the blocks between, and both become ready in one view advance. *)
Three == <<"a", "b", "c">>
Heavy3 == <<7, 1, 1>>
h1 == On(Genesis, 1, "a")
h2 == On(h1, 2, "a")
h3 == On(h2, 3, "a")
h4 == On(h3, 4, "a")
h5 == On(h4, 5, "a")

OutOfOrder ==
    Timers(<<"a", "a", "a">>)
    \o ToAll(<<"b">>, h3) \o ToAll(<<"b">>, h5)
    \o ToAll(<<"b">>, h1) \o ToAll(<<"b">>, h2)
    \o << <<"block", "b", h4>> >>

-----------------------------------------------------------------------------
(* Four equal validators.  a missed w1, restarts, and holds three children of
   w1 (w2, w3, w5) and a child of w2 (w7) back.  When w1 arrives it votes for
   w3 and w5 in one step; its vote for w3 completes a certificate, so that it
   leads view 4 and votes for w7 before the record of its vote for w5, the
   older one, is written over that for w7. *)
w1 == On(Genesis, 1, "b")
w2 == On(w1, 2, "c")
w3 == On(w1, 3, "d")
w5 == On(w1, 5, "b")
w7 == On(w2, 7, "d")

Nested ==
    ToAll(<<"c", "d">>, w1) \o Votes("c", <<"b", "d">>, w1)
    \* c certifies w2 after it timed out; d, not knowing it, extends w1
    \o ToAll(<<"b", "d">>, w2) \o Timers(<<"b", "c", "d">>)
    \o Votes("c", <<"b", "d">>, w2)
    \o Timeouts("c", <<"b", "d">>, 2) \o Timeouts("d", <<"b", "c">>, 2)
    \o ToAll(<<"c">>, w3)
    \* b follows into view 5 without a timeout certificate and extends w1 as
    \* well; d has adopted w2 by view 7
    \o GiveUp(3) \o GiveUp(4) \o GiveUp(5) \o Timeouts("b", <<"c", "d">>, 5)
    \o GiveUp(6)
    \o << <<"restart", "a">> >>
    \o ToAll(<<"a">>, w2) \o ToAll(<<"a">>, w3) \o ToAll(<<"a">>, w5)
    \o ToAll(<<"a">>, w7) \o Votes("a", <<"c", "d">>, w3)
    \o << <<"block", "a", w1>> >>

-----------------------------------------------------------------------------
(* The same four validators without a crash.  a has adopted the certificate of
   w2, without the block, and waits in view 4, which it leads; it holds back w7
   (on w2) and w5 (on w1), with two votes for w7.  When w2 arrives, a is to vote
   for w7 and then to build in view 4.  Its own vote completes a certificate, so
   that it proposes in view 8 first; the build of view 4 that follows sets
   proposed_in_view back, and the arrival of w1 makes a propose in view 8 again,
   with whatever its mempool holds by then. *)
Reproposal ==
    ToAll(<<"c", "d">>, w1) \o Votes("c", <<"b", "d">>, w1)
    \o ToAll(<<"b", "d">>, w2) \o Timers(<<"b", "c", "d">>)
    \o Votes("c", <<"b", "d">>, w2)
    \o Timeouts("c", <<"b", "d">>, 2) \o Timeouts("d", <<"b", "c">>, 2)
    \* a learns of w2 with the timeouts of view 3 and stays in view 4
    \o GiveUp(3)
    \o Timers(<<"a", "c", "d">>)
    \o Timeouts("c", <<"a", "d">>, 4) \o Timeouts("d", <<"a", "c">>, 4)
    \* b, not knowing w2, follows into view 5 and extends w1
    \o Timers(<<"c", "d">>) \o Timeouts("b", <<"c", "d">>, 5) \o Timers(<<"b">>)
    \o Timeouts("c", <<"b", "d">>, 5) \o Timeouts("d", <<"b", "c">>, 5)
    \o Timers(<<"b", "c", "d">>) \o Timeouts("d", <<"b", "c">>, 6)
    \o ToAll(<<"c">>, w7)
    \o ToAll(<<"a">>, w5) \o ToAll(<<"a">>, w7) \o Votes("a", <<"c", "d">>, w7)
    \o << <<"block", "a", w2>>, <<"block", "a", w1>> >>
=============================================================================

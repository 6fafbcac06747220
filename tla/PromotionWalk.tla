---------------------------- MODULE PromotionWalk ----------------------------
(***************************************************************************)
(* One call of _promote_pending.  Boards describes what the call leaves    *)
(* behind, Promote; here it walks the queue the way the code does: the     *)
(* pending rows are read and ranked once, and each is decided in turn      *)
(* against the tables as the grants before it have left them.              *)
(***************************************************************************)
EXTENDS Boards

CONSTANTS
    Start,      \* the boards the call may find
    At          \* its clock, read once

ASSUME StartAssumption ==
    /\ At \in Nat
    /\ \A b \in Start : b \in [orbit : [1..b.seq -> Row], agent : [Agent -> AgentRow],
                                task : [Task -> TaskRow], token : Task \cup {NoTask},
                                seq : Nat, fence : Nat]

VARIABLES
    start,      \* the board the call found
    left,       \* the requests it has still to look at
    board       \* the board as it is now

vars == <<start, left, board>>

Init ==
    /\ start \in Start
    /\ left = Pending(start.orbit)
    /\ board = start

\* The order of the walk is the order of rank at the time of reading.
\* (Fault: the queue is walked in the order of its tickets.)
FirstTicket(i) == \A j \in left \ {i} : i < j

First(i) == \A j \in left \ {i} : Outranks(start.orbit, At, i, j)

\* What the code asks of the row it read and of the tables as they are.
Grantable(i) ==
    /\ start.orbit[i].due > At
    /\ Fresh(start.agent, start.orbit[i].agent, At)
    /\ Blockers(board.orbit, At, i) = {}

Grant(i) ==
    /\ i \in left /\ First(i) /\ Grantable(i)
    /\ board' = [board EXCEPT !.orbit[i].state = "HELD",
                              !.orbit[i].fence = board.fence + 1,
                              !.orbit[i].due = At + board.orbit[i].ttl,
                              !.fence = board.fence + 1]
    /\ left' = left \ {i}
    /\ UNCHANGED start

Skip(i) ==
    /\ i \in left /\ First(i) /\ ~Grantable(i)
    /\ left' = left \ {i}
    /\ UNCHANGED <<start, board>>

Next == \E i \in DOMAIN start.orbit : Grant(i) \/ Skip(i)

Spec == Init /\ [][Next]_vars

-----------------------------------------------------------------------------
\* The walk grants exactly the requests that nothing blocked when it began,
\* with tokens in the order of their rank: a grant never unblocks a request
\* further down the queue, and never blocks one that was free.
WalkAgrees == left = {} => board = Promote(start, At)
=============================================================================

---------------------------- MODULE TaskContract ----------------------------
(***************************************************************************)
(* What the task board promises about one neighbour-help task, whatever    *)
(* the number of requests racing for it: its life is a sequence of atomic  *)
(* moves, each made by the party entitled to it at that moment.            *)
(*                                                                         *)
(* Nothing here knows of versions, snapshots or transactions; that         *)
(* TaskLifecycle implements this module is what its version column is for. *)
(***************************************************************************)
CONSTANTS Users, NoUser, Tasks

VARIABLE board    \* for every task: its phase, its publisher and its taker

Phase == {"ABSENT", "DRAFT", "PENDING_TAKE", "IN_PROGRESS", "PENDING_CONFIRM",
          "COMPLETED", "CANCELLED", "REMOVED"}

Entry == [phase: Phase, publisher: Users \cup {NoUser}, taker: Users \cup {NoUser}]

TypeOK == board \in [Tasks -> Entry]

Blank == [phase |-> "ABSENT", publisher |-> NoUser, taker |-> NoUser]

Init == board = [t \in Tasks |-> Blank]

\* Task t goes from one of the phases `from` to the entry `after`.
Move(t, from, after) ==
    /\ board[t].phase \in from
    /\ board' = [board EXCEPT ![t] = after]

To(t, phase) == [board[t] EXCEPT !.phase = phase]

Create(t) ==
    \E u \in Users, phase \in {"DRAFT", "PENDING_TAKE"} :
        Move(t, {"ABSENT"}, [phase |-> phase, publisher |-> u, taker |-> NoUser])

Publish(t) == Move(t, {"DRAFT"}, To(t, "PENDING_TAKE"))

\* A neighbour takes a task that is open and not his own.
Claim(t) ==
    \E u \in Users \ {board[t].publisher} :
        Move(t, {"PENDING_TAKE"}, [To(t, "IN_PROGRESS") EXCEPT !.taker = u])

Submit(t)  == Move(t, {"IN_PROGRESS"}, To(t, "PENDING_CONFIRM"))
Confirm(t) == Move(t, {"PENDING_CONFIRM"}, To(t, "COMPLETED"))
Reject(t)  == Move(t, {"PENDING_CONFIRM"}, To(t, "IN_PROGRESS"))

Withdraw(t) == Move(t, {"PENDING_TAKE", "IN_PROGRESS", "PENDING_CONFIRM"}, To(t, "CANCELLED"))

\* A cancelled task that somebody had taken stays cancelled.
Reopen(t) == board[t].taker = NoUser /\ Move(t, {"CANCELLED"}, To(t, "PENDING_TAKE"))

Abandon(t) == Move(t, {"IN_PROGRESS"}, [To(t, "PENDING_TAKE") EXCEPT !.taker = NoUser])

\* An administrator puts a task under another publisher; its phase and taker stay.
Transfer(t) ==
    \E u \in Users : Move(t, Phase \ {"ABSENT", "REMOVED"}, [board[t] EXCEPT !.publisher = u])

\* The publisher removes a task nobody has taken, an administrator any task.
Remove(t) == Move(t, Phase \ {"ABSENT", "REMOVED"}, To(t, "REMOVED"))

Next ==
    \E t \in Tasks :
        \/ Create(t)  \/ Publish(t)  \/ Claim(t)   \/ Submit(t)   \/ Confirm(t)
        \/ Reject(t)  \/ Withdraw(t) \/ Reopen(t)  \/ Abandon(t)  \/ Transfer(t)
        \/ Remove(t)

Spec == Init /\ [][Next]_board
=============================================================================

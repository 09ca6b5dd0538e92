-------------------------------- MODULE Fsm --------------------------------
(***************************************************************************)
(* The table-driven engine that runs one turn of a game (fsm.h, fsm.c).    *)
(* A table is a sequence of rows; fsm_transition scans it for the row with *)
(* the wanted pair of state ids.  Neither game's table ends with the       *)
(* FSM_IGNORE row the scan stops at, so a scan that finds nothing reads    *)
(* past the end of the array: that outcome is OFF_TABLE.                   *)
(***************************************************************************)
EXTENDS Integers, Sequences

FSM_IGNORE == -1
FSM_INIT == 0
FSM_EXIT == 1

OFF_TABLE == "off_table"

Row(from, to, perform) == [from_id |-> from, to_id |-> to, perform |-> perform]

IsRow(row, from, to) == row.from_id = from /\ row.to_id = to

HasRow(transitions, from, to) ==
  \E i \in 1..Len(transitions) : IsRow(transitions[i], from, to)

\* The handler of the first row of the pair.  (The scan looks at row 0 twice,
\* which changes nothing.)
FsmTransition(transitions, from, to) ==
  IF HasRow(transitions, from, to)
    THEN LET first == CHOOSE i \in 1..Len(transitions) :
                        /\ IsRow(transitions[i], from, to)
                        /\ \A j \in 1..(i - 1) : ~IsRow(transitions[j], from, to)
         IN  transitions[first].perform
    ELSE OFF_TABLE

\* What a handler leaves: the environment, the messages it sent, and the id of
\* the state the engine enters next, or FSM_EXIT.
Result(env, out, ret) == [env |-> env, out |-> out, ret |-> ret]
=============================================================================

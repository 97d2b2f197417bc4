----------------------------- MODULE MakeAgenda -----------------------------
(***************************************************************************)
(* A command like `make bootstrap deps bridge`, as what is left of it to   *)
(* do: a list of operations <<name, argument>>, one program after another. *)
(* An operation does its part, may put operations of its own in front, or  *)
(* fails and ends the command.  One command runs at a time.                *)
(*                                                                         *)
(* Whatever leaves several states of the disk behind when it is stopped in *)
(* the middle is several operations.                                       *)
(***************************************************************************)
EXTENDS Integers, Sequences

CONSTANTS
    Commands,   \* the commands a user gives: sequences of programs
    MaxFaults   \* bound: interruptions and bad deliveries

ASSUME AgendaAssumption == MaxFaults \in Nat

VARIABLES
    todo,       \* what is left of the command
    command,    \* the command that runs, or the last one if it succeeded
    outcome,    \* "none", "running", "ok" or "failed"
    faults      \* faults left (bound)

agenda == <<todo, command, outcome, faults>>

AgendaInit ==
    /\ todo = <<>>
    /\ command = <<>>
    /\ outcome = "none"
    /\ faults = MaxFaults

Idle == todo = <<>>
At(name) == todo # <<>> /\ Head(todo)[1] = name
Arg == Head(todo)[2]

\* The operation at the head is done, and these come next.
Then(operations) ==
    /\ todo' = operations \o Tail(todo)
    /\ outcome' = IF todo' = <<>> THEN "ok" ELSE outcome
    /\ UNCHANGED <<command, faults>>

\* It fails: a recipe, or the loop of a program, ends at the first error.
Stop ==
    /\ todo' = <<>>
    /\ command' = <<>>
    /\ outcome' = "failed"
    /\ UNCHANGED faults

Start ==
    /\ Idle
    /\ \E c \in Commands :
          /\ command' = c
          /\ todo' = c
    /\ outcome' = "running"
    /\ UNCHANGED faults

\* A kill, a network error, a tool that exits with an error.
Interrupt ==
    /\ ~ Idle
    /\ faults > 0
    /\ faults' = faults - 1
    /\ todo' = <<>>
    /\ command' = <<>>
    /\ outcome' = "failed"
=============================================================================

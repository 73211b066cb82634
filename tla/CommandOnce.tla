----------------------------- MODULE CommandOnce -----------------------------
(***************************************************************************)
(* What remote commands promise, whatever the network and the lease do: a  *)
(* command is handed to the agent at most once, executed at most once and  *)
(* only after that, and never when it was withdrawn before.                *)
(***************************************************************************)
EXTENDS Naturals

CONSTANT Command

VARIABLES
  phase,  \* [Command -> where the command is in its life]
  ran     \* [Command -> how often the agent began to execute it]

Phase == {"absent", "open", "withdrawn", "taken", "closed"}

Init == phase = [c \in Command |-> "absent"] /\ ran = [c \in Command |-> 0]

Submit(c) ==
  /\ phase[c] = "absent"
  /\ phase' = [phase EXCEPT ![c] = "open"]
  /\ UNCHANGED ran

Withdraw(c) ==
  /\ phase[c] = "open"
  /\ phase' = [phase EXCEPT ![c] = "withdrawn"]
  /\ UNCHANGED ran

HandOut(c) ==
  /\ phase[c] = "open"
  /\ phase' = [phase EXCEPT ![c] = "taken"]
  /\ UNCHANGED ran

\* The agent may be late: the command can have been given up already.
Execute(c) ==
  /\ phase[c] \in {"taken", "closed"}
  /\ ran[c] = 0
  /\ ran' = [ran EXCEPT ![c] = 1]
  /\ UNCHANGED phase

\* A report closes one command, an expiry of leases any number of them.
Close(S) ==
  /\ \A c \in S : phase[c] = "taken"
  /\ phase' = [c \in Command |-> IF c \in S THEN "closed" ELSE phase[c]]
  /\ UNCHANGED ran

Next ==
  \/ \E c \in Command : Submit(c) \/ Withdraw(c) \/ HandOut(c) \/ Execute(c)
  \/ \E S \in SUBSET Command : Close(S)

Spec == Init /\ [][Next]_<<phase, ran>>

=============================================================================

---------------------------- MODULE CommandQueue ----------------------------
(***************************************************************************)
(* What the remote command queue promises the operator of a machine,       *)
(* independently of how jobs are polled, marked and reported:              *)
(* a command is executed only after it was submitted, it is handed to the  *)
(* machine at most once, and it is executed at most once and only if it    *)
(* was handed over.                                                        *)
(***************************************************************************)
EXTENDS Naturals

CONSTANT Commands

VARIABLES
  submitted,  \* the commands an administrator has created
  handed,     \* the commands the machine has ever received
  executions  \* how often the machine has run each command

cqVars == <<submitted, handed, executions>>

CQInit ==
  /\ submitted = {}
  /\ handed = {}
  /\ executions = [c \in Commands |-> 0]

Submit(c) ==
  /\ c \notin submitted
  /\ submitted' = submitted \cup {c}
  /\ UNCHANGED <<handed, executions>>

\* A whole set of waiting commands is handed over in one reply.
HandOver(S) ==
  /\ S \cap handed = {}
  /\ handed' = handed \cup S
  /\ UNCHANGED <<submitted, executions>>

Run(c) ==
  /\ c \in handed
  /\ executions[c] = 0
  /\ executions' = [executions EXCEPT ![c] = 1]
  /\ UNCHANGED <<submitted, handed>>

CQNext ==
  \/ \E c \in Commands : Submit(c) \/ Run(c)
  \/ \E S \in SUBSET submitted : HandOver(S)

CQSpec == CQInit /\ [][CQNext]_cqVars
=============================================================================

-------------------------- MODULE CommandLifecycle --------------------------
(***************************************************************************)
(* What the driver's interface promises about a command, whoever uses it:  *)
(* a command is copied into a submission queue, becomes visible to the     *)
(* controller with all the others of its queue when the doorbell is rung,  *)
(* completes in any order, and is handed to a program by one reap.  It     *)
(* never goes back.  A controller reset loses every command of a queue     *)
(* that has not been reaped.                                               *)
(***************************************************************************)
CONSTANTS
    Commands,     \* the commands the program may send
    Queues,       \* submission queues, each paired with its completion queue
    queueOf       \* the queue a command is sent to

VARIABLE life     \* the stage each command has reached

Stages == {"unsent", "queued", "visible", "completed", "reaped", "lost"}

LifeTypeOK == life \in [Commands -> Stages]

OfQueue(q, stage) == {c \in Commands : queueOf[c] = q /\ life[c] = stage}

(* Move the commands of S to a stage. *)
Advance(S, stage) ==
    life' = [c \in Commands |-> IF c \in S THEN stage ELSE life[c]]

LifeInit == life = [c \in Commands |-> "unsent"]

Submit(c) == life[c] = "unsent" /\ Advance({c}, "queued")

Doorbell(q) == Advance(OfQueue(q, "queued"), "visible")

Complete(c) == life[c] = "visible" /\ Advance({c}, "completed")

Reap(q) == \E S \in SUBSET OfQueue(q, "completed") : Advance(S, "reaped")

Reset(q) ==
    Advance(OfQueue(q, "queued") \cup OfQueue(q, "visible")
                \cup OfQueue(q, "completed"), "lost")

LifeNext ==
    \/ \E c \in Commands : Submit(c) \/ Complete(c)
    \/ \E q \in Queues : Doorbell(q) \/ Reap(q) \/ Reset(q)

LifeSpec == LifeInit /\ [][LifeNext]_life
=============================================================================

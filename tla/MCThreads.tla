----------------------------- MODULE MCThreads ------------------------------
(***************************************************************************)
(* For TLC, what two threads share without a lock: the ring between its    *)
(* producer and its consumer, with a mask that fits and, its operations    *)
(* taken whole, with lengths that can be configured; and the addresses     *)
(* of a peer between the index worker and the detect worker.  A behaviour  *)
(* is about one of the three, and the variables of the others keep one     *)
(* initial value.                                                          *)
(***************************************************************************)
EXTENDS RingBufferFixed

CONSTANTS Length, Addr, NoAddr, Ports, Range, PUSH_INTERVAL, FULL_INTERVAL,
          Subject     \* which of "ring", "length" and "detect"

VARIABLES subject,
          block_num_mask, head, tail, waiting,
          range, list, shifting, idx, port, sent, push_age, full_age, lag,
          pc, ran, pong, late

lengthvars == <<block_num_mask, head, tail, waiting>>
detectvars == <<range, list, shifting, idx, port, sent, push_age, full_age,
                lag, pc, ran, pong, late>>

Configured == INSTANCE QueueLength WITH head_idx <- head, tail_idx <- tail
Detection == INSTANCE DetectWorker

ASSUME DetectionAssumption == Detection!DetectAssumption

(* Ranges of one port, of two and, with port 0, of all but the last; or    *)
(* the one that is configured by default, up to the last.                  *)
Narrow == {[from |-> 1, to |-> 2], [from |-> 2, to |-> 2],
           [from |-> 0, to |-> 1]}
Wide == {[from |-> 1, to |-> Ports - 1]}

EitherInit ==
  /\ subject \in Subject
  /\ Init /\ Configured!Init /\ Detection!Init
  /\ subject # "length" => block_num_mask = Configured!GNB_WORKER_MIN_QUEUE
  /\ subject # "detect" => range = CHOOSE r \in Range : TRUE

EitherNext ==
  \/ /\ subject = "ring" /\ Next
     /\ UNCHANGED <<subject, lengthvars, detectvars>>
  \/ /\ subject = "length" /\ Configured!Next
     /\ UNCHANGED <<subject, vars, detectvars>>
  \/ /\ subject = "detect" /\ Detection!Next
     /\ UNCHANGED <<subject, vars, lengthvars>>

(* The fairness of FairSpec in RingBufferFixed and in DetectWorker, each   *)
(* in behaviours about it.                                                 *)
EitherSpec ==
  /\ EitherInit
  /\ [][EitherNext]_<<subject, vars, lengthvars, detectvars>>
  /\ WF_vars(subject = "ring" /\ Consume)
  /\ WF_detectvars(subject = "detect" /\ Detection!Detecting)
  /\ WF_detectvars(subject = "detect" /\ Detection!Shift)
  /\ WF_detectvars(subject = "detect" /\ Detection!Tick)

(* No frame is lost when an index wraps round, and none refused while a    *)
(* block that the mask leads to is free (see QueueLength).                 *)
LosesNothing == Configured!LosesNothing
(* No more than one late probe, and none out of range (see DetectWorker).  *)
StopsProbing == Detection!StopsProbing
(* Every port is tried at every address that stays (see DetectWorker).     *)
EveryPortProbed == Detection!EveryPortProbed
=============================================================================

---------------------------- MODULE EmdcSample ----------------------------
(* What the processes of one energy meter gateway say to each other: a     *)
(* sample (sample.h) and the JSON message that carries it between them.    *)
(* A sample's identity is the primary key of the samples table, (ts,       *)
(* dc_id, rarr): a member of Samples stands for one such triple.  The      *)
(* canonical fields (value, unit, ...) travel with it and are never read   *)
(* by the processes modelled here.                                         *)
EXTENDS Naturals, Sequences

CONSTANTS Samples,  \* the identities a gateway may produce
          NoMsg     \* the value of a message buffer that holds nothing

STATUS_TO_DELIVER == "TO_DELIVER"
STATUS_DELIVERED == "DELIVERED"
STATUS_NOT_DELIVERED == "NOT_DELIVERED"

Status == {STATUS_TO_DELIVER, STATUS_DELIVERED, STATUS_NOT_DELIVERED}

EMDCsample == [sample : Samples, status : Status]

(* What a process holds of a message.  Every message on these queues was   *)
(* written by sample_to_json from a complete sample: sample_from_json then *)
(* finds every key, and gives back the identity and the status sent.       *)
Buffer == EMDCsample \cup {NoMsg}

ASSUME NoMsgAssumption == NoMsg \notin EMDCsample

(* The message a producer of samples sends, and the one that reports the   *)
(* broker's acknowledgement of it.                                         *)
Fresh(k) == [sample |-> k, status |-> STATUS_TO_DELIVER]

Delivered(m) == [m EXCEPT !.status = STATUS_DELIVERED]
===========================================================================

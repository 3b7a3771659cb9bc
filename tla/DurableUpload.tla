---------------------------- MODULE DurableUpload ----------------------------
(***************************************************************************)
(* What a client may rely on after the gateway answered 200 to its upload: *)
(* somewhere durable (the chain, or the gateway's own disk) its claim to   *)
(* the file is kept, until the client itself withdraws it.                 *)
(***************************************************************************)
CONSTANT Clients

VARIABLES durable,   \* clients whose claim would survive a crash
          acked      \* clients that were told their upload succeeded

Init == durable = {} /\ acked = {}

(* The gateway writes claims down before, and independently of, answering. *)
Keep(S) == durable' = durable \cup S /\ UNCHANGED acked

(* Only a durable claim is acknowledged; both may happen in one step.      *)
Acknowledge(c) ==
  /\ acked' = acked \cup {c}
  /\ durable' \in {durable, durable \cup {c}}
  /\ c \in durable'

(* A claim nobody was promised may be dropped.                             *)
Drop(S) ==
  /\ S \cap acked = {}
  /\ durable' = durable \ S
  /\ UNCHANGED acked

(* The client deletes its file or withdraws its authorisation.             *)
Withdraw(c) ==
  /\ acked' = acked \ {c}
  /\ durable' \subseteq durable
  /\ durable \ durable' \subseteq {c}

Next ==
  \/ \E S \in SUBSET Clients : Keep(S) \/ Drop(S)
  \/ \E c \in Clients : Acknowledge(c) \/ Withdraw(c)

Spec == Init /\ [][Next]_<<durable, acked>>
=============================================================================

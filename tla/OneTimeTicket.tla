--------------------------- MODULE OneTimeTicket ---------------------------
(***************************************************************************)
(* What a login flow kept in Redis promises, browser or device: it is      *)
(* opened once, at most one request ever takes it, and once taken or lapsed *)
(* it never comes back.                                                    *)
(***************************************************************************)
CONSTANTS Tickets, Holders

VARIABLES
  ticket,   \* ticket -> "none", "open" or "closed"
  holders   \* ticket -> the requests that work with it

vars == <<ticket, holders>>

Init ==
  /\ ticket = [t \in Tickets |-> "none"]
  /\ holders = [t \in Tickets |-> {}]

Open(t) ==
  /\ ticket[t] = "none"
  /\ ticket' = [ticket EXCEPT ![t] = "open"]
  /\ UNCHANGED holders

Take(t, h) ==
  /\ ticket[t] = "open"
  /\ ticket' = [ticket EXCEPT ![t] = "closed"]
  /\ holders' = [holders EXCEPT ![t] = {h}]

Lapse(t) ==
  /\ ticket[t] = "open"
  /\ ticket' = [ticket EXCEPT ![t] = "closed"]
  /\ UNCHANGED holders

Finish(t) ==
  /\ holders[t] # {}
  /\ holders' = [holders EXCEPT ![t] = {}]
  /\ UNCHANGED ticket

Next ==
  \E t \in Tickets :
    Open(t) \/ Lapse(t) \/ Finish(t) \/ \E h \in Holders : Take(t, h)

Spec == Init /\ [][Next]_vars
=============================================================================

-------------------------- MODULE AcquisitionControl --------------------------
(***************************************************************************)
(* What the ADKafka driver promises to whoever starts and stops it, with   *)
(* no threads, locks or events in it.  KafkaDriver implements it.          *)
(*                                                                         *)
(* An acquisition begins only upon a request, and a request is the doing   *)
(* of a client, who turns wanted on, or of the owner of the driver, who    *)
(* asks once more to get the driver's attention when destroying it.  While *)
(* an acquisition goes on, the driver decides again and again: a stop that *)
(* has been asked for by then is obeyed, otherwise it waits for a message. *)
(* Every message of an acquisition is one image, and is counted.  A stop   *)
(* uses up what was asked; the message that arrives in the wait it cuts    *)
(* short is dropped.  The driver leaves only when its owner destroys it,   *)
(* and the owner is done only once it has left.                            *)
(***************************************************************************)
EXTENDS Integers

VARIABLES
  stage,     \* what the driver is doing
  wanted,    \* do clients want it to acquire, as far as they know
  requests,  \* starts asked for and not begun
  asked,     \* has a stop been asked for
  owner,     \* how far the owner is with destroying the driver
  taken,     \* messages taken from the topic
  count      \* images of this acquisition

vars == <<stage, wanted, requests, asked, owner, taken, count>>

\* "deciding", "waiting" and "delivering" are the stages of an acquisition.
Stages == {"idle", "deciding", "waiting", "delivering", "draining", "gone"}
Owners == {"none", "signal", "wait", "done"}

TypeOK ==
  /\ stage \in Stages /\ owner \in Owners
  /\ wanted \in BOOLEAN /\ asked \in BOOLEAN
  /\ requests \in Nat /\ taken \in Nat /\ count \in Nat

Init ==
  /\ stage = "idle" /\ owner = "none"
  /\ wanted = FALSE /\ asked = FALSE
  /\ requests = 0 /\ taken = 0 /\ count = 0
-----------------------------------------------------------------------------
(* Clients and the owner                                                   *)

\* Requests that follow each other closely may be taken for one.
Request == requests' \in {requests, requests + 1} \ {0}

AskStart ==
  /\ owner = "none"
  /\ ~wanted /\ wanted' = TRUE
  /\ Request
  /\ UNCHANGED <<stage, asked, owner, taken, count>>

AskStop ==
  /\ owner = "none"
  /\ wanted /\ wanted' = FALSE
  /\ asked' = TRUE
  /\ UNCHANGED <<stage, requests, owner, taken, count>>

Abandon ==
  /\ owner = "none" /\ owner' = "signal"
  /\ UNCHANGED <<stage, wanted, requests, asked, taken, count>>

Signal ==
  /\ owner = "signal" /\ owner' = "wait"
  /\ Request
  /\ UNCHANGED <<stage, wanted, asked, taken, count>>

Return ==
  /\ owner = "wait" /\ owner' = "done"
  /\ stage = "gone"
  /\ UNCHANGED <<stage, wanted, requests, asked, taken, count>>
-----------------------------------------------------------------------------
(* The driver                                                              *)

Go(from, to) == stage = from /\ stage' = to

Start ==
  /\ Go("idle", "deciding")
  /\ requests > 0 /\ requests' = requests - 1
  /\ count' = 0
  /\ UNCHANGED <<wanted, owner, asked, taken>>

Obey ==
  /\ Go("deciding", "draining")
  /\ asked /\ asked' = FALSE
  /\ UNCHANGED <<wanted, owner, requests, taken, count>>

Wait ==
  /\ Go("deciding", "waiting")
  /\ ~asked
  /\ UNCHANGED <<wanted, owner, requests, asked, taken, count>>

WaitInVain ==
  /\ Go("waiting", "deciding")
  /\ UNCHANGED <<wanted, owner, requests, asked, taken, count>>

Take ==
  /\ Go("waiting", "delivering")
  /\ taken' = taken + 1
  /\ count' = count + 1
  /\ UNCHANGED <<wanted, owner, requests, asked>>

Drain ==
  /\ Go("draining", "idle")
  /\ taken' \in {taken, taken + 1}
  /\ UNCHANGED <<wanted, owner, requests, asked, count>>

Continue ==
  /\ Go("delivering", "deciding")
  /\ ~asked
  /\ UNCHANGED <<wanted, owner, requests, asked, taken, count>>

ObeyAfter ==
  /\ Go("delivering", "idle")
  /\ asked /\ asked' = FALSE
  /\ UNCHANGED <<wanted, owner, requests, taken, count>>

\* The last image: a stop that was asked for remains for the next acquisition.
Complete ==
  /\ Go("delivering", "idle")
  /\ wanted' = FALSE
  /\ UNCHANGED <<owner, requests, asked, taken, count>>

Leave ==
  /\ owner # "none"
  /\ stage \in {"idle", "deciding"} /\ stage' = "gone"
  /\ requests' \in 0..requests
  /\ UNCHANGED <<wanted, owner, asked, taken, count>>

Next ==
  \/ AskStart \/ AskStop \/ Abandon \/ Signal \/ Return
  \/ Start \/ Obey \/ Wait \/ WaitInVain \/ Take \/ Drain
  \/ Continue \/ ObeyAfter \/ Complete \/ Leave

Safety == Init /\ [][Next]_vars
-----------------------------------------------------------------------------
\* A stop ends the acquisition it finds, and a request begins one.
StopServed ==
  (asked /\ stage \in {"deciding", "waiting", "delivering"}) ~> stage \in {"idle", "draining", "gone"}
StartServed == (stage = "idle" /\ requests > 0) ~> stage # "idle"

Spec == Safety /\ StopServed /\ StartServed
=============================================================================

------------------------------ MODULE PollLoop ------------------------------
(***************************************************************************)
(* The loop that polls a source of messages, which three threads share in   *)
(* shape: ZMQServer::handle_requests, SpaceWireBridge::receiving_thread and *)
(* ZMQClient::subscription_thread.  It handles messages as long as there    *)
(* are some, and tests its stop condition only after MaxTries polls in a    *)
(* row found none.                                                          *)
(***************************************************************************)
EXTENDS Naturals

CONSTANT MaxTries   (* 100 in the three loops *)

VARIABLES
  running,   (* what the outer loop tests                                   *)
  place,     (* where the thread stands                                     *)
  tries,     (* empty polls in a row                                        *)
  pending    (* how many messages wait in the source                        *)

pollVars == <<running, place, tries, pending>>

Init ==
  /\ running \in BOOLEAN
  /\ place = "unborn"
  /\ tries = 0
  /\ pending = 0

Start ==
  /\ place = "unborn"
  /\ place' = "while"
  /\ running' \in {running, TRUE}
  /\ UNCHANGED <<tries, pending>>

While ==
  /\ place = "while"
  /\ place' = IF running THEN "poll" ELSE "done"
  /\ tries' = 0
  /\ UNCHANGED <<running, pending>>

Receive ==
  /\ place = "poll"
  /\ pending > 0
  /\ pending' = pending - 1
  /\ tries' = 0
  /\ place' = "handle"
  /\ UNCHANGED running

Handled ==
  /\ place = "handle"
  /\ place' = "poll"
  /\ UNCHANGED <<running, tries, pending>>

Miss ==
  /\ place = "poll"
  /\ pending = 0
  /\ tries' = tries + 1
  /\ place' = IF tries + 1 < MaxTries THEN "poll" ELSE "while"
  /\ UNCHANGED <<running, pending>>

Arrive ==
  /\ pending' = pending + 1
  /\ UNCHANGED <<running, place, tries>>

Stop ==
  /\ running' = FALSE
  /\ UNCHANGED <<place, tries, pending>>

Loop == While \/ Receive \/ Handled \/ Miss

Next == Start \/ Loop \/ Arrive \/ Stop

Spec == Init /\ [][Next]_pollVars

FairSpec == Spec /\ WF_pollVars(Loop)

-----------------------------------------------------------------------------
Stopped == ~running /\ place # "unborn"

(* "SIGINT received closing..." (ZMQServer.cpp:57): close sets m_running and *)
(* joins the thread of this loop, so the loop has to end.                   *)
StopEnds == Stopped ~> place = "done"
=============================================================================

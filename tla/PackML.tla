------------------------------- MODULE PackML -------------------------------
(***************************************************************************)
(* packml.py: which command a station's state machine accepts in which     *)
(* state, and the waiting state it reaches. An acting state (Clearing,     *)
(* Suspending, ...) is passed through inside one Line._drive call, which   *)
(* applies a command, publishes, settles and publishes again; no other     *)
(* command ever finds a machine in one.                                    *)
(***************************************************************************)

Waiting == {"Aborted", "Stopped", "Idle", "Execute", "Held", "Suspended"}

Enters == [Clear |-> "Clearing", Reset |-> "Resetting", Start |-> "Starting",
           Hold |-> "Holding", Unhold |-> "Unholding", Suspend |-> "Suspending",
           Unsuspend |-> "Unsuspending", Stop |-> "Stopping", Abort |-> "Aborting"]

Commands == DOMAIN Enters
Acting == {Enters[c] : c \in Commands}

SettlesTo == [Aborting |-> "Aborted", Clearing |-> "Stopped", Stopping |-> "Stopped",
              Resetting |-> "Idle", Starting |-> "Execute", Holding |-> "Held",
              Unholding |-> "Execute", Suspending |-> "Suspended",
              Unsuspending |-> "Execute"]

\* Abort is accepted everywhere; Stop everywhere but on the way down and from there up.
Accepts ==
  [Clear |-> {"Aborted"}, Reset |-> {"Stopped"}, Start |-> {"Idle"},
   Hold |-> {"Execute"}, Unhold |-> {"Held"},
   Suspend |-> {"Execute"}, Unsuspend |-> {"Suspended"},
   Stop |-> (Waiting \cup Acting)
              \ {"Aborted", "Aborting", "Clearing", "Stopping", "Stopped"},
   Abort |-> Waiting \cup Acting]

\* The state one accepted command leaves a machine in once it has settled.
Reaches(command) == SettlesTo[Enters[command]]

\* Recovery from a shutdown, and §3.5's reset that changes nothing.
BringUp == <<"Clear", "Reset", "Start">>
ResetInPlace == <<"Stop", "Reset", "Start">>
=============================================================================

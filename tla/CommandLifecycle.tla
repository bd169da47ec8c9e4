-------------------------- MODULE CommandLifecycle --------------------------
(***************************************************************************)
(* What the command pipeline promises to the rest of the system: a command *)
(* that has been requested is decided once, its verdict never changes, the *)
(* workspace feed announces that verdict and no other, and the state       *)
(* recorded for a device is always that of a command that succeeded on it. *)
(***************************************************************************)
CONSTANTS Commands, Devices, DeviceOf, NoCommand

VARIABLES
  verdict,      \* what is known of a command
  announced,    \* the terminal event of the command in the workspace feed
  deviceState   \* the command whose effect devices.state records

vars == <<verdict, announced, deviceState>>

Init ==
  /\ verdict = [c \in Commands |-> "absent"]
  /\ announced = [c \in Commands |-> "none"]
  /\ deviceState = [d \in Devices |-> NoCommand]

Request(c) ==
  /\ verdict[c] = "absent"
  /\ verdict' = [verdict EXCEPT ![c] = "open"]
  /\ UNCHANGED <<announced, deviceState>>

Decide(c, v) ==
  /\ verdict[c] = "open"
  /\ verdict' = [verdict EXCEPT ![c] = v]
  /\ announced' = [announced EXCEPT ![c] = v]
  /\ deviceState' = IF v = "succeeded"
                    THEN [deviceState EXCEPT ![DeviceOf[c]] = c]
                    ELSE deviceState

Next == \E c \in Commands :
          Request(c) \/ \E v \in {"succeeded", "failed"} : Decide(c, v)

Spec == Init /\ [][Next]_vars

\* A requested command does not stay open for ever.
FairSpec ==
  /\ Spec
  /\ \A c \in Commands : WF_vars(\E v \in {"succeeded", "failed"} : Decide(c, v))
=============================================================================

------------------------------ MODULE Steering ------------------------------
(***************************************************************************)
(* The steering state machine of a task (engine/steering.ts): one state    *)
(* and at most one pending redirect prompt per registered task.            *)
(*                                                                         *)
(* SteeringImpl subscribes to the very events its request methods emit,    *)
(* and EventBus.emit invokes handlers before it returns.  A request        *)
(* therefore writes the intermediate state (pausing, resuming, ...), lets  *)
(* its own handler take the transition to the final one, and only then     *)
(* returns: both writes are one action here, composed with Transition.     *)
(***************************************************************************)
CONSTANTS
  Task,       \* task identifiers
  Prompt,     \* prompts a task can be given
  NoPrompt    \* no prompt: no row yet, or no pending redirect

ASSUME NoPromptAssumption == NoPrompt \notin Prompt

VARIABLES
  states,            \* [Task -> steering state], Unregistered when not in the Map
  redirectPayloads   \* [Task -> pending redirect prompt]

steeringVars == <<states, redirectPayloads>>

Unregistered == "unregistered"

SteeringState ==
  {"running", "pausing", "paused", "resuming", "redirecting", "cancelling", "cancelled"}

SteeringTypeOK ==
  /\ states \in [Task -> SteeringState \cup {Unregistered}]
  /\ redirectPayloads \in [Task -> Prompt \cup {NoPrompt}]

SteeringInit ==
  /\ states = [t \in Task |-> Unregistered]
  /\ redirectPayloads = [t \in Task |-> NoPrompt]

-----------------------------------------------------------------------------

\* Mutant: the table forgets that a redirecting task goes on running.
TransitionsWithoutRedirected ==
  [ running     |-> {"pausing", "redirecting", "cancelling"},
    pausing     |-> {"paused", "cancelling"},
    paused      |-> {"resuming", "redirecting", "cancelling"},
    resuming    |-> {"running", "cancelling"},
    redirecting |-> {"cancelling"},
    cancelling  |-> {"cancelled"},
    cancelled   |-> {} ]

\* The pairs of VALID_TRANSITIONS.
ValidTransitions ==
  [ running     |-> {"pausing", "redirecting", "cancelling"},
    pausing     |-> {"paused", "cancelling"},
    paused      |-> {"resuming", "redirecting", "cancelling"},
    resuming    |-> {"running", "cancelling"},
    redirecting |-> {"running", "cancelling"},
    cancelling  |-> {"cancelled"},
    cancelled   |-> {} ]

\* The state after the handler of a steering event has run in state s: untracked
\* tasks, repeated states and transitions not in the table are ignored.
Transition(s, target) ==
  IF s # Unregistered /\ target \in ValidTransitions[s] THEN target ELSE s

-----------------------------------------------------------------------------

\* requestPause, then the steering:paused handler.
RequestPause(t) ==
  /\ states[t] = "running"
  /\ states' = [states EXCEPT ![t] = Transition("pausing", "paused")]
  /\ UNCHANGED redirectPayloads

\* requestResume, then the steering:resumed handler.
RequestResume(t) ==
  /\ states[t] = "paused"
  /\ states' = [states EXCEPT ![t] = Transition("resuming", "running")]
  /\ UNCHANGED redirectPayloads

\* requestRedirect, then the steering:redirected handler.
RequestRedirect(t, newPrompt) ==
  /\ states[t] \in {"running", "paused"}
  /\ states' = [states EXCEPT ![t] = Transition("redirecting", "running")]
  /\ redirectPayloads' = [redirectPayloads EXCEPT ![t] = newPrompt]

\* requestCancel, then the steering:cancelled handler.
RequestCancel(t) ==
  /\ states[t] \notin {Unregistered, "cancelled"}
  /\ states' = [states EXCEPT ![t] = Transition("cancelling", "cancelled")]
  /\ UNCHANGED redirectPayloads

=============================================================================
